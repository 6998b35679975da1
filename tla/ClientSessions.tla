---------------------------- MODULE ClientSessions ----------------------------
(***************************************************************************)
(* A client's RTSP connections (Server.tproj/RTSPSession.cpp) and the RTP  *)
(* sessions they set up (RTPSession.cpp), each a task of its own.          *)
(*                                                                         *)
(* A request resolves its RTP session in the session map and releases it   *)
(* when its response is out; the RTP session leaves the map only while     *)
(* nobody holds it.  In the other direction an RTP session points at the   *)
(* connection of its last request and counts among its object holders; the *)
(* connection is deleted only while it has none.  Nothing but these two    *)
(* counters keeps either from being deleted under the other.               *)
(*                                                                         *)
(* The connections belong to one client, which may name on any of them the *)
(* session IDs it was told.  One reference of the map is one RTP session,  *)
(* so the map is the set of the sessions that are active.                  *)
(***************************************************************************)
EXTENDS Integers, FiniteSets

CONSTANTS
    RTSPSessions,   \* the client's connections
    RTPSessions,    \* the session objects that may be made
    HolderModulus,  \* fObjectHolders is an unsigned int of this many values
    None

ASSUME ConstantsAssumption ==
    /\ IsFiniteSet(RTSPSessions) /\ IsFiniteSet(RTPSessions)
    /\ None \notin RTSPSessions \cup RTPSessions
    /\ RTSPSessions \cap RTPSessions = {}
    /\ HolderModulus \in Nat /\ HolderModulus > Cardinality(RTPSessions)

VARIABLES
    fState,          \* where Run is in the state machine of each connection
    fLive,           \* IsLiveSession()
    fRTPSession,     \* the RTP session a connection has resolved, or None
    lastID,          \* fLastRTPSessionID: the session whose ID it holds, or None
    lastLen,         \* fLastRTPSessionIDPtr.Len > 0
    fObjectHolders,  \* the holders each connection counts
    connKilled,      \* a kill event is waiting for the connection
    life,            \* where each RTP session is, from its creation on
    sessionKilled,   \* a kill or timeout event is waiting for the RTP session
    refreshed,       \* its timer was reset after it was last looked at
    fRTSPSession,    \* the connection an RTP session points at, or None
    fRefCount,       \* the reference count of an RTP session in the map
    owed,            \* the connection that an actor has found without holders
                     \* and is about to signal, or None
    told,            \* the session IDs the client was told
    forgotten,       \* history: references that lost their holder
    raced            \* history: two actors handled one fRTSPSession at once

connVars == <<fState, fLive, fRTPSession, lastID, lastLen, fObjectHolders, connKilled>>
sessionVars == <<life, sessionKilled, refreshed, fRTSPSession, fRefCount>>
vars == <<connVars, sessionVars, owed, told, forgotten, raced>>

Init ==
    /\ fState = [c \in RTSPSessions |-> "reading"]
    /\ fLive = [c \in RTSPSessions |-> TRUE]
    /\ fRTPSession = [c \in RTSPSessions |-> None]
    /\ lastID = [c \in RTSPSessions |-> None]
    /\ lastLen = [c \in RTSPSessions |-> FALSE]
    /\ fObjectHolders = [c \in RTSPSessions |-> 0]
    /\ connKilled = [c \in RTSPSessions |-> FALSE]
    /\ life = [p \in RTPSessions |-> "unborn"]
    /\ sessionKilled = [p \in RTPSessions |-> FALSE]
    /\ refreshed = [p \in RTPSessions |-> FALSE]
    /\ fRTSPSession = [p \in RTPSessions |-> None]
    /\ fRefCount = [p \in RTPSessions |-> 0]
    /\ owed = [x \in RTSPSessions \cup RTPSessions |-> None]
    /\ told = {}
    /\ forgotten = [p \in RTPSessions |-> 0]
    /\ raced = FALSE

-----------------------------------------------------------------------------
(* What the steps share. *)

\* An active session is "tearing" while a module tears it down in its own Run.
Active == {"active", "tearing"}

InMap(p) == p \in RTPSessions /\ life[p] \in Active

\* The counter goes down in one step, the signal that follows is another.
DecrementObjectHolderCount(x, c) ==
    LET left == (fObjectHolders[c] + HolderModulus - 1) % HolderModulus
    IN  /\ fObjectHolders' = [fObjectHolders EXCEPT ![c] = left]
        /\ owed' = [owed EXCEPT ![x] = IF left = 0 THEN c ELSE None]

\* A signal to a connection that was deleted meanwhile reaches nobody here.
SignalOwed(x) ==
    /\ connKilled' = [c \in RTSPSessions |->
                        connKilled[c] \/ (owed[x] = c /\ fState[c] # "deleted")]
    /\ owed' = [owed EXCEPT ![x] = None]

\* The actors that have taken p's fRTSPSession off its counter and not yet stored
\* its new value.
Handling(p) ==
    {q \in {p} : life[q] = "tearing"} \cup
    {c \in RTSPSessions :
        fRTPSession[c] = p /\ fState[c] \in {"tearing", "updating", "dropped"}}

\* p's fRTSPSession comes off the counter: Teardown and UpdateRTSPSession begin.
LetGo(x, p) ==
    /\ raced' = (raced \/ Handling(p) # {})
    /\ IF fRTSPSession[p] = None
       THEN UNCHANGED <<fObjectHolders, owed>>
       ELSE DecrementObjectHolderCount(x, fRTSPSession[p])

\* The session mutex, which the module roles and the post-processing take.
SessionMutexFree(p) ==
    /\ life[p] # "tearing"
    /\ \A c \in RTSPSessions : fState[c] \in {"tearing", "updating"} => fRTPSession[c] # p

Release(p) == fRefCount' = [fRefCount EXCEPT ![p] = @ - 1]

\* Mutant of CleanupRequest: the reference is kept.
CleanupRequestWithoutRelease(c, alive) ==
    /\ fRTPSession' = [fRTPSession EXCEPT ![c] = None]
    /\ UNCHANGED <<fRefCount, lastID, lastLen>>

\* CleanupRequest, for a connection that is alive or not.
CleanupRequest(c, alive) ==
    /\ IF fRTPSession[c] = None
       THEN UNCHANGED fRefCount
       ELSE Release(fRTPSession[c])
    /\ fRTPSession' = [fRTPSession EXCEPT ![c] = None]
    /\ lastID' = [lastID EXCEPT ![c] = IF alive THEN @ ELSE None]
    /\ lastLen' = [lastLen EXCEPT ![c] = @ /\ alive]

Goto(c, state) == fState' = [fState EXCEPT ![c] = state]

-----------------------------------------------------------------------------
(* A request arrives and finds or makes its RTP session. *)

\* FindRTPSession looks for the ID of the Session header, or for the last ID
\* of the connection if there is no header.
Named(c) == told \cup (IF lastLen[c] THEN {lastID[c]} ELSE {None})

\* SetupRequest finds the session.  A ping, an OPTIONS or a request in error is
\* answered at once; the others go on to the modules.
FindRTPSession(c) ==
    /\ fState[c] = "reading" /\ fLive[c]
    /\ \E p \in {q \in Named(c) : InMap(q)}, next \in {"working", "post"} :
          /\ fRTPSession' = [fRTPSession EXCEPT ![c] = p]
          /\ fRefCount' = [fRefCount EXCEPT ![p] = @ + 1]
          /\ refreshed' = [refreshed EXCEPT ![p] = TRUE]
          /\ Goto(c, next)
    /\ UNCHANGED <<fLive, lastID, lastLen, fObjectHolders, connKilled, life,
                   sessionKilled, fRTSPSession, owed, told, forgotten, raced>>

\* It names no session, or one that is gone: CreateNewRTPSession registers a
\* new one and resolves it.  Its timer is far from expiring.
CreateNewRTPSession(c) ==
    /\ fState[c] = "reading" /\ fLive[c]
    /\ \E q \in Named(c) : ~InMap(q)
    /\ \E p \in RTPSessions :
          /\ life[p] = "unborn"
          /\ life' = [life EXCEPT ![p] = "active"]
          /\ fRTPSession' = [fRTPSession EXCEPT ![c] = p]
          /\ fRefCount' = [fRefCount EXCEPT ![p] = 1]
          /\ refreshed' = [refreshed EXCEPT ![p] = TRUE]
          /\ lastID' = [lastID EXCEPT ![c] = p]
    /\ lastLen' = [lastLen EXCEPT ![c] = TRUE]
    /\ Goto(c, "working")
    /\ UNCHANGED <<fLive, fObjectHolders, connKilled, sessionKilled,
                   fRTSPSession, owed, told, forgotten, raced>>

\* The request is answered without a session: a syntax error, an OPTIONS, a
\* server that accepts no more sessions.
AnswerWithoutSession(c) ==
    /\ fState[c] = "reading" /\ fLive[c]
    /\ Goto(c, "post")
    /\ UNCHANGED <<fLive, fRTPSession, lastID, lastLen, fObjectHolders, connKilled,
                   sessionVars, owed, told, forgotten, raced>>

\* An interleaved data packet: there is no response and no post-processing.
HandleIncomingDataPacket(c) ==
    /\ fState[c] = "reading" /\ fLive[c]
    /\ \E p \in {q \in told : InMap(q)} :
          /\ fRTPSession' = [fRTPSession EXCEPT ![c] = p]
          /\ fRefCount' = [fRefCount EXCEPT ![p] = @ + 1]
          /\ refreshed' = [refreshed EXCEPT ![p] = TRUE]
    /\ Goto(c, "sending")
    /\ UNCHANGED <<fLive, lastID, lastLen, fObjectHolders, connKilled, life,
                   sessionKilled, fRTSPSession, owed, told, forgotten, raced>>

-----------------------------------------------------------------------------
(* The modules' roles, the post-processing and the response. *)

\* The modules answer.  One of them may answer before the authorization is
\* through; after it a SETUP hides the last ID and other methods restore it.
CallModules(c) ==
    /\ fState[c] = "working"
    /\ SessionMutexFree(fRTPSession[c])
    /\ \E len \in {lastLen[c], FALSE, lastID[c] # None} :
          lastLen' = [lastLen EXCEPT ![c] = len]
    /\ Goto(c, "post")
    /\ UNCHANGED <<fLive, fRTPSession, lastID, fObjectHolders, connKilled,
                   sessionVars, owed, told, forgotten, raced>>

\* A module serves a TEARDOWN: RTPSession::Teardown, under the session mutex.
BeginTeardown(c) ==
    /\ fState[c] = "working"
    /\ SessionMutexFree(fRTPSession[c])
    /\ LetGo(c, fRTPSession[c])
    /\ lastLen' = [lastLen EXCEPT ![c] = lastID[c] # None]
    /\ Goto(c, "tearing")
    /\ UNCHANGED <<fLive, fRTPSession, lastID, connKilled, sessionVars, told, forgotten>>

\* Mutant of FinishTeardown: the pointer is not set to NULL.
FinishTeardownKeepsPointer(x, p) ==
    /\ SignalOwed(x)
    /\ sessionKilled' = [sessionKilled EXCEPT ![p] = TRUE]
    /\ UNCHANGED fRTSPSession

\* The rest of Teardown: the signal, the pointer, the kill event.
FinishTeardown(x, p) ==
    /\ SignalOwed(x)
    /\ fRTSPSession' = [fRTSPSession EXCEPT ![p] = None]
    /\ sessionKilled' = [sessionKilled EXCEPT ![p] = TRUE]

EndTeardown(c) ==
    /\ fState[c] = "tearing"
    /\ FinishTeardown(c, fRTPSession[c])
    /\ Goto(c, "post")
    /\ UNCHANGED <<refreshed, fLive, fRTPSession, lastID, lastLen, fObjectHolders, life,
                   fRefCount, told, forgotten, raced>>

\* The connection lives on if the response is to keep it alive.  If it does,
\* the RTP session is told of it, unless it knows.
PostProcess(c) ==
    /\ fState[c] = "post"
    /\ \E keepAlive \in BOOLEAN :
          LET p == fRTPSession[c]
              alive == fLive[c] /\ keepAlive
          IN  /\ fLive' = [fLive EXCEPT ![c] = alive]
              /\ p # None => SessionMutexFree(p)
              /\ IF alive /\ p # None /\ fRTSPSession[p] # c
                 THEN LetGo(c, p) /\ Goto(c, "updating")
                 ELSE /\ Goto(c, "sending")
                      /\ UNCHANGED <<fObjectHolders, owed, raced>>
    /\ UNCHANGED <<fRTPSession, lastID, lastLen, connKilled, sessionVars, told, forgotten>>

\* The rest of UpdateRTSPSession: the RTP session holds this connection now.
EndUpdate(c) ==
    /\ fState[c] = "updating"
    /\ SignalOwed(c)
    /\ fRTSPSession' = [fRTSPSession EXCEPT ![fRTPSession[c]] = c]
    /\ fObjectHolders' = [fObjectHolders EXCEPT ![c] = (@ + 1) % HolderModulus]
    /\ Goto(c, "sending")
    /\ UNCHANGED <<refreshed, fLive, fRTPSession, lastID, lastLen, life, sessionKilled,
                   fRefCount, told, forgotten, raced>>

\* The response is out and what is left of the request was read.
FinishRequest(c) ==
    /\ fState[c] = "sending"
    /\ CleanupRequest(c, fLive[c])
    /\ told' = told \cup ({fRTPSession[c]} \ {None})
    /\ Goto(c, IF fLive[c] THEN "reading" ELSE "ending")
    /\ UNCHANGED <<refreshed, fLive, fObjectHolders, connKilled, life, sessionKilled,
                   fRTSPSession, owed, forgotten, raced>>

-----------------------------------------------------------------------------
(* The end of a connection. *)

\* The client closes it, the network loses it, or its timer expires.
Lose(c) ==
    /\ fLive[c]
    /\ fLive' = [fLive EXCEPT ![c] = FALSE]
    /\ UNCHANGED <<fState, fRTPSession, lastID, lastLen, fObjectHolders, connKilled,
                   sessionVars, owed, told, forgotten, raced>>

\* Run is called again where it had returned to wait, for the next request, for
\* a module or for the socket, and finds that the connection is to end.
GiveUp(c) ==
    /\ fState[c] \in {"reading", "working", "sending"}
    /\ ~fLive[c] \/ connKilled[c]
    /\ fLive' = [fLive EXCEPT ![c] = FALSE]
    /\ connKilled' = [connKilled EXCEPT ![c] = FALSE]
    /\ Goto(c, "ending")
    /\ UNCHANGED <<fRTPSession, lastID, lastLen, fObjectHolders, sessionVars,
                   owed, told, forgotten, raced>>

\* If RTP sessions hold the connection, the last one is resolved to tear it
\* down.  It takes the place of the one a request may have under way.
ResolveLast(c) ==
    /\ fState[c] = "ending"
    /\ IF fObjectHolders[c] > 0 /\ lastLen[c] /\ InMap(lastID[c])
       THEN /\ fRTPSession' = [fRTPSession EXCEPT ![c] = lastID[c]]
            /\ fRefCount' = [fRefCount EXCEPT ![lastID[c]] = @ + 1]
            /\ forgotten' = [p \in RTPSessions |->
                               forgotten[p] + IF fRTPSession[c] = p THEN 1 ELSE 0]
            /\ Goto(c, "dropping")
       ELSE /\ Goto(c, "final")
            /\ UNCHANGED <<fRTPSession, fRefCount, forgotten>>
    /\ UNCHANGED <<refreshed, fLive, lastID, lastLen, fObjectHolders, connKilled, life,
                   sessionKilled, fRTSPSession, owed, told, raced>>

\* Teardown again, this time without the session mutex.
DropSession(c) ==
    /\ fState[c] = "dropping"
    /\ LetGo(c, fRTPSession[c])
    /\ Goto(c, "dropped")
    /\ UNCHANGED <<fLive, fRTPSession, lastID, lastLen, connKilled, sessionVars,
                   told, forgotten>>

EndDrop(c) ==
    /\ fState[c] = "dropped"
    /\ FinishTeardown(c, fRTPSession[c])
    /\ Release(fRTPSession[c])
    /\ fRTPSession' = [fRTPSession EXCEPT ![c] = None]
    /\ Goto(c, "final")
    /\ UNCHANGED <<refreshed, fLive, lastID, lastLen, fObjectHolders, life, told,
                   forgotten, raced>>

\* Mutant of MayDelete: nobody looks at the holders.
DeleteAnyway(c) == TRUE

MayDelete(c) == fObjectHolders[c] = 0

\* The last CleanupRequest; the connection is deleted if nobody holds it and is
\* dead otherwise.
EndRun(c) ==
    /\ fState[c] = "final"
    /\ CleanupRequest(c, FALSE)
    /\ Goto(c, IF MayDelete(c) THEN "deleted" ELSE "dead")
    /\ UNCHANGED <<refreshed, fLive, fObjectHolders, connKilled, life, sessionKilled,
                   fRTSPSession, owed, told, forgotten, raced>>

\* The timer that has expired goes off again at every scan, and the last
\* holder's kill event wakes the connection sooner.
WakeDead(c) ==
    /\ fState[c] = "dead"
    /\ connKilled' = [connKilled EXCEPT ![c] = FALSE]
    /\ Goto(c, "ending")
    /\ UNCHANGED <<fLive, fRTPSession, lastID, lastLen, fObjectHolders,
                   sessionVars, owed, told, forgotten, raced>>

-----------------------------------------------------------------------------
(* The task of an RTP session. *)

\* The server tells it to go: it is shutting down, or an administrator asks.
Kill(p) ==
    /\ InMap(p)
    /\ sessionKilled' = [sessionKilled EXCEPT ![p] = TRUE]
    /\ UNCHANGED <<connVars, life, refreshed, fRTSPSession, fRefCount, owed, told,
                   forgotten, raced>>

\* The client or a module shows a sign of life: an RTCP packet, of which "no matter
\* what happens" resets the timer, data written to the client, QTSS_RefreshTimeOut.
\* It needs no connection.
Refresh(p) ==
    /\ InMap(p)
    /\ refreshed' = [refreshed EXCEPT ![p] = TRUE]
    /\ UNCHANGED <<connVars, life, sessionKilled, fRTSPSession, fRefCount, owed, told,
                   forgotten, raced>>

\* The timeout thread looks at its timer once per timeout: it tells the session to go
\* unless somebody has reset the timer since.
TimerScan(p) ==
    /\ InMap(p) /\ ~sessionKilled[p]
    /\ refreshed' = [refreshed EXCEPT ![p] = FALSE]
    /\ sessionKilled' = [sessionKilled EXCEPT ![p] = ~refreshed[p]]
    /\ UNCHANGED <<connVars, life, fRTSPSession, fRefCount, owed, told, forgotten, raced>>

\* A module that sends its packets tears it down: the file is at its end, or
\* broken.  Run holds the session mutex.
SendPacketsTeardown(p) ==
    /\ life[p] = "active" /\ ~sessionKilled[p]
    /\ SessionMutexFree(p)
    /\ LetGo(p, p)
    /\ life' = [life EXCEPT ![p] = "tearing"]
    /\ UNCHANGED <<refreshed, fState, fLive, fRTPSession, lastID, lastLen, connKilled,
                   sessionKilled, fRTSPSession, fRefCount, told, forgotten>>

EndSendPacketsTeardown(p) ==
    /\ life[p] = "tearing"
    /\ FinishTeardown(p, p)
    /\ life' = [life EXCEPT ![p] = "active"]
    /\ UNCHANGED <<refreshed, fState, fLive, fRTPSession, lastID, lastLen, fObjectHolders,
                   fRefCount, told, forgotten, raced>>

\* Mutant of TryLater: the event that Run has taken is not set again.
ForgetToTryLater(p) == sessionKilled' = [sessionKilled EXCEPT ![p] = FALSE]

\* While somebody holds it the session signals itself and tries again.
TryLater(p) == sessionKilled' = [sessionKilled EXCEPT ![p] = TRUE]

\* Mutant of MayUnRegister: nobody looks at the reference count.
UnRegisterAnyway(p) == TRUE

MayUnRegister(p) == fRefCount[p] = 0

RunKilled(p) ==
    /\ life[p] = "active" /\ sessionKilled[p]
    /\ IF MayUnRegister(p)
       THEN /\ life' = [life EXCEPT ![p] = "closing"]
            /\ sessionKilled' = [sessionKilled EXCEPT ![p] = FALSE]
       ELSE TryLater(p) /\ UNCHANGED life
    /\ UNCHANGED <<refreshed, connVars, fRTSPSession, fRefCount, owed, told, forgotten, raced>>

\* Mutant of Destroy: the connection keeps its holder.
DestroyKeepsHolder(p) ==
    /\ life[p] = "closing"
    /\ fRTSPSession' = [fRTSPSession EXCEPT ![p] = None]
    /\ life' = [life EXCEPT ![p] = "signalling"]
    /\ UNCHANGED <<refreshed, connVars, sessionKilled, fRefCount, owed, told, forgotten, raced>>

\* The closing modules are through and the destructor lets the connection go.
Destroy(p) ==
    /\ life[p] = "closing"
    /\ IF fRTSPSession[p] = None
       THEN UNCHANGED <<fObjectHolders, owed>>
       ELSE DecrementObjectHolderCount(p, fRTSPSession[p])
    /\ fRTSPSession' = [fRTSPSession EXCEPT ![p] = None]
    /\ life' = [life EXCEPT ![p] = "signalling"]
    /\ UNCHANGED <<refreshed, fState, fLive, fRTPSession, lastID, lastLen, connKilled,
                   sessionKilled, fRefCount, told, forgotten, raced>>

EndDestroy(p) ==
    /\ life[p] = "signalling"
    /\ SignalOwed(p)
    /\ life' = [life EXCEPT ![p] = "deleted"]
    /\ UNCHANGED <<refreshed, fState, fLive, fRTPSession, lastID, lastLen, fObjectHolders,
                   sessionKilled, fRTSPSession, fRefCount, told, forgotten, raced>>

-----------------------------------------------------------------------------
ClientStep(c) ==
    \/ FindRTPSession(c) \/ CreateNewRTPSession(c) \/ AnswerWithoutSession(c)
    \/ HandleIncomingDataPacket(c) \/ Lose(c)

RTSPRun(c) ==
    \/ CallModules(c) \/ BeginTeardown(c) \/ EndTeardown(c) \/ PostProcess(c)
    \/ EndUpdate(c) \/ FinishRequest(c) \/ GiveUp(c) \/ ResolveLast(c)
    \/ DropSession(c) \/ EndDrop(c) \/ EndRun(c) \/ WakeDead(c)

RTPRun(p) == EndSendPacketsTeardown(p) \/ RunKilled(p) \/ Destroy(p) \/ EndDestroy(p)

Next ==
    \/ \E c \in RTSPSessions : ClientStep(c) \/ RTSPRun(c)
    \/ \E p \in RTPSessions :
          Kill(p) \/ Refresh(p) \/ TimerScan(p) \/ SendPacketsTeardown(p) \/ RTPRun(p)

Spec == Init /\ [][Next]_vars

\* The timeout thread looks at every timer again and again.
FairSpec ==
    /\ Spec
    /\ \A c \in RTSPSessions : WF_vars(RTSPRun(c))
    /\ \A p \in RTPSessions :
          /\ SF_vars(RTPRun(p))
          /\ WF_vars(TimerScan(p))

-----------------------------------------------------------------------------
(* Properties. *)

Stages == {"reading", "working", "tearing", "post", "updating", "sending",
           "ending", "dropping", "dropped", "final", "dead", "deleted"}

\* Every variable has its type.
TypeOK ==
    /\ fState \in [RTSPSessions -> Stages]
    /\ fLive \in [RTSPSessions -> BOOLEAN]
    /\ fRTPSession \in [RTSPSessions -> RTPSessions \cup {None}]
    /\ lastID \in [RTSPSessions -> RTPSessions \cup {None}]
    /\ lastLen \in [RTSPSessions -> BOOLEAN]
    /\ fObjectHolders \in [RTSPSessions -> 0 .. HolderModulus - 1]
    /\ connKilled \in [RTSPSessions -> BOOLEAN]
    /\ life \in [RTPSessions -> Active \cup {"unborn", "closing", "signalling", "deleted"}]
    /\ sessionKilled \in [RTPSessions -> BOOLEAN]
    /\ refreshed \in [RTPSessions -> BOOLEAN]
    /\ fRTSPSession \in [RTPSessions -> RTSPSessions \cup {None}]
    /\ fRefCount \in [RTPSessions -> Nat]
    /\ owed \in [RTSPSessions \cup RTPSessions -> RTSPSessions \cup {None}]
    /\ told \subseteq RTPSessions
    /\ forgotten \in [RTPSessions -> Nat]
    /\ raced \in BOOLEAN

Users(p) == {c \in RTSPSessions : fRTPSession[c] = p}

\* The RTP session a connection works on is in the map and stays there: its
\* task neither closes nor deletes it under a request.
ResolvedIsActive ==
    \A c \in RTSPSessions : fRTPSession[c] # None => InMap(fRTPSession[c])

\* Every reference belongs to a connection that works on the session, but for
\* those forgotten in ResolveLast, although RTSPSession.cpp:1116 says of the end of
\* Run: "Make absolutely sure there are no resources being occupied".
RefsMatchUsers ==
    \A p \in RTPSessions : fRefCount[p] = Cardinality(Users(p)) + forgotten[p]

Holds(p, c) == fRTSPSession[p] = c /\ Handling(p) = {}

\* fObjectHolders counts the RTP sessions that point at the connection, unless
\* the Teardown without the mutex ran beside another one of the same session.
HoldersCounted ==
    ~raced => \A c \in RTSPSessions :
        fObjectHolders[c] = Cardinality({p \in RTPSessions : Holds(p, c)})

\* RTSPSessionInterface.h:64: "If # of object holders is > 0, the RTSPSession
\* will NEVER go away": no RTP session points at a deleted connection.
HeldIsNotDeleted ==
    ~raced => \A p \in RTPSessions, c \in RTSPSessions :
        Holds(p, c) => fState[c] # "deleted"

\* A session that was told to go is deleted, however often a request had kept
\* it, provided there are moments when nobody holds it.
KilledIsDeleted ==
    \A p \in RTPSessions :
        []<>(fRefCount[p] = 0) => (sessionKilled[p] ~> life[p] = "deleted")

\* Somebody goes on resetting the timer of a session that points at the connection.
KeptByARefresher(c) == \E p \in RTPSessions : []<>(fRTSPSession[p] = c /\ refreshed[p])

\* A dead connection is deleted in the end: the RTP sessions that hold it time out,
\* unless somebody goes on refreshing one of them, which the client's RTCP packets
\* (RTPStream.cpp:1561-1564) can do for ever.  The other exceptions are the two flaws
\* above.
DeadIsDeleted ==
    \A c \in RTSPSessions :
        ~KeptByARefresher(c) =>
            (fState[c] = "dead" ~>
                \/ fState[c] = "deleted"
                \/ raced
                \/ \E p \in RTPSessions : forgotten[p] > 0)
=============================================================================
