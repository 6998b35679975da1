--------------------------- MODULE EasyHLSSessions ---------------------------
(***************************************************************************)
(* The HLS sessions of one stream name: the requests that open, close and  *)
(* ask for them (APIModules/EasyHLSModule/EasyHLSModule.cpp) against the   *)
(* task thread that runs and deletes them (EasyHLSSession.cpp).            *)
(*                                                                         *)
(* The requests hold the mutex of the session map (an OSRefTable) from the *)
(* Resolve to the Release.  Run holds it too, but the destructor does not: *)
(* it closes the handles, frees the name and looks at the reference count  *)
(* before it asks for the mutex in UnRegister.                             *)
(***************************************************************************)
EXTENDS Integers, FiniteSets

CONSTANTS
    Sessions,    \* session objects that may be made
    Requests,    \* requests that may be under way at once
    Timeouts,    \* sessions whose timer may expire
    None

ASSUME ConstantsAssumption ==
    /\ Timeouts \subseteq Sessions
    /\ None \notin Sessions \cup Requests

VARIABLES
    mapMutex,    \* the request that holds the mutex of the map, or None
    hlsMap,      \* the sessions in the map
    fRefCount,   \* the reference count of each session
    keyFreed,    \* sessions whose name was given back
    life,        \* where each session is, from its creation to its deletion
    fEvents,     \* the events each session was signalled
    theEvents,   \* the events its Run has taken
    handles,     \* its RTSP client and its HLS writer exist
    request,     \* where each request is
    session      \* the session a request has resolved, or None

vars == <<mapMutex, hlsMap, fRefCount, keyFreed, life, fEvents, theEvents,
          handles, request, session>>

Init ==
    /\ mapMutex = None
    /\ hlsMap = {}
    /\ fRefCount = [s \in Sessions |-> 0]
    /\ keyFreed = {}
    /\ life = [s \in Sessions |-> "unborn"]
    /\ fEvents = [s \in Sessions |-> {}]
    /\ theEvents = [s \in Sessions |-> {}]
    /\ handles = [s \in Sessions |-> FALSE]
    /\ request = [q \in Requests |-> "none"]
    /\ session = [q \in Requests |-> None]

-----------------------------------------------------------------------------
(* The requests. *)

\* What Resolve finds by the name.  A session whose name was freed compares as
\* whatever lies in that memory now: it may be found or not.
MayFind(s) == s \in hlsMap
MayFindNothing == hlsMap \subseteq keyFreed

Lock(q) == mapMutex = None /\ request[q] = "none" /\ mapMutex' = q

Resolved(q, s, next) ==
    /\ fRefCount' = [fRefCount EXCEPT ![s] = @ + 1]
    /\ session' = [session EXCEPT ![q] = s]
    /\ request' = [request EXCEPT ![q] = next]

OpenFound(q, s) ==
    /\ Lock(q)
    /\ MayFind(s)
    /\ Resolved(q, s, "open")
    /\ UNCHANGED <<hlsMap, keyFreed, life, fEvents, theEvents, handles>>

\* The constructor signals kStartEvent.
OpenNew(q, s) ==
    /\ Lock(q)
    /\ MayFindNothing
    /\ life[s] = "unborn"
    /\ life' = [life EXCEPT ![s] = "idle"]
    /\ fEvents' = [fEvents EXCEPT ![s] = {"start"}]
    /\ hlsMap' = hlsMap \cup {s}
    /\ Resolved(q, s, "open")
    /\ UNCHANGED <<keyFreed, theEvents, handles>>

\* The request is over: Release, and the destructor of the mutex locker.
Done(q) ==
    /\ fRefCount' = [fRefCount EXCEPT ![session[q]] = @ - 1]
    /\ request' = [request EXCEPT ![q] = "none"]
    /\ session' = [session EXCEPT ![q] = None]
    /\ mapMutex' = None

\* Mutant of OpenEnd: the reference is kept.
OpenEndWithoutRelease(q) ==
    /\ request[q] = "open"
    /\ request' = [request EXCEPT ![q] = "none"]
    /\ session' = [session EXCEPT ![q] = None]
    /\ mapMutex' = None
    /\ UNCHANGED <<fRefCount, hlsMap, keyFreed, life, fEvents, theEvents, handles>>

\* HLSSessionStart makes the handles that are missing; the error it returns if it
\* cannot is not looked at.
OpenEnd(q) ==
    /\ request[q] = "open"
    /\ \E started \in BOOLEAN :
           handles' = [handles EXCEPT ![session[q]] = @ \/ started]
    /\ Done(q)
    /\ UNCHANGED <<hlsMap, keyFreed, life, fEvents, theEvents>>

CloseBegin(q, s) ==
    /\ Lock(q)
    /\ MayFind(s)
    /\ Resolved(q, s, "close")
    /\ UNCHANGED <<hlsMap, keyFreed, life, fEvents, theEvents, handles>>

\* HLSSessionRelease: if there are handles, close them, then forget them.
CloseHandles(q) ==
    /\ request[q] = "close"
    /\ request' = [request EXCEPT ![q] = IF handles[session[q]] THEN "closing" ELSE "closed"]
    /\ UNCHANGED <<mapMutex, hlsMap, fRefCount, keyFreed, life, fEvents, theEvents>>
    /\ UNCHANGED <<handles, session>>

CloseForgetHandles(q) ==
    /\ request[q] = "closing"
    /\ handles' = [handles EXCEPT ![session[q]] = FALSE]
    /\ request' = [request EXCEPT ![q] = "closed"]
    /\ UNCHANGED <<mapMutex, hlsMap, fRefCount, keyFreed, life, fEvents, theEvents, session>>

\* Mutant of UnRegister: the session stays in the map until it is deleted.
LeaveInMap(s) == UNCHANGED hlsMap

\* No user but this request is left: nobody else holds the mutex.
UnRegister(s) == hlsMap' = hlsMap \ {s}

CloseEnd(q) ==
    /\ request[q] = "closed"
    /\ IF fRefCount[session[q]] = 1
       THEN /\ UnRegister(session[q])
            /\ fEvents' = [fEvents EXCEPT ![session[q]] = @ \cup {"kill"}]
       ELSE UNCHANGED <<hlsMap, fEvents>>
    /\ Done(q)
    /\ UNCHANGED <<keyFreed, life, theEvents, handles>>

GetHLSUrlBegin(q, s) ==
    /\ Lock(q)
    /\ MayFind(s)
    /\ Resolved(q, s, "url")
    /\ UNCHANGED <<hlsMap, keyFreed, life, fEvents, theEvents, handles>>

GetHLSUrlEnd(q) ==
    /\ request[q] = "url"
    /\ Done(q)
    /\ UNCHANGED <<hlsMap, keyFreed, life, fEvents, theEvents, handles>>

-----------------------------------------------------------------------------
(* The session's task and its timer. *)

\* The timer is armed by the constructor and by every HLSSessionStart.
TimerExpires(s) ==
    /\ s \in Timeouts
    /\ life[s] \notin {"unborn", "deleted"}
    /\ fEvents' = [fEvents EXCEPT ![s] = @ \cup {"timeout"}]
    /\ UNCHANGED <<mapMutex, hlsMap, fRefCount, keyFreed, life, theEvents, handles>>
    /\ UNCHANGED <<request, session>>

MoveTo(s, next) ==
    /\ life' = [life EXCEPT ![s] = next]
    /\ UNCHANGED <<mapMutex, fRefCount, fEvents, request, session>>

\* Run takes its events first and the mutex of the map after.
RunGetEvents(s) ==
    /\ life[s] = "idle"
    /\ theEvents' = [theEvents EXCEPT ![s] = fEvents[s]]
    /\ fEvents' = [fEvents EXCEPT ![s] = {}]
    /\ life' = [life EXCEPT ![s] = "run"]
    /\ UNCHANGED <<mapMutex, hlsMap, fRefCount, keyFreed, handles, request, session>>

\* Mutant of MustGo: Run does not look for the timeout.
MustGoOnKill(events) == "kill" \in events

MustGo(events) == events \cap {"kill", "timeout"} # {}

RunLocked(s) ==
    /\ life[s] = "run"
    /\ mapMutex = None
    /\ MoveTo(s, IF MustGo(theEvents[s]) THEN "returned" ELSE "idle")
    /\ theEvents' = [theEvents EXCEPT ![s] = {}]
    /\ UNCHANGED <<hlsMap, keyFreed, handles>>

\* The task thread deletes the session.  HLSSessionRelease again:
DestroyHandles(s) ==
    /\ life[s] = "returned"
    /\ MoveTo(s, IF handles[s] THEN "closing" ELSE "closed")
    /\ UNCHANGED <<hlsMap, keyFreed, theEvents, handles>>

DestroyForgetHandles(s) ==
    /\ life[s] = "closing"
    /\ handles' = [handles EXCEPT ![s] = FALSE]
    /\ MoveTo(s, "closed")
    /\ UNCHANGED <<hlsMap, keyFreed, theEvents>>

\* fHLSSessionID.Delete() frees the string that the ref is still keyed by.
DestroyKey(s) ==
    /\ life[s] = "closed"
    /\ keyFreed' = keyFreed \cup {s}
    /\ MoveTo(s, "key freed")
    /\ UNCHANGED <<hlsMap, theEvents, handles>>

\* GetRefCount is read without the mutex; a session in use is not unregistered.
DestroyLookAtCount(s) ==
    /\ life[s] = "key freed"
    /\ MoveTo(s, IF fRefCount[s] = 0 THEN "unregister" ELSE "deleted")
    /\ UNCHANGED <<hlsMap, keyFreed, theEvents, handles>>

DestroyUnRegister(s) ==
    /\ life[s] = "unregister"
    /\ mapMutex = None
    /\ fRefCount[s] = 0
    /\ hlsMap' = hlsMap \ {s}
    /\ MoveTo(s, "deleted")
    /\ UNCHANGED <<keyFreed, theEvents, handles>>

RequestStep(q) ==
    \/ OpenEnd(q)
    \/ CloseHandles(q) \/ CloseForgetHandles(q) \/ CloseEnd(q)
    \/ GetHLSUrlEnd(q)

TaskStep(s) ==
    \/ RunGetEvents(s) \/ RunLocked(s)
    \/ DestroyHandles(s) \/ DestroyForgetHandles(s) \/ DestroyKey(s)
    \/ DestroyLookAtCount(s) \/ DestroyUnRegister(s)

Next ==
    \/ \E q \in Requests :
          \/ \E s \in Sessions :
                \/ OpenFound(q, s) \/ OpenNew(q, s)
                \/ CloseBegin(q, s) \/ GetHLSUrlBegin(q, s)
          \/ RequestStep(q)
    \/ \E s \in Sessions : TimerExpires(s) \/ TaskStep(s)

Spec == Init /\ [][Next]_vars

\* Requests and task threads run; a task thread that wants the mutex of the map
\* gets it although requests come and go.
Fairness ==
    /\ \A q \in Requests : WF_vars(RequestStep(q))
    /\ \A s \in Sessions : SF_vars(TaskStep(s))

FairSpec == Spec /\ Fairness

-----------------------------------------------------------------------------
Lives == {"unborn", "idle", "run", "returned", "closing", "closed", "key freed",
          "unregister", "deleted"}

TypeOK ==
    /\ mapMutex \in Requests \cup {None}
    /\ hlsMap \subseteq Sessions
    /\ fRefCount \in [Sessions -> 0..1]
    /\ keyFreed \subseteq Sessions
    /\ life \in [Sessions -> Lives]
    /\ fEvents \in [Sessions -> SUBSET {"start", "kill", "timeout"}]
    /\ theEvents \in [Sessions -> SUBSET {"start", "kill", "timeout"}]
    /\ handles \in [Sessions -> BOOLEAN]
    /\ request \in [Requests -> {"none", "open", "close", "closing", "closed", "url"}]
    /\ session \in [Requests -> Sessions \cup {None}]

Dying(s) == life[s] \notin {"unborn", "idle", "run"}

\* A session that ends by EasyHLSClose alone keeps the promises below, whatever
\* the timers do to other sessions of the same name.  One whose timer expires may
\* be deleted while a request has it resolved.
Closed == Sessions \ Timeouts

\* A request never gets a session whose Run has said -1 already: it would answer
\* that the stream plays, or take the session's handles from its destructor.
FoundIsNotDying ==
    \A q \in Requests : session[q] \in Closed => ~ Dying(session[q])

\* The handles are closed once: never by EasyHLSClose and the destructor at a
\* time, nor left open by a session that is gone.
HandlesClosedOnce ==
    /\ \A q \in Requests :
           request[q] = "closing" /\ session[q] \in Closed => life[session[q]] # "closing"
    /\ \A s \in Closed : life[s] = "deleted" => ~ handles[s]

\* A session that was closed, or whose time was up, is deleted in the end, with
\* its handles, whatever requests for it come and go.
EndedIsDeleted ==
    \A s \in Sessions :
        fEvents[s] \cap {"kill", "timeout"} # {} ~> life[s] = "deleted"
=============================================================================
