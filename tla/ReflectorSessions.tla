-------------------------- MODULE ReflectorSessions --------------------------
(***************************************************************************)
(* The reflector sessions of one path: a broadcaster pushes a stream to    *)
(* the server, players watch it                                            *)
(* (APIModules/QTSSReflectorModule/QTSSReflectorModule.cpp).               *)
(*                                                                         *)
(* A reflector session is made by the first client session that asks for   *)
(* the path, registered in sSessionMap, an OSRefTable, and kept alive by   *)
(* references: one for every player, one for every stream of its           *)
(* broadcaster.  A player takes its reference in SETUP.  The broadcaster   *)
(* takes none in the SETUP that makes the session, one in every other and  *)
(* one in PLAY, and returns as many as the session has streams when it     *)
(* ends.  Who drops the count to zero deletes the session.                 *)
(*                                                                         *)
(* Clients send their requests, and lose their connections, in any order,  *)
(* so a broadcaster may end that has taken less than it gives back.  Then  *)
(* it gives back what others hold: the history variable overdrawn marks    *)
(* the session.  What is done to a session that was deleted is not         *)
(* followed, and its memory is not used again while somebody points at it. *)
(*                                                                         *)
(* Every operation holds the mutex of the map from beginning to end        *)
(* (ProcessRTSPRequest, DestroySession), so each is one action.            *)
(***************************************************************************)
EXTENDS Integers, FiniteSets

CONSTANTS
    Sessions,      \* the ReflectorSession objects there may be
    Broadcasters,  \* client sessions that push a stream
    Players,       \* client sessions that watch it
    Streams,       \* the streams of its SDP file
    MaxRefs,       \* bound: no Resolve when the count has reached it
    None,          \* no session: the attribute was never set, or is NULL
    Cleared        \* sOutputAttr was set to NULL by a DESCRIBE

ASSUME ConstantsAssumption ==
    /\ IsFiniteSet(Players) /\ IsFiniteSet(Broadcasters)
    /\ IsFiniteSet(Streams) /\ Streams # {} /\ "PLAY" \notin Streams
    /\ MaxRefs \in Nat
    /\ {None, Cleared} \cap Sessions = {}

VARIABLES
    sSessionMap,                  \* the session registered for the path, or None
    fRefCount,                    \* the references each session counts
    fSetupToReceive,              \* the streams a broadcaster has set up
    sClientBroadcastSessionAttr,  \* the session of each broadcaster, or None
    sOutputAttr,                  \* the session of each player's output
    held,                         \* history: <<b, x>> for every reference that
                                  \* broadcaster b has taken in its session, by the
                                  \* SETUP of stream x or by its "PLAY"
    overdrawn                     \* history: the sessions in which somebody gave back
                                  \* references that others held

attrs == <<sClientBroadcastSessionAttr, sOutputAttr>>
vars == <<sSessionMap, fRefCount, fSetupToReceive, attrs, held, overdrawn>>

Init ==
    /\ sSessionMap = None
    /\ fRefCount = [s \in Sessions |-> 0]
    /\ fSetupToReceive = [s \in Sessions |-> {}]
    /\ sClientBroadcastSessionAttr = [b \in Broadcasters |-> None]
    /\ sOutputAttr = [p \in Players |-> None]
    /\ held = {}
    /\ overdrawn = {}

NumStreams == Cardinality(Streams)

\* The players that have an output in the session, and its broadcasters.
OutputsOf(s) == {p \in Players : sOutputAttr[p] = s}
BroadcastersOf(s) == {b \in Broadcasters : sClientBroadcastSessionAttr[b] = s}

-----------------------------------------------------------------------------
(* The references that broadcasters hold, for the record.                  *)

HeldBy(b) == {h \in held : h[1] = b}
HeldIn(s) == {h \in held : sClientBroadcastSessionAttr[h[1]] = s}

\* Broadcaster b goes to session s, or away, and takes these references there; it
\* keeps the ones it has if it stays.
Holds(b, s, taken) ==
    held' = (IF sClientBroadcastSessionAttr[b] = s THEN held ELSE held \ HeldBy(b))
                \cup {<<b, x>> : x \in taken}

\* Somebody who has taken so many references gives so many back in session s, where
\* there are other clients.
GivesBack(s, released, taken, others) ==
    overdrawn' = IF released > taken /\ others # {} THEN overdrawn \cup {s} ELSE overdrawn

-----------------------------------------------------------------------------
(* The session map.  A session is registered as long as it exists: it      *)
(* exists when sSessionMap names it.                                       *)

\* sSessionMap->Resolve finds the session and counts one more reference.
Resolve(s) ==
    /\ s # None
    /\ fRefCount[s] < MaxRefs
    /\ fRefCount' = [fRefCount EXCEPT ![s] = @ + 1]
    /\ UNCHANGED <<sSessionMap, fSetupToReceive, overdrawn>>

\* Mutant of Create: the one who makes the session never has a reference.
CreateWithout(s, references) ==
    /\ sSessionMap = None
    /\ OutputsOf(s) = {} /\ BroadcastersOf(s) = {}
    /\ sSessionMap' = s
    /\ fRefCount' = [fRefCount EXCEPT ![s] = 0]
    /\ fSetupToReceive' = [fSetupToReceive EXCEPT ![s] = {}]
    /\ overdrawn' = overdrawn \ {s}

\* FindOrCreateSession makes a new session with so many references.
Create(s, references) ==
    /\ sSessionMap = None
    /\ OutputsOf(s) = {} /\ BroadcastersOf(s) = {}
    /\ sSessionMap' = s
    /\ fRefCount' = [fRefCount EXCEPT ![s] = references]
    /\ fSetupToReceive' = [fSetupToReceive EXCEPT ![s] = {}]
    /\ overdrawn' = overdrawn \ {s}

\* Mutant of LeftOf: a broadcaster releases the reference of its first SETUP too.
OneMoreReleased(count, released) ==
    IF released > 1 /\ count > released THEN count - released - 1
    ELSE IF count > released THEN count - released ELSE 0

\* Release while the count is above zero.
LeftOf(count, released) == IF count > released THEN count - released ELSE 0

\* RemoveOutput: the references are given back, and with the last one the
\* session is taken out of the map and deleted.
RemoveReferences(s, count, released) ==
    /\ fRefCount' = [fRefCount EXCEPT ![s] = LeftOf(count, released)]
    /\ sSessionMap' = IF LeftOf(count, released) = 0 THEN None ELSE sSessionMap

-----------------------------------------------------------------------------
(* Players. *)

\* DESCRIBE of a session that is found releases its reference when the response is
\* sent.  When the SDP, the file or the broadcast is refused on the way, it does
\* not.
Describe(p) ==
    /\ sOutputAttr[p] = None
    /\ \/ \E s \in Sessions, kept \in {0, 1} : Create(s, kept)
       \/ Resolve(sSessionMap)
       \/ sSessionMap # None /\ UNCHANGED <<sSessionMap, fRefCount, fSetupToReceive, overdrawn>>
    /\ UNCHANGED <<attrs, held>>

\* DESCRIBE by a player that has an output removes it, and then releases its own
\* reference or not, as above.  The release never deletes.
DescribeAgain(p) ==
    /\ sOutputAttr[p] \in Sessions
    /\ sSessionMap = sOutputAttr[p]
    /\ fRefCount[sSessionMap] > 0
    /\ \E released \in {0, 1} :
           fRefCount' = [fRefCount EXCEPT ![sSessionMap] = @ - released]
    /\ sOutputAttr' = [sOutputAttr EXCEPT ![p] = Cleared]
    /\ UNCHANGED <<sSessionMap, fSetupToReceive, sClientBroadcastSessionAttr, held, overdrawn>>

\* The first SETUP of a player makes its output.  FindOrCreateSession may refuse
\* it after the Resolve.  Later SETUPs find the output.
Setup(p) ==
    /\ sOutputAttr[p] = None
    /\ \/ \E s \in Sessions :
              /\ Create(s, 1)
              /\ sOutputAttr' = [sOutputAttr EXCEPT ![p] = s]
       \/ /\ Resolve(sSessionMap)
          /\ \/ sOutputAttr' = [sOutputAttr EXCEPT ![p] = sSessionMap]
             \/ UNCHANGED sOutputAttr
    /\ UNCHANGED <<sClientBroadcastSessionAttr, held>>

\* DestroySession of a player.  One without an output leaves the map alone.
DestroyPlayer(p) ==
    /\ sOutputAttr[p] # None
    /\ IF sOutputAttr[p] = Cleared
       THEN UNCHANGED <<sSessionMap, fRefCount>>
       ELSE /\ sSessionMap = sOutputAttr[p]
            /\ RemoveReferences(sSessionMap, fRefCount[sSessionMap], 1)
    /\ sOutputAttr' = [sOutputAttr EXCEPT ![p] = None]
    /\ UNCHANGED <<fSetupToReceive, sClientBroadcastSessionAttr, held, overdrawn>>

-----------------------------------------------------------------------------
(* Broadcasters. *)

Goes(b, s) ==
    sClientBroadcastSessionAttr' = [sClientBroadcastSessionAttr EXCEPT ![b] = s]

\* The SETUP of a stream that makes the session, without a reference.
PushSetupCreates(b, stream) ==
    /\ \E s \in Sessions :
           /\ sSessionMap = None
           /\ OutputsOf(s) = {} /\ BroadcastersOf(s) = {}
           /\ sSessionMap' = s
           /\ fRefCount' = [fRefCount EXCEPT ![s] = 0]
           /\ fSetupToReceive' = [fSetupToReceive EXCEPT ![s] = {stream}]
           /\ Goes(b, s) /\ Holds(b, s, {})
           /\ overdrawn' = overdrawn \ {s}
    /\ UNCHANGED sOutputAttr

\* The SETUP of a stream is refused.  A session that was found keeps the reference of
\* the Resolve: FindOrCreateSession refuses it, or the stream is unknown or was set up
\* already, when the broadcaster loses its session too.  One that was made for the
\* SETUP is deleted at once (DeleteReflectorPushSession).
PushSetupRefused(b) ==
    /\ \/ Resolve(sSessionMap)
       \/ sSessionMap = None /\ UNCHANGED <<sSessionMap, fRefCount, fSetupToReceive, overdrawn>>
    /\ \/ sSessionMap # None /\ UNCHANGED <<sClientBroadcastSessionAttr, held>>
       \/ Goes(b, None) /\ held' = held \ HeldBy(b)
    /\ UNCHANGED sOutputAttr

MaySetUp(s, stream) == stream \notin fSetupToReceive[s]

PushSetupFinds(b, stream) ==
    /\ sSessionMap # None
    /\ MaySetUp(sSessionMap, stream)
    /\ fRefCount[sSessionMap] < MaxRefs
    /\ fRefCount' = [fRefCount EXCEPT ![sSessionMap] = @ + 1]
    /\ fSetupToReceive' = [fSetupToReceive EXCEPT ![sSessionMap] = @ \cup {stream}]
    /\ Goes(b, sSessionMap) /\ Holds(b, sSessionMap, {stream})
    /\ UNCHANGED <<sSessionMap, sOutputAttr, overdrawn>>

\* "do all above so we can add the session to the map with Resolve here. / we
\* must only do this once."  A session that is not the broadcaster's own is
\* resolved too, and the PLAY is refused.
PushPlay(b) ==
    /\ sClientBroadcastSessionAttr[b] # None
    /\ Resolve(sSessionMap)
    /\ IF sSessionMap = sClientBroadcastSessionAttr[b]
       THEN Holds(b, sSessionMap, {"PLAY"})
       ELSE UNCHANGED held
    /\ UNCHANGED attrs

\* DestroySession of a broadcaster releases one reference for every stream of
\* the session, whatever it has taken.
DestroyBroadcaster(b) ==
    /\ sClientBroadcastSessionAttr[b] # None
    /\ sSessionMap = sClientBroadcastSessionAttr[b]
    /\ fSetupToReceive' = [fSetupToReceive EXCEPT ![sSessionMap] = {}]
    /\ RemoveReferences(sSessionMap, fRefCount[sSessionMap], NumStreams)
    /\ GivesBack(sSessionMap, NumStreams, Cardinality(HeldBy(b)),
                 OutputsOf(sSessionMap) \cup (BroadcastersOf(sSessionMap) \ {b}))
    /\ Goes(b, None) /\ held' = held \ HeldBy(b)
    /\ UNCHANGED sOutputAttr

\* KillSession resolves the session and lets go of it as its broadcaster would,
\* who is told to end and does so again.
KillSession ==
    /\ sSessionMap # None
    /\ RemoveReferences(sSessionMap, fRefCount[sSessionMap] + 1, NumStreams)
    /\ GivesBack(sSessionMap, NumStreams, 1,
                 OutputsOf(sSessionMap) \cup BroadcastersOf(sSessionMap))
    /\ UNCHANGED <<fSetupToReceive, attrs, held>>

-----------------------------------------------------------------------------
PlayerStep(p) == Describe(p) \/ DescribeAgain(p) \/ Setup(p) \/ DestroyPlayer(p)

BroadcasterStep(b) ==
    \/ \E stream \in Streams : PushSetupCreates(b, stream) \/ PushSetupFinds(b, stream)
    \/ PushSetupRefused(b) \/ PushPlay(b) \/ DestroyBroadcaster(b)

Next ==
    \/ \E p \in Players : PlayerStep(p)
    \/ \E b \in Broadcasters : BroadcasterStep(b)
    \/ KillSession

Spec == Init /\ [][Next]_vars

-----------------------------------------------------------------------------
TypeOK ==
    /\ sSessionMap \in Sessions \cup {None}
    /\ fRefCount \in [Sessions -> Nat]
    /\ fSetupToReceive \in [Sessions -> SUBSET Streams]
    /\ sClientBroadcastSessionAttr \in [Broadcasters -> Sessions \cup {None}]
    /\ sOutputAttr \in [Players -> Sessions \cup {None, Cleared}]
    /\ held \subseteq Broadcasters \X (Streams \cup {"PLAY"})
    /\ overdrawn \subseteq Sessions

(* A session is not deleted while a player has an output in it or a        *)
(* broadcaster holds a reference to it, for DestroySession follows their   *)
(* pointers; unless somebody gave back more than it had taken.             *)
SessionOutlivesUsers ==
    \A s \in Sessions \ overdrawn : OutputsOf(s) \cup HeldIn(s) # {} => sSessionMap = s

(* With the same exception the count covers one reference for every player *)
(* and all that the broadcasters have taken, so that whoever ends first    *)
(* does not take the references of the others, and the error returns that  *)
(* keep one take nothing away.                                             *)
ReferencesCoverUsers ==
    \A s \in Sessions \ overdrawn : s = sSessionMap =>
        fRefCount[s] >= Cardinality(OutputsOf(s)) + Cardinality(HeldIn(s))

(* QTSSReflectorModule.cpp:2081, where a broadcaster that ends releases a  *)
(* reference per stream: "Assert(theSessionRef->GetRefCount() > 0) //this  *)
(* shouldn't happen."  A broadcaster may end at any moment.                *)
EveryReleaseFindsAReference ==
    \A b \in Broadcasters :
        sClientBroadcastSessionAttr[b] # None /\ sSessionMap = sClientBroadcastSessionAttr[b]
            => fRefCount[sSessionMap] >= NumStreams
=============================================================================
