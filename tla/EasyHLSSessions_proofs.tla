----------------------- MODULE EasyHLSSessions_proofs -----------------------
(***************************************************************************)
(* Theorems about EasyHLSSessions for any sessions and requests.  A        *)
(* session that only EasyHLSClose ends leaves the map in the same hold of  *)
(* the mutex in which it is told to end, so whatever its destructor does   *)
(* without the mutex, no request is left that could have it.               *)
(***************************************************************************)
EXTENDS EasyHLSSessions, TLAPS

Stages == {"none", "open", "close", "closing", "closed", "url"}
AllEvents == {"start", "kill", "timeout"}

\* The request under way holds the mutex and the only reference there is.
Locked ==
    /\ \A q \in Requests :
          /\ request[q] # "none" <=> mapMutex = q
          /\ request[q] # "none" <=> session[q] # None
    /\ \A s \in Sessions :
          fRefCount[s] = IF \E q \in Requests : session[q] = s THEN 1 ELSE 0

\* A session that was told to end is out of reach, if its timer does not end it.
Ended(s) == Dying(s) \/ "kill" \in fEvents[s] \cup theEvents[s]

OutOfReach(s) == s \notin hlsMap /\ \A q \in Requests : session[q] # s

Reach ==
    /\ \A s \in Sessions : life[s] = "unborn" => OutOfReach(s) /\ ~ Ended(s)
    /\ \A s \in Closed : Ended(s) => OutOfReach(s)
    /\ \A s \in Closed : "timeout" \notin fEvents[s] \cup theEvents[s]
    /\ \A s \in Closed : life[s] \in {"closed", "key freed", "unregister", "deleted"}
                             => ~ handles[s]

Inv == TypeOK /\ Locked /\ Reach

LEMMA InvInit == Init => Inv
<1> SUFFICES ASSUME Init PROVE Inv
    OBVIOUS
<1> USE ConstantsAssumption DEF Init
<1>1. TypeOK
    BY DEF TypeOK, Lives
<1>2. Locked
    BY DEF Locked
<1>3. Reach
    BY DEF Reach, Ended, Dying, OutOfReach, Closed
<1> QED BY <1>1, <1>2, <1>3 DEF Inv

-----------------------------------------------------------------------------
(* A request takes the mutex and a session, works, and gives both back.       *)

\* What Lock and Resolved do, whichever session they find.
LEMMA BeginStep ==
    ASSUME Inv, NEW q \in Requests, NEW s \in Sessions, NEW next \in Stages \ {"none"},
           Lock(q), Resolved(q, s, next)
    PROVE  /\ Locked'
           /\ mapMutex' \in Requests \cup {None}
           /\ fRefCount' \in [Sessions -> 0..1]
           /\ request' \in [Requests -> Stages]
           /\ session' \in [Requests -> Sessions \cup {None}]
           /\ \A x \in Requests : session'[x] = IF x = q THEN s ELSE None
<1> USE ConstantsAssumption DEF Stages
<1>1. /\ mapMutex = None /\ mapMutex' = q
      /\ request \in [Requests -> Stages]
      /\ session \in [Requests -> Sessions \cup {None}]
      /\ fRefCount \in [Sessions -> 0..1]
      /\ fRefCount' = [fRefCount EXCEPT ![s] = @ + 1]
      /\ session' = [session EXCEPT ![q] = s]
      /\ request' = [request EXCEPT ![q] = next]
    BY DEF Inv, TypeOK, Lock, Resolved
<1>2. \A x \in Requests : request[x] = "none" /\ session[x] = None
    BY <1>1 DEF Inv, Locked
<1>3. \A x \in Sessions : fRefCount[x] = 0
    BY <1>2 DEF Inv, Locked
<1>4. \A x \in Sessions : fRefCount'[x] = IF x = s THEN 1 ELSE 0
    BY <1>1, <1>3
<1>5. /\ \A x \in Requests : session'[x] = IF x = q THEN s ELSE None
      /\ \A x \in Requests : request'[x] = IF x = q THEN next ELSE "none"
    BY <1>1, <1>2
<1>6. fRefCount' \in [Sessions -> 0..1]
    BY <1>1, <1>3
<1> QED BY <1>1, <1>4, <1>5, <1>6 DEF Locked

LEMMA DoneStep ==
    ASSUME Inv, NEW q \in Requests, request[q] # "none", Done(q)
    PROVE  /\ Locked'
           /\ mapMutex' \in Requests \cup {None}
           /\ fRefCount' \in [Sessions -> 0..1]
           /\ request' \in [Requests -> Stages]
           /\ session' \in [Requests -> Sessions \cup {None}]
           /\ session[q] \in Sessions
           /\ \A x \in Requests : session'[x] = None
           /\ \A x \in Requests \ {q} : session[x] = None
<1> USE ConstantsAssumption DEF Stages
<1>1. /\ mapMutex = q /\ mapMutex' = None
      /\ request \in [Requests -> Stages]
      /\ session \in [Requests -> Sessions \cup {None}]
      /\ session[q] \in Sessions
      /\ fRefCount \in [Sessions -> 0..1]
      /\ fRefCount' = [fRefCount EXCEPT ![session[q]] = @ - 1]
      /\ session' = [session EXCEPT ![q] = None]
      /\ request' = [request EXCEPT ![q] = "none"]
    BY DEF Inv, TypeOK, Locked, Done
<1>2. \A x \in Requests \ {q} : request[x] = "none" /\ session[x] = None
    BY <1>1 DEF Inv, Locked
<1>3. \A x \in Sessions : fRefCount[x] = IF x = session[q] THEN 1 ELSE 0
    BY <1>1, <1>2 DEF Inv, Locked
<1>4. \A x \in Sessions : fRefCount'[x] = 0
    BY <1>1, <1>3
<1>5. \A x \in Requests : session'[x] = None /\ request'[x] = "none"
    BY <1>1, <1>2
<1>6. fRefCount' \in [Sessions -> 0..1]
    BY <1>1, <1>4
<1> QED BY <1>1, <1>2, <1>4, <1>5, <1>6 DEF Locked

LEMMA FoundStep ==
    ASSUME Inv, NEW q \in Requests, NEW s \in Sessions,
           OpenFound(q, s) \/ CloseBegin(q, s) \/ GetHLSUrlBegin(q, s)
    PROVE  Inv'
<1>1. PICK next \in Stages \ {"none"} : Resolved(q, s, next)
    BY DEF OpenFound, CloseBegin, GetHLSUrlBegin, Stages
<1>2. /\ Lock(q) /\ s \in hlsMap
      /\ UNCHANGED <<hlsMap, keyFreed, life, fEvents, theEvents, handles>>
    BY DEF OpenFound, CloseBegin, GetHLSUrlBegin, MayFind
<1>3. /\ Locked'
      /\ mapMutex' \in Requests \cup {None}
      /\ fRefCount' \in [Sessions -> 0..1]
      /\ request' \in [Requests -> Stages]
      /\ session' \in [Requests -> Sessions \cup {None}]
      /\ \A x \in Requests : session'[x] = IF x = q THEN s ELSE None
    BY <1>1, <1>2, BeginStep
<1>4. TypeOK'
    BY <1>2, <1>3 DEF Inv, TypeOK, Stages
<1>5. \A x \in Sessions : OutOfReach(x) => OutOfReach(x)'
    BY <1>2, <1>3, ConstantsAssumption DEF OutOfReach
<1>6. Reach'
    BY <1>2, <1>5 DEF Inv, Reach, Ended, Dying, Closed
<1> QED BY <1>3, <1>4, <1>6 DEF Inv

LEMMA NewStep ==
    ASSUME Inv, NEW q \in Requests, NEW s \in Sessions, OpenNew(q, s)
    PROVE  Inv'
<1>2. /\ Lock(q) /\ Resolved(q, s, "open")
      /\ life[s] = "unborn"
      /\ life' = [life EXCEPT ![s] = "idle"]
      /\ fEvents' = [fEvents EXCEPT ![s] = {"start"}]
      /\ hlsMap' = hlsMap \cup {s}
      /\ UNCHANGED <<keyFreed, theEvents, handles>>
    BY DEF OpenNew
<1>3. /\ Locked'
      /\ mapMutex' \in Requests \cup {None}
      /\ fRefCount' \in [Sessions -> 0..1]
      /\ request' \in [Requests -> Stages]
      /\ session' \in [Requests -> Sessions \cup {None}]
      /\ \A x \in Requests : session'[x] = IF x = q THEN s ELSE None
    BY <1>2, BeginStep DEF Stages
<1>t. /\ life \in [Sessions -> Lives] /\ fEvents \in [Sessions -> SUBSET AllEvents]
      /\ hlsMap \subseteq Sessions
    BY DEF Inv, TypeOK, AllEvents
<1>4. TypeOK'
    BY <1>2, <1>3, <1>t DEF Inv, TypeOK, Stages, Lives, AllEvents
<1>5. ASSUME NEW x \in Sessions \ {s}
      PROVE  /\ OutOfReach(x) => OutOfReach(x)'
             /\ Ended(x)' => Ended(x)
             /\ life'[x] = life[x] /\ fEvents'[x] = fEvents[x]
    BY <1>2, <1>3, <1>t, ConstantsAssumption DEF OutOfReach, Ended, Dying
<1>6. /\ life'[s] = "idle" /\ fEvents'[s] = {"start"} /\ ~ Ended(s)'
    <2>1. ~ Ended(s)
        BY <1>2 DEF Inv, Reach
    <2> QED BY <1>2, <1>t, <2>1 DEF Ended, Dying
<1>7. Reach'
    <2>1. \A x \in Sessions : life'[x] = "unborn" => OutOfReach(x)' /\ ~ Ended(x)'
        BY <1>5, <1>6 DEF Inv, Reach
    <2>2. \A x \in Closed : Ended(x)' => OutOfReach(x)'
        BY <1>5, <1>6 DEF Inv, Reach, Closed
    <2>3. \A x \in Closed : "timeout" \notin fEvents'[x] \cup theEvents'[x]
        <3>1. \A x \in Closed : x \in Sessions /\ theEvents'[x] = theEvents[x]
            BY <1>2 DEF Closed
        <3>2. \A x \in Closed : "timeout" \notin fEvents[x] /\ "timeout" \notin theEvents[x]
            BY DEF Inv, Reach
        <3>3. \A x \in Closed : "timeout" \notin fEvents'[x]
            BY <1>5, <1>6, <3>1, <3>2
        <3> QED BY <3>1, <3>2, <3>3
    <2>4. \A x \in Closed : life'[x] \in {"closed", "key freed", "unregister", "deleted"}
                                => ~ handles'[x]
        BY <1>2, <1>5, <1>6 DEF Inv, Reach, Closed
    <2> QED BY <2>1, <2>2, <2>3, <2>4 DEF Reach, Closed
<1> QED BY <1>3, <1>4, <1>7 DEF Inv

LEMMA EndStep ==
    ASSUME Inv, NEW q \in Requests, OpenEnd(q) \/ CloseEnd(q) \/ GetHLSUrlEnd(q)
    PROVE  Inv'
<1> DEFINE s == session[q]
<1>1. request[q] # "none" /\ Done(q) /\ UNCHANGED <<keyFreed, life, theEvents>>
    BY DEF OpenEnd, CloseEnd, GetHLSUrlEnd
<1>2. /\ Locked'
      /\ mapMutex' \in Requests \cup {None}
      /\ fRefCount' \in [Sessions -> 0..1]
      /\ request' \in [Requests -> Stages]
      /\ session' \in [Requests -> Sessions \cup {None}]
      /\ s \in Sessions
      /\ \A x \in Requests : session'[x] = None
    BY <1>1, DoneStep
<1>t. /\ fEvents \in [Sessions -> SUBSET AllEvents]
      /\ hlsMap \subseteq Sessions /\ handles \in [Sessions -> BOOLEAN]
    BY DEF Inv, TypeOK, AllEvents
<1>3. /\ hlsMap' \subseteq hlsMap
      /\ \/ UNCHANGED fEvents
         \/ fEvents' = [fEvents EXCEPT ![s] = @ \cup {"kill"}] /\ s \notin hlsMap'
      /\ \/ UNCHANGED handles
         \/ \E started \in BOOLEAN : handles' = [handles EXCEPT ![s] = @ \/ started]
    BY DEF OpenEnd, CloseEnd, GetHLSUrlEnd, UnRegister
<1>4. TypeOK'
    <2> HIDE DEF s
    <2>1. fEvents' \in [Sessions -> SUBSET AllEvents]
        BY <1>2, <1>3, <1>t DEF AllEvents
    <2>2. handles' \in [Sessions -> BOOLEAN]
        BY <1>2, <1>3, <1>t
    <2> QED BY <1>1, <1>2, <1>3, <2>1, <2>2 DEF Inv, TypeOK, Stages, AllEvents
<1>5. ASSUME NEW x \in Sessions
      PROVE  /\ OutOfReach(x) => OutOfReach(x)'
             /\ "timeout" \in fEvents'[x] => "timeout" \in fEvents[x]
             /\ ~ Ended(x) /\ Ended(x)' => x = s /\ OutOfReach(x)'
             /\ handles'[x] => handles[x] \/ x = s
    <2> HIDE DEF s
    <2>h. x # s => handles'[x] = handles[x]
        BY <1>3, <1>t
    <2>e. fEvents'[x] = fEvents[x] \/ (x = s /\ s \notin hlsMap')
        BY <1>3, <1>t
    <2>2. fEvents'[x] \subseteq fEvents[x] \cup {"kill"}
        BY <1>2, <1>3, <1>t
    <2>3. OutOfReach(x) => OutOfReach(x)'
        BY <1>2, <1>3, ConstantsAssumption DEF OutOfReach
    <2>4. "timeout" \in fEvents'[x] => "timeout" \in fEvents[x]
        BY <2>2
    <2>5. Dying(x)' <=> Dying(x)
        BY <1>1 DEF Dying
    <2>6. theEvents'[x] = theEvents[x]
        BY <1>1
    <2>7. ASSUME ~ Ended(x), Ended(x)'
          PROVE  x = s /\ OutOfReach(x)'
        <3>1. fEvents'[x] # fEvents[x]
            BY <2>5, <2>6, <2>7 DEF Ended
        <3>2. x = s /\ s \notin hlsMap'
            BY <2>e, <3>1
        <3> QED BY <1>2, <3>2, ConstantsAssumption DEF OutOfReach
    <2>8. handles'[x] => handles[x] \/ x = s
        BY <2>h
    <2> QED BY <2>3, <2>4, <2>7, <2>8
<1>6. /\ life[s] # "unborn"
      /\ s \in Closed => ~ Dying(s)
    BY <1>2 DEF Inv, Reach, OutOfReach, Ended
<1>7. Reach'
    <2> HIDE DEF s
    <2>1. \A x \in Sessions : life'[x] = "unborn" => OutOfReach(x)' /\ ~ Ended(x)'
        BY <1>1, <1>5, <1>6 DEF Inv, Reach
    <2>2. \A x \in Closed : Ended(x)' => OutOfReach(x)'
        BY <1>5 DEF Inv, Reach, Closed
    <2>3. \A x \in Closed : "timeout" \notin fEvents'[x] \cup theEvents'[x]
        BY <1>1, <1>5 DEF Inv, Reach, Closed
    <2>4. \A x \in Closed : life'[x] \in {"closed", "key freed", "unregister", "deleted"}
                                => ~ handles'[x]
        BY <1>1, <1>5, <1>6 DEF Inv, Reach, Closed, Dying
    <2> QED BY <2>1, <2>2, <2>3, <2>4 DEF Reach, Closed
<1> QED BY <1>2, <1>4, <1>7 DEF Inv

\* HLSSessionRelease, called by EasyHLSClose.
LEMMA CloseStep ==
    ASSUME Inv, NEW q \in Requests, CloseHandles(q) \/ CloseForgetHandles(q)
    PROVE  Inv'
<1>1. /\ request[q] # "none"
      /\ \E v \in {"closing", "closed"} : request' = [request EXCEPT ![q] = v]
      /\ \/ UNCHANGED handles
         \/ handles' = [handles EXCEPT ![session[q]] = FALSE]
      /\ UNCHANGED <<mapMutex, hlsMap, fRefCount, keyFreed, life, fEvents, theEvents, session>>
    BY DEF CloseHandles, CloseForgetHandles
<1>2. request \in [Requests -> Stages] /\ handles \in [Sessions -> BOOLEAN]
    BY DEF Inv, TypeOK, Stages
<1>3. request' \in [Requests -> Stages] /\ handles' \in [Sessions -> BOOLEAN]
    BY <1>1, <1>2 DEF Stages
<1>4. TypeOK'
    BY <1>1, <1>3 DEF Inv, TypeOK, Stages
<1>5. Locked'
    <2>1. \A x \in Requests : request'[x] # "none" <=> request[x] # "none"
        BY <1>1, <1>2
    <2> QED BY <1>1, <2>1 DEF Inv, Locked
<1>6. \A x \in Sessions : handles'[x] => handles[x]
    BY <1>1, <1>2
<1>7. Reach'
    BY <1>1, <1>6 DEF Inv, Reach, OutOfReach, Ended, Dying, Closed
<1> QED BY <1>4, <1>5, <1>7 DEF Inv

-----------------------------------------------------------------------------
(* The session's own steps: no request is touched by them.                    *)

LEMMA TimerStep ==
    ASSUME Inv, NEW s \in Sessions, TimerExpires(s)
    PROVE  Inv'
<1>1. /\ s \in Timeouts /\ life[s] # "unborn"
      /\ fEvents' = [fEvents EXCEPT ![s] = @ \cup {"timeout"}]
      /\ UNCHANGED <<mapMutex, hlsMap, fRefCount, keyFreed, life, theEvents, handles,
                     request, session>>
    BY DEF TimerExpires
<1>2. fEvents \in [Sessions -> SUBSET AllEvents]
    BY DEF Inv, TypeOK, AllEvents
<1>3. fEvents' \in [Sessions -> SUBSET AllEvents]
    BY <1>1, <1>2 DEF AllEvents
<1>4. TypeOK'
    BY <1>1, <1>3 DEF Inv, TypeOK, AllEvents
<1>5. Locked'
    BY <1>1 DEF Inv, Locked
<1>6. \A x \in Sessions \ {s} : fEvents'[x] = fEvents[x]
    BY <1>1, <1>2
<1>7. s \notin Closed
    BY <1>1 DEF Closed
<1>8. Reach'
    BY <1>1, <1>6, <1>7 DEF Inv, Reach, OutOfReach, Ended, Dying, Closed
<1> QED BY <1>4, <1>5, <1>8 DEF Inv

\* The steps of Run and of the destructor take a session on to its next stage of
\* life; its events move to theEvents and away, its handles are closed.
LEMMA TaskStepKeepsInv ==
    ASSUME Inv, NEW s \in Sessions, TaskStep(s)
    PROVE  Inv'
<1> USE DEF MoveTo
<1>t. /\ life \in [Sessions -> Lives]
      /\ fEvents \in [Sessions -> SUBSET AllEvents]
      /\ theEvents \in [Sessions -> SUBSET AllEvents]
      /\ handles \in [Sessions -> BOOLEAN]
      /\ hlsMap \subseteq Sessions /\ keyFreed \subseteq Sessions
    BY DEF Inv, TypeOK, AllEvents
<1>1. UNCHANGED <<mapMutex, fRefCount, request, session>> /\ life[s] # "unborn"
    BY DEF TaskStep, RunGetEvents, RunLocked, DestroyHandles, DestroyForgetHandles,
           DestroyKey, DestroyLookAtCount, DestroyUnRegister
<1>2. hlsMap' \subseteq hlsMap /\ keyFreed' \subseteq keyFreed \cup {s}
    BY DEF TaskStep, RunGetEvents, RunLocked, DestroyHandles, DestroyForgetHandles,
           DestroyKey, DestroyLookAtCount, DestroyUnRegister
<1>3. /\ life' \in [Sessions -> Lives] /\ life'[s] # "unborn"
      /\ \A x \in Sessions \ {s} : life'[x] = life[x]
    <2>1. \E v \in Lives \ {"unborn"} : life' = [life EXCEPT ![s] = v]
        BY DEF TaskStep, RunGetEvents, RunLocked, DestroyHandles, DestroyForgetHandles,
               DestroyKey, DestroyLookAtCount, DestroyUnRegister, Lives
    <2> QED BY <1>t, <2>1
<1>4. /\ fEvents' \in [Sessions -> SUBSET AllEvents]
      /\ theEvents' \in [Sessions -> SUBSET AllEvents]
      /\ \A x \in Sessions \ {s} : fEvents'[x] = fEvents[x] /\ theEvents'[x] = theEvents[x]
      /\ fEvents'[s] \cup theEvents'[s] \subseteq fEvents[s] \cup theEvents[s]
    <2>1. /\ fEvents' \in {fEvents, [fEvents EXCEPT ![s] = {}]}
          /\ theEvents' \in {theEvents, [theEvents EXCEPT ![s] = {}],
                             [theEvents EXCEPT ![s] = fEvents[s]]}
        BY DEF TaskStep, RunGetEvents, RunLocked, DestroyHandles, DestroyForgetHandles,
               DestroyKey, DestroyLookAtCount, DestroyUnRegister
    <2> QED BY <1>t, <2>1
<1>5. /\ handles' \in [Sessions -> BOOLEAN]
      /\ \A x \in Sessions : handles'[x] => handles[x]
    <2>1. handles' \in {handles, [handles EXCEPT ![s] = FALSE]}
        BY DEF TaskStep, RunGetEvents, RunLocked, DestroyHandles, DestroyForgetHandles,
               DestroyKey, DestroyLookAtCount, DestroyUnRegister
    <2> QED BY <1>t, <2>1
<1>6. TypeOK'
    BY <1>1, <1>2, <1>3, <1>4, <1>5, <1>t DEF Inv, TypeOK, AllEvents
<1>7. Locked'
    BY <1>1 DEF Inv, Locked
<1>8. \A x \in Sessions : OutOfReach(x) => OutOfReach(x)'
    BY <1>1, <1>2 DEF OutOfReach
<1>9. \A x \in Sessions \ {s} : Ended(x)' <=> Ended(x)
    BY <1>3, <1>4 DEF Ended, Dying
<1>10. ASSUME s \in Closed, Ended(s)' PROVE Ended(s)
    \* Run returns -1 for an event it was sent.
    <2>1. CASE RunLocked(s)
        <3>1. theEvents[s] \subseteq AllEvents /\ "timeout" \notin theEvents[s]
            BY <1>10, <1>t DEF Inv, Reach
        <3>2. CASE "kill" \in theEvents[s]
            BY <3>2 DEF Ended
        <3>3. CASE "kill" \notin theEvents[s]
            <4>1. life'[s] = "idle"
                BY <1>t, <2>1, <3>1, <3>3 DEF RunLocked, MustGo
            <4> QED BY <1>4, <1>10, <4>1 DEF Ended, Dying
        <3> QED BY <3>2, <3>3
    <2>2. CASE RunGetEvents(s)
        BY <1>t, <1>4, <1>10, <2>2 DEF RunGetEvents, Ended, Dying
    <2>3. CASE ~ RunLocked(s) /\ ~ RunGetEvents(s)
        <3>1. Dying(s)
            BY <2>3 DEF TaskStep, DestroyHandles, DestroyForgetHandles, DestroyKey,
                        DestroyLookAtCount, DestroyUnRegister, Dying
        <3> QED BY <3>1 DEF Ended
    <2> QED BY <2>1, <2>2, <2>3
<1>11. ASSUME s \in Closed, life'[s] \in {"closed", "key freed", "unregister", "deleted"}
       PROVE  ~ handles'[s]
    <2>1. \/ life[s] \in {"closed", "key freed", "unregister", "deleted"}
          \/ DestroyHandles(s) /\ ~ handles[s]
          \/ DestroyForgetHandles(s)
        BY <1>t, <1>11
        DEF TaskStep, RunGetEvents, RunLocked, DestroyHandles, DestroyForgetHandles,
            DestroyKey, DestroyLookAtCount, DestroyUnRegister
    <2>2. CASE DestroyForgetHandles(s)
        BY <1>t, <2>2 DEF DestroyForgetHandles
    <2> QED BY <1>5, <1>11, <2>1, <2>2 DEF Inv, Reach
<1>12. Reach'
    <2>1. \A x \in Sessions : life'[x] = "unborn" => OutOfReach(x)' /\ ~ Ended(x)'
        BY <1>3, <1>8, <1>9 DEF Inv, Reach
    <2>2. \A x \in Closed : Ended(x)' => OutOfReach(x)'
        BY <1>8, <1>9, <1>10 DEF Inv, Reach, Closed
    <2>3. \A x \in Closed : "timeout" \notin fEvents'[x] \cup theEvents'[x]
        BY <1>4 DEF Inv, Reach, Closed
    <2>4. \A x \in Closed : life'[x] \in {"closed", "key freed", "unregister", "deleted"}
                                => ~ handles'[x]
        BY <1>3, <1>5, <1>11 DEF Inv, Reach, Closed
    <2> QED BY <2>1, <2>2, <2>3, <2>4 DEF Reach, Closed
<1> QED BY <1>6, <1>7, <1>12 DEF Inv

-----------------------------------------------------------------------------
LEMMA Invariant == Spec => []Inv
<1>1. Inv /\ [Next]_vars => Inv'
    <2> SUFFICES ASSUME Inv, [Next]_vars PROVE Inv'
        OBVIOUS
    <2>1. CASE UNCHANGED vars
        BY <2>1 DEF vars, Inv, TypeOK, Locked, Reach, OutOfReach, Ended, Dying, Closed
    <2> QED BY <2>1, FoundStep, NewStep, EndStep, CloseStep, TimerStep, TaskStepKeepsInv
            DEF Next, RequestStep
<1> QED BY <1>1, InvInit, PTL DEF Spec

\* The variables keep their types: in particular the count of a session never is
\* anything but 0 or 1, since the requests hold the map's mutex throughout.
THEOREM TypeCorrect == Spec => []TypeOK
<1>1. Inv => TypeOK
    BY DEF Inv
<1> QED BY <1>1, Invariant, PTL

\* A request never works on a session whose Run has returned -1, if only
\* EasyHLSClose ends the session (EasyHLSModule.cpp, EasyHLSSession.cpp): the last
\* close takes it out of the map before it signals kKillEvent.
THEOREM FoundSessionsLive == Spec => []FoundIsNotDying
<1>1. Inv => FoundIsNotDying
    <2> SUFFICES ASSUME Inv, NEW q \in Requests, session[q] \in Closed
                 PROVE  ~ Dying(session[q])
        BY DEF FoundIsNotDying
    <2> QED BY DEF Inv, Reach, OutOfReach, Ended
<1> QED BY <1>1, Invariant, PTL

\* EasyHLSClose and the destructor never close the handles of such a session at a
\* time, and none of them is left open when it is deleted.
THEOREM HandlesAreClosedOnce == Spec => []HandlesClosedOnce
<1>1. Inv => HandlesClosedOnce
    BY DEF Inv, Reach, OutOfReach, Ended, Dying, HandlesClosedOnce
<1> QED BY <1>1, Invariant, PTL
=============================================================================
