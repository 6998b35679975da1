------------------------- MODULE TaskThreads_proofs -------------------------
(***************************************************************************)
(* Theorems about TaskThreads for any tasks, threads and callers of        *)
(* Signal.  The heart is that responsibility for a task only ever moves    *)
(* from one place to another: a step creates it (the Signal that turns     *)
(* kAlive on), moves it, or ends it (the compare-and-store, the deletion). *)
(***************************************************************************)
EXTENDS TaskThreads, SequenceTheorems, FiniteSetTheorems, TLAPS

LEMMA QueuedAfterEnQueue ==
    ASSUME NEW q \in Seq(Tasks), NEW t \in Tasks,
           \A i, j \in DOMAIN q : q[i] = q[j] => i = j
    PROVE  /\ EnQueue(q, t) \in Seq(Tasks)
           /\ \A x : (\E i \in DOMAIN EnQueue(q, t) : EnQueue(q, t)[i] = x)
                        <=> x = t \/ \E i \in DOMAIN q : q[i] = x
           /\ \A i, j \in DOMAIN EnQueue(q, t) :
                  EnQueue(q, t)[i] = EnQueue(q, t)[j] => i = j
<1>1. CASE \E i \in DOMAIN q : q[i] = t
    BY <1>1 DEF EnQueue
<1>2. CASE ~ \E i \in DOMAIN q : q[i] = t
    <2>1. /\ EnQueue(q, t) = Append(q, t)
          /\ EnQueue(q, t) \in Seq(Tasks)
          /\ DOMAIN q = 1 .. Len(q) /\ Len(q) \in Nat
          /\ DOMAIN Append(q, t) = 1 .. Len(q) + 1
          /\ \A i \in 1 .. Len(q) : Append(q, t)[i] = q[i]
          /\ Append(q, t)[Len(q) + 1] = t
        BY <1>2 DEF EnQueue
    <2>2. ASSUME NEW x
          PROVE  (\E i \in DOMAIN EnQueue(q, t) : EnQueue(q, t)[i] = x)
                    <=> x = t \/ \E i \in DOMAIN q : q[i] = x
        <3>1. x = t => \E i \in DOMAIN EnQueue(q, t) : EnQueue(q, t)[i] = x
            BY <2>1
        <3>2. (\E i \in DOMAIN q : q[i] = x)
                  => \E i \in DOMAIN EnQueue(q, t) : EnQueue(q, t)[i] = x
            BY <2>1
        <3>3. (\E i \in DOMAIN EnQueue(q, t) : EnQueue(q, t)[i] = x)
                  => x = t \/ \E i \in DOMAIN q : q[i] = x
            BY <2>1
        <3> QED BY <3>1, <3>2, <3>3
    <2>3. \A i, j \in DOMAIN EnQueue(q, t) :
              EnQueue(q, t)[i] = EnQueue(q, t)[j] => i = j
        BY <1>2, <2>1
    <2> QED BY <2>1, <2>2, <2>3
<1> QED BY <1>1, <1>2

LEMMA QueuedAfterTail ==
    ASSUME NEW q \in Seq(Tasks), q # <<>>,
           \A i, j \in DOMAIN q : q[i] = q[j] => i = j
    PROVE  /\ Tail(q) \in Seq(Tasks)
           /\ Head(q) \in Tasks
           /\ \E i \in DOMAIN q : q[i] = Head(q)
           /\ \A x : (\E i \in DOMAIN Tail(q) : Tail(q)[i] = x)
                        <=> x # Head(q) /\ \E i \in DOMAIN q : q[i] = x
           /\ \A i, j \in DOMAIN Tail(q) : Tail(q)[i] = Tail(q)[j] => i = j
<1>1. /\ DOMAIN q = 1 .. Len(q) /\ Len(q) \in Nat /\ Len(q) >= 1
      /\ Tail(q) \in Seq(Tasks)
      /\ DOMAIN Tail(q) = 1 .. Len(q) - 1
      /\ \A i \in 1 .. Len(q) - 1 : Tail(q)[i] = q[i + 1]
      /\ Head(q) = q[1] /\ Head(q) \in Tasks
    OBVIOUS
<1>2. ASSUME NEW x
      PROVE  (\E i \in DOMAIN Tail(q) : Tail(q)[i] = x)
                <=> x # Head(q) /\ \E i \in DOMAIN q : q[i] = x
    <2>1. ASSUME NEW i \in DOMAIN Tail(q), Tail(q)[i] = x
          PROVE  x # Head(q) /\ \E j \in DOMAIN q : q[j] = x
        <3>1. i + 1 \in DOMAIN q /\ q[i + 1] = x /\ 1 \in DOMAIN q /\ i + 1 # 1
            BY <1>1, <2>1
        <3> QED BY <1>1, <3>1
    <2>2. ASSUME x # Head(q), NEW i \in DOMAIN q, q[i] = x
          PROVE  \E j \in DOMAIN Tail(q) : Tail(q)[j] = x
        <3>1. i - 1 \in DOMAIN Tail(q) /\ Tail(q)[i - 1] = q[(i - 1) + 1]
            BY <1>1, <2>2
        <3>2. (i - 1) + 1 = i
            BY <1>1
        <3> QED BY <2>2, <3>1, <3>2
    <2> QED BY <2>1, <2>2
<1>3. \A i, j \in DOMAIN Tail(q) : Tail(q)[i] = Tail(q)[j] => i = j
    <2> SUFFICES ASSUME NEW i \in DOMAIN Tail(q), NEW j \in DOMAIN Tail(q),
                        Tail(q)[i] = Tail(q)[j]
                 PROVE  i = j
        OBVIOUS
    <2>1. i + 1 \in DOMAIN q /\ j + 1 \in DOMAIN q /\ q[i + 1] = q[j + 1]
        BY <1>1
    <2> QED BY <1>1, <2>1
<1>4. \E i \in DOMAIN q : q[i] = Head(q)
    BY <1>1
<1> QED BY <1>1, <1>2, <1>3, <1>4

-----------------------------------------------------------------------------
LEMMA TypeOKInit == Init => TypeOK
<1> SUFFICES ASSUME Init PROVE TypeOK
    OBVIOUS
<1>1. fTaskQueue \in [Threads -> Seq(Tasks)]
    <2>1. <<>> \in Seq(Tasks)
        OBVIOUS
    <2>2. \A e \in Seq(Tasks) : [th \in Threads |-> e] \in [Threads -> Seq(Tasks)]
        OBVIOUS
    <2>3. fTaskQueue = [th \in Threads |-> <<>>]
        BY DEF Init
    <2> QED BY ONLY <2>1, <2>2, <2>3
<1>2. /\ fEvents \in [Tasks -> SUBSET Flags]
      /\ fUseThisThread \in [Tasks -> Threads \cup {None}]
      /\ fWriteLock \in [Tasks -> BOOLEAN]
      /\ deleted \subseteq Tasks
      /\ calling \in [Signalers -> Tasks \cup {None}]
      /\ inHand \in [Signalers -> Tasks \cup {None}]
      /\ fHeap \in [Threads -> SUBSET Tasks]
      /\ theTask \in [Threads -> Tasks \cup {None}]
    BY DEF Init
<1>3. /\ state \in [Threads -> ThreadStates]
      /\ got \in [Threads -> SUBSET (Flags \ {kAlive})]
      /\ timeout \in [Threads -> {"none", "delete", "done", "timer"}]
      /\ stopRequested \subseteq Threads
    BY DEF Init, ThreadStates
<1>4. /\ owed \in [Tasks -> SUBSET Events]
      /\ dangling \subseteq deleted
      /\ boundTo \in [Tasks -> Threads \cup {None}]
    BY DEF Init
<1> QED BY <1>1, <1>2, <1>3, <1>4 DEF TypeOK

\* What a step needs to know of the tasks that threads hold, of what the last Run
\* returned, and of the two stages of a call of Signal.
Busy ==
    /\ \A th \in Threads :
           /\ theTask[th] # None <=> state[th] \notin {"waiting for a task", "ended"}
           /\ timeout[th] # "none" <=> state[th] = "returned"
    /\ \A s \in Signalers : calling[s] = None \/ inHand[s] = None

LEMMA BusyInit == Init => Busy
<1> SUFFICES ASSUME Init PROVE Busy
    OBVIOUS
<1>1. /\ theTask = [th \in Threads |-> None]
      /\ state = [th \in Threads |-> "waiting for a task"]
      /\ timeout = [th \in Threads |-> "none"]
      /\ calling = [s \in Signalers |-> None]
    BY DEF Init
<1> QED BY ONLY <1>1 DEF Busy

LEMMA TypeOKStep == TypeOK /\ Busy /\ [Next]_vars => TypeOK'
<1> SUFFICES ASSUME TypeOK, Busy, [Next]_vars
             PROVE  TypeOK'
    OBVIOUS
<1>b. \A th \in Threads : state[th] = "returned" => theTask[th] \in Tasks
    BY DEF TypeOK, Busy
<1> USE ConstantsAssumption
    DEF TypeOK, ThreadStates, taskVars, callVars, threadVars, history
<1>0. ASSUME NEW s \in Signalers, NEW t \in Tasks, SignalFindsValid(s, t)
      PROVE  TypeOK'
    BY <1>0 DEF SignalFindsValid
<1>1. ASSUME NEW s \in Signalers, NEW t \in Tasks, NEW e \in Events,
             SignalSetEvents(s, t, e)
      PROVE  TypeOK'
    <2>1. /\ UNCHANGED <<fUseThisThread, fWriteLock, deleted, boundTo, threadVars>>
          /\ calling' = [calling EXCEPT ![s] = None]
        BY <1>1 DEF SignalSetEvents
    <2>2. /\ fEvents' \in [Tasks -> SUBSET Flags]
          /\ owed' \in [Tasks -> SUBSET Events]
        <3>1. CASE t \in deleted
            <4>1. UNCHANGED <<fEvents, owed>>
                BY <1>1, <3>1 DEF SignalSetEvents
            <4> QED BY <4>1
        <3>2. CASE t \notin deleted
            <4>1. /\ fEvents' = [fEvents EXCEPT ![t] = @ \cup {e, kAlive}]
                  /\ owed' = [owed EXCEPT ![t] = @ \cup {e}]
                BY <1>1, <3>2 DEF SignalSetEvents
            <4>2. {e, kAlive} \subseteq Flags
                BY DEF Flags
            <4> QED BY <4>1, <4>2
        <3> QED BY <3>1, <3>2
    <2>3. \E x \in {inHand[s], t, None} : inHand' = [inHand EXCEPT ![s] = x]
        <3>1. inHand = [inHand EXCEPT ![s] = inHand[s]]
            OBVIOUS
        <3>2. CASE t \in deleted
            BY <1>1, <3>1, <3>2 DEF SignalSetEvents
        <3>3. CASE t \notin deleted
            BY <1>1, <3>3 DEF SignalSetEvents
        <3> QED BY <3>2, <3>3
    <2>4. dangling' \subseteq deleted
        <3>1. dangling' = dangling \/ (t \in deleted /\ dangling' = dangling \cup {t})
            BY ONLY <1>1 DEF SignalSetEvents
        <3> QED BY <3>1
    <2>5. inHand' \in [Signalers -> Tasks \cup {None}]
        <3>1. inHand \in [Signalers -> Tasks \cup {None}]
            OBVIOUS
        <3> QED BY ONLY <2>3, <3>1, s \in Signalers, t \in Tasks
    <2>6. calling' \in [Signalers -> Tasks \cup {None}]
        <3>1. calling \in [Signalers -> Tasks \cup {None}]
            OBVIOUS
        <3> QED BY ONLY <2>1, <3>1
    <2>7. dangling' \subseteq deleted'
        BY <2>1, <2>4
    <2> QED BY <2>1, <2>2, <2>5, <2>6, <2>7
<1>2. ASSUME NEW s \in Signalers, SignalEnQueue(s)
      PROVE  TypeOK'
    <2>1. PICK th \in ThreadsFor(inHand[s]) :
              fTaskQueue' = [fTaskQueue EXCEPT ![th] = EnQueue(@, inHand[s])]
        BY <1>2 DEF SignalEnQueue
    <2>2. inHand[s] \in Tasks
        BY <1>2 DEF SignalEnQueue
    <2>3. ASSUME NEW x \in Threads
          PROVE  EnQueue(fTaskQueue[x], inHand[s]) \in Seq(Tasks)
        <3>1. fTaskQueue[x] \in Seq(Tasks)
            OBVIOUS
        <3>2. Append(fTaskQueue[x], inHand[s]) \in Seq(Tasks)
            BY <2>2, <3>1, AppendProperties
        <3> QED BY <3>1, <3>2 DEF EnQueue
    <2>4. fTaskQueue' \in [Threads -> Seq(Tasks)]
        BY <2>1, <2>3
    <2>5. inHand' \in [Signalers -> Tasks \cup {None}]
        BY <1>2 DEF SignalEnQueue
    <2> QED BY <1>2, <2>4, <2>5 DEF SignalEnQueue
<1>t. ASSUME NEW th \in Threads, NEW t \in Tasks, Take(th, t),
             fHeap' \in [Threads -> SUBSET Tasks], fTaskQueue' \in [Threads -> Seq(Tasks)]
      PROVE  TypeOK'
    <2>1. /\ theTask' \in [Threads -> Tasks \cup {None}]
          /\ state' \in [Threads -> ThreadStates]
        <3>1. /\ state' = [state EXCEPT ![th] = "ended"]
                 \/ state' = [state EXCEPT ![th] = "has a task"]
              /\ theTask' = theTask \/ theTask' = [theTask EXCEPT ![th] = t]
            BY ONLY <1>t DEF Take
        <3>2. state' \in [Threads -> ThreadStates]
            BY <3>1
        <3>3. theTask \in [Threads -> Tasks \cup {None}]
            OBVIOUS
        <3>4. theTask' \in [Threads -> Tasks \cup {None}]
            BY ONLY <3>1, <3>3, th \in Threads, t \in Tasks
        <3> QED BY <3>2, <3>4
    <2>2. UNCHANGED <<got, timeout, stopRequested, taskVars, callVars, history>>
        BY <1>t DEF Take
    <2> QED BY <1>t, <2>1, <2>2
<1>3. ASSUME NEW th \in Threads, NEW t \in Tasks, TakeTimer(th, t)
      PROVE  TypeOK'
    <2>1. fHeap' = [fHeap EXCEPT ![th] = @ \ {t}] /\ UNCHANGED fTaskQueue /\ Take(th, t)
        BY ONLY <1>3 DEF TakeTimer, ExtractMin
    <2>2. fHeap' \in [Threads -> SUBSET Tasks] /\ fTaskQueue' \in [Threads -> Seq(Tasks)]
        BY <2>1
    <2> QED BY <1>t, <2>1, <2>2
<1>4. ASSUME NEW th \in Threads, TakeSignalled(th)
      PROVE  TypeOK'
    <2>q. fTaskQueue[th] \in Seq(Tasks) /\ fTaskQueue[th] # <<>>
        BY <1>4 DEF TakeSignalled
    <2>1. Tail(fTaskQueue[th]) \in Seq(Tasks) /\ Head(fTaskQueue[th]) \in Tasks
        BY ONLY <2>q, HeadTailProperties
    <2>2. fTaskQueue' \in [Threads -> Seq(Tasks)]
        BY <1>4, <2>1 DEF TakeSignalled
    <2> QED BY <1>t, <1>4, <2>1, <2>2 DEF TakeSignalled
<1>5. ASSUME NEW th \in Threads, Quit(th)
      PROVE  TypeOK'
    BY <1>5 DEF Quit
<1>6. ASSUME NEW th \in Threads, EnterLock(th)
      PROVE  TypeOK'
    BY <1>6 DEF EnterLock
<1>7. ASSUME NEW th \in Threads, ResumeLock(th)
      PROVE  TypeOK'
    BY <1>7 DEF ResumeLock
<1>8. ASSUME NEW th \in Threads, RunReadEvents(th)
      PROVE  TypeOK'
    <2>1. got' \in [Threads -> SUBSET (Flags \ {kAlive})]
        <3>1. got' = [got EXCEPT ![th] = fEvents[theTask[th]] \ {kAlive}]
              /\ state[th] = "locking"
            BY ONLY <1>8 DEF RunReadEvents, EventsOf
        <3>2. theTask[th] \in Tasks
            BY ONLY TypeOK, Busy, <3>1, th \in Threads DEF TypeOK, Busy
        <3>3. fEvents[theTask[th]] \subseteq Flags
            BY <3>2
        <3> QED BY <3>1, <3>3
    <2>2. boundTo' \in [Tasks -> Threads \cup {None}]
        BY <1>8 DEF RunReadEvents
    <2>3. state' \in [Threads -> ThreadStates]
        BY <1>8 DEF RunReadEvents
    <2>4. UNCHANGED <<taskVars, callVars, fTaskQueue, fHeap, theTask, timeout,
                      stopRequested, owed, dangling>>
        BY <1>8 DEF RunReadEvents
    <2> QED BY <2>1, <2>2, <2>3, <2>4
<1>9. ASSUME NEW th \in Threads, RunSubtractEvents(th)
      PROVE  TypeOK'
    BY <1>9 DEF RunSubtractEvents, Subtract
<1>10. ASSUME NEW th \in Threads, NEW outcome \in {"delete", "done", "timer"},
              NEW force \in BOOLEAN, NEW callLocked \in BOOLEAN,
              RunReturns(th, outcome, force, callLocked)
       PROVE  TypeOK'
    BY <1>10 DEF RunReturns
<1>11. ASSUME NEW th \in Threads, DeleteTask(th)
       PROVE  TypeOK'
    BY <1>b, <1>11 DEF DeleteTask, LetGo
<1>12. ASSUME NEW th \in Threads, CompareAndStore(th)
       PROVE  TypeOK'
    <2>1. theTask[th] \in Tasks
        BY <1>b, <1>12 DEF CompareAndStore
    <2>2. CASE fEvents[theTask[th]] = {kAlive}
        <3>1. /\ fEvents' = [fEvents EXCEPT ![theTask[th]] = {}]
              /\ theTask' = [theTask EXCEPT ![th] = None]
              /\ state' = [state EXCEPT ![th] = "waiting for a task"]
              /\ timeout' = [timeout EXCEPT ![th] = "none"]
              /\ UNCHANGED <<fUseThisThread, fWriteLock, deleted, callVars, history,
                            fTaskQueue, fHeap, got, stopRequested>>
            BY <1>12, <2>2 DEF CompareAndStore, LetGo
        <3> QED BY ONLY <3>1, TypeOK, ConstantsAssumption, th \in Threads
                DEF TypeOK, ThreadStates, history, callVars
    <2>3. CASE fEvents[theTask[th]] # {kAlive}
        <3>1. /\ state[th] = "returned"
              /\ state' = [state EXCEPT ![th] = "has a task"]
              /\ timeout' = [timeout EXCEPT ![th] = "none"]
              /\ UNCHANGED <<fEvents, theTask, fUseThisThread, fWriteLock, deleted, callVars,
                            history, fTaskQueue, fHeap, got, stopRequested>>
            BY <1>12, <2>3 DEF CompareAndStore
        <3> QED BY ONLY <3>1, TypeOK, ConstantsAssumption, th \in Threads
                DEF TypeOK, ThreadStates, history, callVars
    <2> QED BY <2>2, <2>3
<1>13. ASSUME NEW th \in Threads, InsertTimer(th)
       PROVE  TypeOK'
    BY <1>b, <1>13 DEF InsertTimer, LetGo, Flags
<1>14. CASE RemoveThreads
    BY <1>14 DEF RemoveThreads
<1>15. CASE LockWaitEnds
    BY <1>15 DEF LockWaitEnds
<1>16. CASE UNCHANGED vars
    BY <1>16 DEF vars
<1> HIDE DEF TypeOK
<1> QED BY <1>0, <1>1, <1>2, <1>3, <1>4, <1>5, <1>6, <1>7, <1>8, <1>9, <1>10,
           <1>11, <1>12, <1>13, <1>14, <1>15, <1>16 DEF Next, RunStep

LEMMA BusyStep == TypeOK /\ Busy /\ [Next]_vars => Busy'
<1> SUFFICES ASSUME TypeOK, Busy, [Next]_vars
             PROVE  Busy'
    OBVIOUS
<1> USE ConstantsAssumption DEF taskVars, callVars, threadVars, history
<1>t. /\ theTask \in [Threads -> Tasks \cup {None}]
      /\ state \in [Threads -> ThreadStates]
      /\ timeout \in [Threads -> {"none", "delete", "done", "timer"}]
      /\ calling \in [Signalers -> Tasks \cup {None}]
      /\ inHand \in [Signalers -> Tasks \cup {None}]
    BY DEF TypeOK
<1>h. \A th \in Threads : state[th] \notin {"waiting for a task", "ended"} => theTask[th] \in Tasks
    BY <1>t DEF Busy
<1>r. \* One thread goes from one place of its loop to another.
      ASSUME NEW th \in Threads, NEW v \in ThreadStates,
             state' = [state EXCEPT ![th] = v],
             UNCHANGED <<calling, inHand>>,
             \A x \in Threads : x # th => UNCHANGED <<theTask[x], timeout[x]>>,
             theTask'[th] # None <=> v \notin {"waiting for a task", "ended"},
             timeout'[th] # "none" <=> v = "returned"
      PROVE  Busy'
    BY <1>t, <1>r DEF Busy
<1>c. \* A step of a caller of Signal.
      ASSUME NEW s \in Signalers, UNCHANGED <<state, theTask, timeout>>,
             \A x \in Signalers : x # s => UNCHANGED <<calling[x], inHand[x]>>,
             calling'[s] = None \/ inHand'[s] = None
      PROVE  Busy'
    BY <1>c DEF Busy
<1>0. ASSUME NEW s \in Signalers,
             \/ \E t \in Tasks : SignalFindsValid(s, t)
             \/ \E t \in Tasks, e \in Events : SignalSetEvents(s, t, e)
             \/ SignalEnQueue(s)
      PROVE  Busy'
    <2>1. CASE \E t \in Tasks : SignalFindsValid(s, t)
        BY <1>c, <1>t, <2>1 DEF SignalFindsValid
    <2>2. CASE \E t \in Tasks, e \in Events : SignalSetEvents(s, t, e)
        BY <1>c, <1>t, <2>2 DEF SignalSetEvents
    <2>3. CASE SignalEnQueue(s)
        BY <1>c, <1>t, <2>3 DEF SignalEnQueue
    <2> QED BY <1>0, <2>1, <2>2, <2>3
<1>1. ASSUME NEW th \in Threads, NEW t \in Tasks, Take(th, t),
             state[th] = "waiting for a task"
      PROVE  Busy'
    <2>1. CASE t \in deleted
        BY <1>r, <1>t, <1>1, <2>1 DEF Take, ThreadStates, Busy
    <2>2. CASE t \notin deleted
        BY <1>r, <1>t, <1>1, <2>2 DEF Take, ThreadStates, Busy
    <2> QED BY <2>1, <2>2
<1>2. ASSUME NEW th \in Threads, NEW t \in Tasks, TakeTimer(th, t)
      PROVE  Busy'
    BY <1>1, <1>2 DEF TakeTimer
<1>3. ASSUME NEW th \in Threads, TakeSignalled(th)
      PROVE  Busy'
    <2>1. fTaskQueue[th] \in Seq(Tasks) /\ fTaskQueue[th] # <<>>
        BY <1>3 DEF TakeSignalled, TypeOK
    <2>2. Head(fTaskQueue[th]) \in Tasks
        BY ONLY <2>1, HeadTailProperties
    <2> QED BY <1>1, <1>3, <2>2 DEF TakeSignalled
<1>4. ASSUME NEW th \in Threads, Quit(th)
      PROVE  Busy'
    BY <1>r, <1>t, <1>4 DEF Quit, ThreadStates, Busy
<1>5. ASSUME NEW th \in Threads,
             EnterLock(th) \/ RunReadEvents(th) \/ RunSubtractEvents(th)
      PROVE  Busy'
    BY <1>r, <1>t, <1>5 DEF EnterLock, RunReadEvents, RunSubtractEvents, ThreadStates, Busy
<1>6. ASSUME NEW th \in Threads, NEW outcome \in {"delete", "done", "timer"},
             NEW force \in BOOLEAN, NEW callLocked \in BOOLEAN,
             RunReturns(th, outcome, force, callLocked)
      PROVE  Busy'
    BY <1>r, <1>t, <1>6 DEF RunReturns, ThreadStates, Busy
<1>7. ASSUME NEW th \in Threads, LetGo(th), UNCHANGED <<calling, inHand>>
      PROVE  Busy'
    BY <1>r, <1>t, <1>7 DEF LetGo, ThreadStates
<1>8. ASSUME NEW th \in Threads,
             DeleteTask(th) \/ CompareAndStore(th) \/ InsertTimer(th)
      PROVE  Busy'
    <2>1. UNCHANGED <<calling, inHand>>
        BY <1>8 DEF DeleteTask, CompareAndStore, InsertTimer
    <2>2. CASE LetGo(th)
        BY <1>7, <2>1, <2>2
    <2>3. CASE CompareAndStore(th) /\ ~ LetGo(th)
        <3>1. /\ state[th] = "returned"
              /\ state' = [state EXCEPT ![th] = "has a task"]
              /\ timeout' = [timeout EXCEPT ![th] = "none"]
              /\ UNCHANGED theTask
            BY <2>3 DEF CompareAndStore
        <3> QED BY <1>r, <1>t, <1>h, <2>1, <3>1 DEF ThreadStates
    <2> QED BY <1>8, <2>2, <2>3 DEF DeleteTask, InsertTimer
<1>9. CASE \/ \E th \in Threads : ResumeLock(th)
           \/ RemoveThreads \/ LockWaitEnds \/ UNCHANGED vars
    BY <1>9 DEF ResumeLock, RemoveThreads, LockWaitEnds, vars, Busy
<1> QED BY <1>0, <1>2, <1>3, <1>4, <1>5, <1>6, <1>8, <1>9 DEF Next, RunStep

-----------------------------------------------------------------------------
\* Holds, place by place.
LEMMA HoldsByPlace ==
    /\ \A s \in Signalers : <<"signal", s>> \in Places
    /\ \A th \in Threads : /\ <<"queue", th>> \in Places
                           /\ <<"heap", th>> \in Places
                           /\ <<"thread", th>> \in Places
    /\ \A p \in Places :
           \/ \E s \in Signalers : p = <<"signal", s>>
           \/ \E th \in Threads : \/ p = <<"queue", th>>
                                  \/ p = <<"heap", th>>
                                  \/ p = <<"thread", th>>
    /\ \A s, t : Holds(<<"signal", s>>, t) <=> inHand[s] = t
    /\ \A th, t : Holds(<<"queue", th>>, t) <=> Queued(th, t)
    /\ \A th, t : Holds(<<"heap", th>>, t) <=> t \in fHeap[th]
    /\ \A th, t : Holds(<<"thread", th>>, t) <=> theTask[th] = t
BY DEF Places, Holds

LEMMA HoldsByPlacePrimed ==
    /\ \A s, t : Holds(<<"signal", s>>, t)' <=> inHand'[s] = t
    /\ \A th, t : Holds(<<"queue", th>>, t)' <=> Queued(th, t)'
    /\ \A th, t : Holds(<<"heap", th>>, t)' <=> t \in fHeap'[th]
    /\ \A th, t : Holds(<<"thread", th>>, t)' <=> theTask'[th] = t
BY DEF Holds

\* Case analysis on a place.
LEMMA PlaceCases ==
    ASSUME NEW p \in Places
    PROVE  \/ \E s \in Signalers : p = <<"signal", s>>
           \/ \E th \in Threads : p = <<"queue", th>>
           \/ \E th \in Threads : p = <<"heap", th>>
           \/ \E th \in Threads : p = <<"thread", th>>
BY HoldsByPlace

\* The first part of OneHolder, and the shape every step has: one task t0 may
\* move, and it ends at "to" or nowhere; every other task stays where it was.
Unique == \A t \in Tasks : \A p, q \in Places : Holds(p, t) /\ Holds(q, t) => p = q

Moves(t0, to) ==
    \A t \in Tasks, p \in Places :
        Holds(p, t)' <=> IF t = t0 THEN p = to ELSE Holds(p, t)

Stays == \A t \in Tasks, p \in Places : Holds(p, t)' <=> Holds(p, t)

NoRepeats == \A th \in Threads : \A i, j \in DOMAIN fTaskQueue[th] :
                 fTaskQueue[th][i] = fTaskQueue[th][j] => i = j

LEMMA StaysWhenUntouched ==
    ASSUME UNCHANGED <<inHand, fTaskQueue, fHeap, theTask>>
    PROVE  Stays /\ (NoRepeats => NoRepeats')
BY DEF Stays, Holds, Queued, NoRepeats

LEMMA SignalStep ==
    ASSUME TypeOK, Busy, Unique, NEW s \in Signalers, NEW t0 \in Tasks, NEW e \in Events,
           SignalSetEvents(s, t0, e)
    PROVE  /\ NoRepeats => NoRepeats'
           /\ UNCHANGED inHand => Stays
           /\ \/ UNCHANGED inHand
              \/ /\ t0 \notin dangling
                 /\ t0 \notin deleted => kAlive \notin fEvents[t0]
                 /\ (\A p \in Places : ~ Holds(p, t0)) => Moves(t0, <<"signal", s>>)
<1>1. UNCHANGED <<fTaskQueue, fHeap, theTask>> /\ inHand[s] = None
    BY ConstantsAssumption DEF SignalSetEvents, threadVars, Busy, TypeOK
<1>2. \A th, t : Queued(th, t)' <=> Queued(th, t)
    BY <1>1 DEF Queued
<1>3. UNCHANGED inHand => Stays
    BY <1>1, StaysWhenUntouched
<1>4. \/ UNCHANGED inHand
      \/ /\ inHand' = [inHand EXCEPT ![s] = t0]
         /\ t0 \notin deleted => kAlive \notin fEvents[t0]
         /\ t0 \in deleted => t0 \notin dangling
    <2>1. CASE t0 \in deleted
        BY <2>1 DEF SignalSetEvents
    <2>2. CASE t0 \notin deleted /\ kAlive \in fEvents[t0]
        <3>1. inHand' = [inHand EXCEPT ![s] = None]
            BY <2>2 DEF SignalSetEvents, MustSchedule
        <3> QED BY <1>1, <3>1 DEF TypeOK
    <2>3. CASE t0 \notin deleted /\ kAlive \notin fEvents[t0]
        BY <2>3 DEF SignalSetEvents, MustSchedule
    <2> QED BY <2>1, <2>2, <2>3
<1>5. ASSUME inHand' = [inHand EXCEPT ![s] = t0], \A p \in Places : ~ Holds(p, t0)
      PROVE  Moves(t0, <<"signal", s>>)
    <2>x. \A x \in Signalers, t \in Tasks :
              inHand'[x] = t <=> inHand[x] = t \/ (x = s /\ t = t0)
        BY <1>1, <1>5, ConstantsAssumption DEF TypeOK
    <2> SUFFICES ASSUME NEW t \in Tasks, NEW p \in Places
                 PROVE  Holds(p, t)' <=> IF t = t0 THEN p = <<"signal", s>>
                                         ELSE Holds(p, t)
        BY DEF Moves
    <2>0. t = t0 => ~ Holds(p, t)
        BY <1>5
    <2>1. CASE \E x \in Signalers : p = <<"signal", x>>
        BY <2>x, <1>5, <2>0, <2>1, HoldsByPlace, HoldsByPlacePrimed
    <2>2. CASE \E th \in Threads : p = <<"queue", th>>
        BY <1>2, <2>0, <2>2, HoldsByPlace, HoldsByPlacePrimed
    <2>3. CASE \E th \in Threads : p = <<"heap", th>>
        BY <1>1, <2>0, <2>3, HoldsByPlace, HoldsByPlacePrimed
    <2>4. CASE \E th \in Threads : p = <<"thread", th>>
        BY <1>1, <2>0, <2>4, HoldsByPlace, HoldsByPlacePrimed
    <2> QED BY <2>1, <2>2, <2>3, <2>4, PlaceCases
<1> QED BY <1>1, <1>3, <1>4, <1>5 DEF NoRepeats, TypeOK

LEMMA EnQueueStep ==
    ASSUME TypeOK, Unique, NoRepeats, NEW s \in Signalers, SignalEnQueue(s)
    PROVE  /\ inHand[s] \in Tasks
           /\ Holds(<<"signal", s>>, inHand[s])
           /\ \E th \in Threads :
                  th \in ThreadsFor(inHand[s]) /\ Moves(inHand[s], <<"queue", th>>)
           /\ NoRepeats'
<1> DEFINE t0 == inHand[s]
<1>1. t0 \in Tasks /\ UNCHANGED <<fHeap, theTask>> /\ inHand' = [inHand EXCEPT ![s] = None]
    BY DEF SignalEnQueue, TypeOK
<1>2. PICK th0 \in Threads :
          /\ th0 \in ThreadsFor(t0)
          /\ fTaskQueue' = [fTaskQueue EXCEPT ![th0] = EnQueue(@, t0)]
    <2>1. ThreadsFor(t0) \subseteq Threads
        BY <1>1 DEF ThreadsFor, PickedThreadsFor, TypeOK, Threads
    <2> QED BY <2>1 DEF SignalEnQueue
<1>3. \A th \in Threads :
          /\ fTaskQueue[th] \in Seq(Tasks)
          /\ \A i, j \in DOMAIN fTaskQueue[th] :
                 fTaskQueue[th][i] = fTaskQueue[th][j] => i = j
          /\ fTaskQueue'[th] = IF th = th0 THEN EnQueue(fTaskQueue[th], t0)
                               ELSE fTaskQueue[th]
    BY <1>2 DEF TypeOK, NoRepeats
<1>4. \A th \in Threads, t \in Tasks :
          Queued(th, t)' <=> Queued(th, t) \/ (th = th0 /\ t = t0)
    <2> SUFFICES ASSUME NEW th \in Threads, NEW t \in Tasks
                 PROVE  Queued(th, t)' <=> Queued(th, t) \/ (th = th0 /\ t = t0)
        OBVIOUS
    <2>1. CASE th = th0
        <3>1. fTaskQueue'[th] = EnQueue(fTaskQueue[th], t0)
            BY <1>3, <2>1
        <3>2. \A x : (\E i \in DOMAIN EnQueue(fTaskQueue[th], t0) :
                          EnQueue(fTaskQueue[th], t0)[i] = x)
                     <=> x = t0 \/ \E i \in DOMAIN fTaskQueue[th] : fTaskQueue[th][i] = x
            BY ONLY <1>1, <1>3, QueuedAfterEnQueue
        <3> QED BY <2>1, <3>1, <3>2 DEF Queued
    <2>2. CASE th # th0
        BY <1>3, <2>2 DEF Queued
    <2> QED BY <2>1, <2>2
<1>5. NoRepeats'
    BY <1>1, <1>3, QueuedAfterEnQueue DEF NoRepeats
<1>6. \A x \in Signalers, t \in Tasks : inHand'[x] = t <=> inHand[x] = t /\ x # s
    BY <1>1, ConstantsAssumption DEF TypeOK
<1>7. Holds(<<"signal", s>>, t0) /\ <<"signal", s>> \in Places
    BY HoldsByPlace
<1>8. \A p \in Places : Holds(p, t0) => p = <<"signal", s>>
    BY <1>1, <1>7 DEF Unique
<1>9. Moves(t0, <<"queue", th0>>)
    <2> HIDE DEF t0
    <2> SUFFICES ASSUME NEW t \in Tasks, NEW p \in Places
                 PROVE  Holds(p, t)' <=> IF t = t0 THEN p = <<"queue", th0>>
                                         ELSE Holds(p, t)
        BY DEF Moves
    <2>0. t = t0 /\ Holds(p, t) => p = <<"signal", s>>
        BY <1>8
    <2>1. CASE \E x \in Signalers : p = <<"signal", x>>
        <3>1. PICK x \in Signalers : p = <<"signal", x>>
            BY <2>1
        <3>2. Holds(p, t)' <=> inHand[x] = t /\ x # s
            BY <1>6, <3>1, HoldsByPlacePrimed
        <3>3. Holds(p, t) <=> inHand[x] = t
            BY <3>1, HoldsByPlace
        <3>4. p # <<"queue", th0>> /\ (p = <<"signal", s>> <=> x = s)
            BY <3>1
        <3>5. x = s => inHand[x] = t0
            BY DEF t0
        <3> QED BY <2>0, <3>2, <3>3, <3>4, <3>5
    <2>2. CASE \E th \in Threads : p = <<"queue", th>>
        BY <1>4, <2>0, <2>2, HoldsByPlace, HoldsByPlacePrimed
    <2>3. CASE \E th \in Threads : p = <<"heap", th>>
        BY <1>1, <2>0, <2>3, HoldsByPlace, HoldsByPlacePrimed
    <2>4. CASE \E th \in Threads : p = <<"thread", th>>
        BY <1>1, <2>0, <2>4, HoldsByPlace, HoldsByPlacePrimed
    <2> QED BY <2>1, <2>2, <2>3, <2>4, PlaceCases
<1> QED BY <1>1, <1>2, <1>5, <1>7, <1>9

Leaves(t0) ==
    \A t \in Tasks, p \in Places : Holds(p, t)' <=> t # t0 /\ Holds(p, t)

LEMMA TakeTimerStep ==
    ASSUME TypeOK, Busy, Unique, NEW th0 \in Threads, NEW t0 \in Tasks, TakeTimer(th0, t0)
    PROVE  /\ Holds(<<"heap", th0>>, t0)
           /\ t0 \notin deleted => Moves(t0, <<"thread", th0>>)
           /\ t0 \in deleted => Leaves(t0)
           /\ NoRepeats => NoRepeats'
<1>0. theTask[th0] = None
    BY DEF TakeTimer, Busy
<1>1. /\ UNCHANGED <<inHand, fTaskQueue>>
      /\ t0 \in fHeap[th0]
      /\ theTask[th0] = None
      /\ fHeap' = [fHeap EXCEPT ![th0] = @ \ {t0}]
      /\ theTask' = IF t0 \in deleted THEN theTask ELSE [theTask EXCEPT ![th0] = t0]
    BY <1>0 DEF TakeTimer, Take, ExtractMin, callVars
<1>2. Holds(<<"heap", th0>>, t0) /\ <<"heap", th0>> \in Places
    BY <1>1, HoldsByPlace
<1>3. \A p \in Places : Holds(p, t0) => p = <<"heap", th0>>
    BY <1>2 DEF Unique
<1>4. \A th, t : Queued(th, t)' <=> Queued(th, t)
    BY <1>1 DEF Queued
<1>5. \A th \in Threads, t \in Tasks :
          t \in fHeap'[th] <=> t \in fHeap[th] /\ ~ (th = th0 /\ t = t0)
    BY <1>1 DEF TypeOK
<1>6. \A th \in Threads, t \in Tasks :
          theTask'[th] = t <=> theTask[th] = t \/ (th = th0 /\ t = t0 /\ t0 \notin deleted)
    BY <1>1, ConstantsAssumption DEF TypeOK
<1>7. ASSUME NEW t \in Tasks, NEW p \in Places
      PROVE  Holds(p, t)' <=> IF t = t0 THEN t0 \notin deleted /\ p = <<"thread", th0>>
                              ELSE Holds(p, t)
    <2>0. t = t0 /\ Holds(p, t) => p = <<"heap", th0>>
        BY <1>3
    <2>1. CASE \E x \in Signalers : p = <<"signal", x>>
        BY <1>1, <2>0, <2>1, HoldsByPlace, HoldsByPlacePrimed
    <2>2. CASE \E th \in Threads : p = <<"queue", th>>
        BY <1>4, <2>0, <2>2, HoldsByPlace, HoldsByPlacePrimed
    <2>3. CASE \E th \in Threads : p = <<"heap", th>>
        BY <1>5, <2>0, <2>3, HoldsByPlace, HoldsByPlacePrimed
    <2>4. CASE \E th \in Threads : p = <<"thread", th>>
        BY <1>6, <2>0, <2>4, HoldsByPlace, HoldsByPlacePrimed
    <2> QED BY <2>1, <2>2, <2>3, <2>4, PlaceCases
<1> QED BY <1>1, <1>2, <1>7 DEF NoRepeats, Moves, Leaves

LEMMA TakeSignalledStep ==
    ASSUME TypeOK, Busy, Unique, NoRepeats, NEW th0 \in Threads, TakeSignalled(th0)
    PROVE  /\ Head(fTaskQueue[th0]) \in Tasks
           /\ Holds(<<"queue", th0>>, Head(fTaskQueue[th0]))
           /\ Head(fTaskQueue[th0]) \notin deleted => Moves(Head(fTaskQueue[th0]), <<"thread", th0>>)
           /\ Head(fTaskQueue[th0]) \in deleted => Leaves(Head(fTaskQueue[th0]))
           /\ NoRepeats'
<1> DEFINE t0 == Head(fTaskQueue[th0])
<1>0. theTask[th0] = None
    BY DEF TakeSignalled, Busy
<1>1. /\ UNCHANGED <<inHand, fHeap>>
      /\ fTaskQueue[th0] # <<>>
      /\ theTask[th0] = None
      /\ fTaskQueue' = [fTaskQueue EXCEPT ![th0] = Tail(@)]
      /\ theTask' = IF t0 \in deleted THEN theTask ELSE [theTask EXCEPT ![th0] = t0]
    BY <1>0 DEF TakeSignalled, Take, callVars
<1>2. \A th \in Threads :
          /\ fTaskQueue[th] \in Seq(Tasks)
          /\ \A i, j \in DOMAIN fTaskQueue[th] :
                 fTaskQueue[th][i] = fTaskQueue[th][j] => i = j
          /\ fTaskQueue'[th] = IF th = th0 THEN Tail(fTaskQueue[th]) ELSE fTaskQueue[th]
    BY <1>1 DEF TypeOK, NoRepeats
<1>3. /\ t0 \in Tasks
      /\ Queued(th0, t0)
      /\ \A x : (\E i \in DOMAIN Tail(fTaskQueue[th0]) : Tail(fTaskQueue[th0])[i] = x)
                   <=> x # t0 /\ \E i \in DOMAIN fTaskQueue[th0] : fTaskQueue[th0][i] = x
      /\ \A i, j \in DOMAIN Tail(fTaskQueue[th0]) :
             Tail(fTaskQueue[th0])[i] = Tail(fTaskQueue[th0])[j] => i = j
    BY ONLY <1>1, <1>2, QueuedAfterTail, th0 \in Threads DEF Queued
<1> HIDE DEF t0
<1>4. Holds(<<"queue", th0>>, t0) /\ <<"queue", th0>> \in Places
    BY <1>3, HoldsByPlace
<1>5. \A p \in Places : Holds(p, t0) => p = <<"queue", th0>>
    BY <1>3, <1>4 DEF Unique
<1>6. \A th \in Threads, t \in Tasks :
          Queued(th, t)' <=> Queued(th, t) /\ ~ (th = th0 /\ t = t0)
    <2> SUFFICES ASSUME NEW th \in Threads, NEW t \in Tasks
                 PROVE  Queued(th, t)' <=> Queued(th, t) /\ ~ (th = th0 /\ t = t0)
        OBVIOUS
    <2>1. CASE th = th0
        <3>1. fTaskQueue'[th] = Tail(fTaskQueue[th0])
            BY <1>2, <2>1
        <3>2. Queued(th, t)' <=> \E i \in DOMAIN Tail(fTaskQueue[th0]) :
                                     Tail(fTaskQueue[th0])[i] = t
            BY <3>1 DEF Queued
        <3>3. Queued(th, t) <=> \E i \in DOMAIN fTaskQueue[th0] : fTaskQueue[th0][i] = t
            BY <2>1 DEF Queued
        <3> QED BY <1>3, <2>1, <3>2, <3>3
    <2>2. CASE th # th0
        BY <1>2, <2>2 DEF Queued
    <2> QED BY <2>1, <2>2
<1>7. NoRepeats'
    <2> SUFFICES ASSUME NEW th \in Threads,
                        NEW i \in DOMAIN fTaskQueue'[th], NEW j \in DOMAIN fTaskQueue'[th],
                        fTaskQueue'[th][i] = fTaskQueue'[th][j]
                 PROVE  i = j
        BY DEF NoRepeats
    <2>1. CASE th = th0
        <3>1. fTaskQueue'[th] = Tail(fTaskQueue[th0])
            BY <1>2, <2>1
        <3> QED BY <1>3, <3>1
    <2>2. CASE th # th0
        <3>1. fTaskQueue'[th] = fTaskQueue[th]
            BY <1>2, <2>2
        <3> QED BY <1>2, <3>1
    <2> QED BY <2>1, <2>2
<1>8. \A th \in Threads, t \in Tasks :
          theTask'[th] = t <=> theTask[th] = t \/ (th = th0 /\ t = t0 /\ t0 \notin deleted)
    BY <1>1, ConstantsAssumption DEF TypeOK
<1>9. ASSUME NEW t \in Tasks, NEW p \in Places
      PROVE  Holds(p, t)' <=> IF t = t0 THEN t0 \notin deleted /\ p = <<"thread", th0>>
                              ELSE Holds(p, t)
    <2>0. t = t0 /\ Holds(p, t) => p = <<"queue", th0>>
        BY <1>5
    <2>1. CASE \E x \in Signalers : p = <<"signal", x>>
        BY <1>1, <2>0, <2>1, HoldsByPlace, HoldsByPlacePrimed
    <2>2. CASE \E th \in Threads : p = <<"queue", th>>
        BY <1>6, <2>0, <2>2, HoldsByPlace, HoldsByPlacePrimed
    <2>3. CASE \E th \in Threads : p = <<"heap", th>>
        BY <1>1, <2>0, <2>3, HoldsByPlace, HoldsByPlacePrimed
    <2>4. CASE \E th \in Threads : p = <<"thread", th>>
        BY <1>8, <2>0, <2>4, HoldsByPlace, HoldsByPlacePrimed
    <2> QED BY <2>1, <2>2, <2>3, <2>4, PlaceCases
<1> QED BY <1>3, <1>4, <1>7, <1>9 DEF t0, Moves, Leaves

\* A thread that lets go of its task, for good or into its own timer heap.
LEMMA LetGoStep ==
    ASSUME TypeOK, Unique, NEW th0 \in Threads, theTask[th0] \in Tasks,
           theTask' = [theTask EXCEPT ![th0] = None],
           UNCHANGED <<inHand, fTaskQueue>>,
           NEW armed \in BOOLEAN,
           fHeap' = IF armed THEN [fHeap EXCEPT ![th0] = @ \cup {theTask[th0]}]
                    ELSE fHeap
    PROVE  /\ Holds(<<"thread", th0>>, theTask[th0])
           /\ armed => Moves(theTask[th0], <<"heap", th0>>)
           /\ ~ armed => Leaves(theTask[th0])
           /\ NoRepeats => NoRepeats'
<1> DEFINE t0 == theTask[th0]
<1>2. Holds(<<"thread", th0>>, t0) /\ <<"thread", th0>> \in Places
    BY HoldsByPlace
<1>3. \A p \in Places : Holds(p, t0) => p = <<"thread", th0>>
    BY <1>2 DEF Unique
<1>4. \A th, t : Queued(th, t)' <=> Queued(th, t)
    BY DEF Queued
<1>5. \A th \in Threads, t \in Tasks :
          t \in fHeap'[th] <=> t \in fHeap[th] \/ (armed /\ th = th0 /\ t = t0)
    BY DEF TypeOK
<1>6. \A th \in Threads, t \in Tasks :
          theTask'[th] = t <=> theTask[th] = t /\ ~ (th = th0 /\ t = t0)
    BY ConstantsAssumption DEF TypeOK
<1>7. ASSUME NEW t \in Tasks, NEW p \in Places
      PROVE  Holds(p, t)' <=> IF t = t0 THEN armed /\ p = <<"heap", th0>>
                              ELSE Holds(p, t)
    <2> HIDE DEF t0
    <2>0. t = t0 /\ Holds(p, t) => p = <<"thread", th0>>
        BY <1>3
    <2>1. CASE \E x \in Signalers : p = <<"signal", x>>
        BY <2>0, <2>1, HoldsByPlace, HoldsByPlacePrimed
    <2>2. CASE \E th \in Threads : p = <<"queue", th>>
        BY <1>4, <2>0, <2>2, HoldsByPlace, HoldsByPlacePrimed
    <2>3. CASE \E th \in Threads : p = <<"heap", th>>
        BY <1>5, <2>0, <2>3, HoldsByPlace, HoldsByPlacePrimed
    <2>4. CASE \E th \in Threads : p = <<"thread", th>>
        BY <1>6, <2>0, <2>4, HoldsByPlace, HoldsByPlacePrimed
    <2> QED BY <2>1, <2>2, <2>3, <2>4, PlaceCases
<1> QED BY <1>2, <1>7 DEF Moves, Leaves, NoRepeats

-----------------------------------------------------------------------------
\* kAlive means that the task is somewhere.
Alive == \A t \in Tasks \ deleted :
             kAlive \in fEvents[t] <=> \E p \in Places : Holds(p, t)

\* No thread has a deleted task: Valid() keeps it from taking one.
DeadAreIdle == \A t \in deleted, th \in Threads : theTask[th] # t

Custody == /\ TypeOK /\ Busy
           /\ Unique /\ NoRepeats /\ Alive /\ DeadAreIdle /\ DeletedIsUnreachable

LEMMA CustodyInit == Init => Custody
<1> SUFFICES ASSUME Init PROVE Custody
    OBVIOUS
<1>1. TypeOK /\ Busy
    BY TypeOKInit, BusyInit
<1>2. \A t \in Tasks, p \in Places : ~ Holds(p, t)
    <2>1. /\ \A s \in Signalers : inHand[s] = None
          /\ \A th \in Threads : theTask[th] = None /\ fHeap[th] = {}
          /\ \A th \in Threads : fTaskQueue[th] = <<>>
        BY DEF Init
    <2>2. \A th \in Threads : \A t : ~ Queued(th, t)
        BY <2>1 DEF Queued
    <2> SUFFICES ASSUME NEW t \in Tasks, NEW p \in Places PROVE ~ Holds(p, t)
        OBVIOUS
    <2>3. CASE \E x \in Signalers : p = <<"signal", x>>
        BY <2>1, <2>3, HoldsByPlace, ConstantsAssumption
    <2>4. CASE \E th \in Threads : p = <<"queue", th>>
        BY <2>2, <2>4, HoldsByPlace
    <2>5. CASE \E th \in Threads : p = <<"heap", th>>
        BY <2>1, <2>5, HoldsByPlace
    <2>6. CASE \E th \in Threads : p = <<"thread", th>>
        BY <2>1, <2>6, HoldsByPlace, ConstantsAssumption
    <2> QED BY <2>3, <2>4, <2>5, <2>6, PlaceCases
<1>3. NoRepeats
    <2>1. \A th \in Threads : fTaskQueue[th] = <<>>
        BY DEF Init
    <2> QED BY <2>1 DEF NoRepeats
<1> QED BY <1>1, <1>2, <1>3
        DEF Custody, Unique, Alive, DeadAreIdle, DeletedIsUnreachable, Init

\* The part of Custody that speaks of places.
Placed == /\ Unique /\ NoRepeats /\ Alive
          /\ DeadAreIdle /\ DeletedIsUnreachable /\ deleted \subseteq Tasks

LEMMA PlacedAfterMove ==
    ASSUME Placed, UNCHANGED deleted, dangling \subseteq dangling', NoRepeats',
           NEW t0 \in Tasks, NEW to \in Places, Moves(t0, to),
           t0 \in deleted => t0 \in dangling' /\ to[1] # "thread",
           t0 \notin deleted => kAlive \in fEvents'[t0],
           \A t \in Tasks : t # t0 => (kAlive \in fEvents'[t] <=> kAlive \in fEvents[t])
    PROVE  Placed'
<1>1. Unique'
    BY DEF Placed, Unique, Moves
<1>2. Alive'
    BY DEF Placed, Alive, Moves
<1>3. DeletedIsUnreachable'
    <2>1. ASSUME NEW t \in deleted, t \notin dangling', NEW p \in Places
          PROVE  ~ Holds(p, t)'
        BY <2>1 DEF Placed, DeletedIsUnreachable, Moves
    <2> QED BY <2>1 DEF DeletedIsUnreachable
<1>4. DeadAreIdle'
    <2> SUFFICES ASSUME NEW t \in deleted, NEW th \in Threads, theTask'[th] = t
                 PROVE  FALSE
        BY DEF DeadAreIdle
    <2>1. Holds(<<"thread", th>>, t)' /\ <<"thread", th>> \in Places /\ t \in Tasks
        BY HoldsByPlace, HoldsByPlacePrimed DEF Placed
    <2>2. CASE t = t0
        <3>1. to = <<"thread", th>>
            BY <2>1, <2>2 DEF Moves
        <3> QED BY <2>2, <3>1
    <2>3. CASE t # t0
        <3>1. theTask[th] = t
            BY <2>1, <2>3, HoldsByPlace DEF Moves
        <3> QED BY <3>1 DEF Placed, DeadAreIdle
    <2> QED BY <2>2, <2>3
<1> QED BY <1>1, <1>2, <1>3, <1>4 DEF Placed

LEMMA PlacedWhenStays ==
    ASSUME Placed, UNCHANGED <<deleted, theTask>>, dangling \subseteq dangling',
           NoRepeats', Stays,
           \A t \in Tasks \ deleted : kAlive \in fEvents'[t] <=> kAlive \in fEvents[t]
    PROVE  Placed'
<1>1. \A t \in Tasks, p \in Places : Holds(p, t)' <=> Holds(p, t)
    BY DEF Stays
<1>2. Unique' /\ Alive' /\ DeadAreIdle'
    BY <1>1 DEF Placed, Unique, Alive, DeadAreIdle
<1>3. DeletedIsUnreachable'
    BY <1>1 DEF Placed, DeletedIsUnreachable
<1> QED BY <1>2, <1>3 DEF Placed

LEMMA PlacedAfterLeave ==
    ASSUME Placed, NoRepeats', NEW t0 \in Tasks, Leaves(t0), UNCHANGED dangling,
           deleted' = deleted \/ deleted' = deleted \cup {t0},
           t0 \notin deleted' => kAlive \notin fEvents'[t0],
           \A t \in Tasks : t # t0 => (kAlive \in fEvents'[t] <=> kAlive \in fEvents[t])
    PROVE  Placed'
<1>1. Unique'
    BY DEF Placed, Unique, Leaves
<1>2. Alive'
    BY DEF Placed, Alive, Leaves
<1>3. DeletedIsUnreachable'
    <2>1. ASSUME NEW t \in deleted', t \notin dangling, NEW p \in Places
          PROVE  ~ Holds(p, t)'
        BY <2>1 DEF Placed, DeletedIsUnreachable, Leaves
    <2> QED BY <2>1 DEF DeletedIsUnreachable
<1>4. DeadAreIdle'
    <2> SUFFICES ASSUME NEW t \in deleted', NEW th \in Threads, theTask'[th] = t
                 PROVE  FALSE
        BY DEF DeadAreIdle
    <2>1. Holds(<<"thread", th>>, t)' /\ <<"thread", th>> \in Places /\ t \in Tasks
        BY HoldsByPlace, HoldsByPlacePrimed DEF Placed
    <2>2. t # t0 /\ theTask[th] = t
        BY <2>1, HoldsByPlace DEF Leaves
    <2> QED BY <2>2 DEF Placed, DeadAreIdle
<1> QED BY <1>1, <1>2, <1>3, <1>4 DEF Placed

\* A task that is in some place is alive, unless a late Signal put it there.
LEMMA PlacedIsAlive ==
    ASSUME Placed, NEW t \in Tasks, NEW p \in Places, Holds(p, t)
    PROVE  t \in dangling \/ (t \notin deleted /\ kAlive \in fEvents[t])
BY DEF Placed, Alive, DeletedIsUnreachable

\* The task of a thread is alive.
LEMMA TaskIsAlive ==
    ASSUME Placed, TypeOK, NEW th \in Threads, theTask[th] \in Tasks
    PROVE  theTask[th] \notin deleted /\ kAlive \in fEvents[theTask[th]]
<1>1. Holds(<<"thread", th>>, theTask[th]) /\ <<"thread", th>> \in Places
    BY HoldsByPlace
<1>2. theTask[th] \notin deleted
    BY DEF Placed, DeadAreIdle
<1> QED BY <1>1, <1>2, PlacedIsAlive DEF TypeOK

\* A step that leaves the places alone.
LEMMA PlacedWhenUntouched ==
    ASSUME Placed, UNCHANGED <<deleted, dangling, inHand, fTaskQueue, fHeap, theTask>>,
           \A t \in Tasks : kAlive \in fEvents'[t] <=> kAlive \in fEvents[t]
    PROVE  Placed'
<1>1. Stays /\ (NoRepeats => NoRepeats')
    BY StaysWhenUntouched
<1> QED BY <1>1, PlacedWhenStays DEF Placed

LEMMA PlacedStep ==
    ASSUME TypeOK, Busy, Placed, [Next]_vars
    PROVE  Placed'
<1> USE DEF taskVars, callVars, threadVars, history
<1>u. Unique /\ NoRepeats
    BY DEF Placed
<1>0. ASSUME NEW s \in Signalers, NEW t0 \in Tasks, SignalFindsValid(s, t0)
      PROVE  Placed'
    BY <1>0, PlacedWhenUntouched DEF SignalFindsValid
<1>1. ASSUME NEW s \in Signalers, NEW t0 \in Tasks, NEW e \in Events,
             SignalSetEvents(s, t0, e)
      PROVE  Placed'
    <2>1. /\ UNCHANGED <<deleted, theTask>>
          /\ dangling \subseteq dangling'
          /\ t0 \in deleted => t0 \in dangling'
        BY <1>1 DEF SignalSetEvents
    <2>2. /\ t0 \notin deleted => kAlive \in fEvents'[t0]
          /\ \A t \in Tasks : t # t0 => fEvents'[t] = fEvents[t]
          /\ t0 \notin deleted \/ fEvents'[t0] = fEvents[t0]
        <3>1. CASE t0 \in deleted
            BY <1>1, <3>1 DEF SignalSetEvents
        <3>2. CASE t0 \notin deleted
            BY <1>1, <3>2 DEF SignalSetEvents, TypeOK
        <3> QED BY <3>1, <3>2
    <2>3. NoRepeats'
        BY <1>1, <1>u, SignalStep
    <2>4. CASE UNCHANGED inHand
        <3>1. Stays
            BY <1>1, <1>u, <2>4, SignalStep
        <3>2. t0 \notin deleted => kAlive \in fEvents[t0]
            <4> SUFFICES ASSUME t0 \notin deleted, kAlive \notin fEvents[t0] PROVE FALSE
                OBVIOUS
            <4>1. inHand' = [inHand EXCEPT ![s] = t0]
                BY <1>1 DEF SignalSetEvents, MustSchedule
            <4>2. inHand'[s] = t0
                BY <4>1 DEF TypeOK
            <4>3. Holds(<<"signal", s>>, t0) /\ <<"signal", s>> \in Places
                BY <2>4, <4>2, HoldsByPlace
            <4> QED BY <4>3 DEF Placed, Alive
        <3> QED BY ONLY Placed, t0 \in Tasks, <2>1, <2>2, <2>3, <3>1, <3>2, PlacedWhenStays
    <2>5. CASE /\ t0 \notin dangling
               /\ t0 \notin deleted => kAlive \notin fEvents[t0]
               /\ (\A p \in Places : ~ Holds(p, t0)) => Moves(t0, <<"signal", s>>)
        <3>1. \A p \in Places : ~ Holds(p, t0)
            BY <2>5, PlacedIsAlive
        <3>2. Moves(t0, <<"signal", s>>) /\ <<"signal", s>> \in Places
            BY <2>5, <3>1, HoldsByPlace
        <3>3. <<"signal", s>>[1] # "thread"
            OBVIOUS
        <3> QED BY ONLY Placed, t0 \in Tasks, <2>1, <2>2, <2>3, <3>2, <3>3, PlacedAfterMove
    <2> QED BY <1>1, <1>u, <2>4, <2>5, SignalStep
<1>2. ASSUME NEW s \in Signalers, SignalEnQueue(s)
      PROVE  Placed'
    <2>1. /\ inHand[s] \in Tasks
          /\ Holds(<<"signal", s>>, inHand[s])
          /\ \E th \in Threads :
                 th \in ThreadsFor(inHand[s]) /\ Moves(inHand[s], <<"queue", th>>)
          /\ NoRepeats'
        BY <1>2, <1>u, EnQueueStep
    <2>2. PICK th \in Threads : Moves(inHand[s], <<"queue", th>>)
        BY <2>1
    <2>3. \/ inHand[s] \in dangling
          \/ inHand[s] \notin deleted /\ kAlive \in fEvents[inHand[s]]
        BY <2>1, PlacedIsAlive, HoldsByPlace
    <2>4. UNCHANGED <<deleted, dangling, fEvents>> /\ dangling \subseteq deleted
        BY <1>2 DEF SignalEnQueue, TypeOK
    <2>5. <<"queue", th>> \in Places /\ <<"queue", th>>[1] # "thread"
        BY HoldsByPlace
    <2> QED BY ONLY Placed, <2>1, <2>2, <2>3, <2>4, <2>5, PlacedAfterMove
<1>t. \* A thread takes a task that was held in the place "from".
      ASSUME NEW th \in Threads, NEW t0 \in Tasks, NEW from \in Places, Holds(from, t0),
             t0 \notin deleted => Moves(t0, <<"thread", th>>),
             t0 \in deleted => Leaves(t0),
             NoRepeats', UNCHANGED <<deleted, dangling, fEvents>>
      PROVE  Placed'
    <2>1. <<"thread", th>> \in Places
        BY HoldsByPlace
    <2>2. CASE t0 \notin deleted
        <3>1. kAlive \in fEvents[t0]
            BY <1>t, <2>2, PlacedIsAlive DEF TypeOK
        <3> QED BY ONLY Placed, <1>t, <2>1, <2>2, <3>1, PlacedAfterMove
    <2>3. CASE t0 \in deleted
        BY ONLY Placed, <1>t, <2>3, PlacedAfterLeave
    <2> QED BY <2>2, <2>3
<1>3. ASSUME NEW th \in Threads, NEW t0 \in Tasks, TakeTimer(th, t0)
      PROVE  Placed'
    <2>1. /\ Holds(<<"heap", th>>, t0) /\ <<"heap", th>> \in Places
          /\ t0 \notin deleted => Moves(t0, <<"thread", th>>)
          /\ t0 \in deleted => Leaves(t0)
          /\ NoRepeats'
        BY <1>3, <1>u, TakeTimerStep, HoldsByPlace
    <2>2. UNCHANGED <<deleted, dangling, fEvents>>
        BY <1>3 DEF TakeTimer, Take
    <2> QED BY <1>t, <2>1, <2>2
<1>4. ASSUME NEW th \in Threads, TakeSignalled(th)
      PROVE  Placed'
    <2> DEFINE t0 == Head(fTaskQueue[th])
    <2>1. /\ t0 \in Tasks
          /\ Holds(<<"queue", th>>, t0) /\ <<"queue", th>> \in Places
          /\ t0 \notin deleted => Moves(t0, <<"thread", th>>)
          /\ t0 \in deleted => Leaves(t0)
          /\ NoRepeats'
        BY <1>4, <1>u, TakeSignalledStep, HoldsByPlace
    <2> HIDE DEF t0
    <2>2. UNCHANGED <<deleted, dangling, fEvents>>
        BY <1>4 DEF TakeSignalled, Take
    <2> QED BY <1>t, <2>1, <2>2
<1>5. ASSUME NEW th \in Threads, Quit(th)
      PROVE  Placed'
    BY <1>5, PlacedWhenUntouched DEF Quit
<1>6. ASSUME NEW th \in Threads, EnterLock(th)
      PROVE  Placed'
    BY <1>6, PlacedWhenUntouched DEF EnterLock
<1>7. ASSUME NEW th \in Threads, ResumeLock(th)
      PROVE  Placed'
    BY <1>7, PlacedWhenUntouched DEF ResumeLock
<1>8. ASSUME NEW th \in Threads, RunReadEvents(th)
      PROVE  Placed'
    BY <1>8, PlacedWhenUntouched DEF RunReadEvents
<1>9. ASSUME NEW th \in Threads, RunSubtractEvents(th)
      PROVE  Placed'
    <2>1. \A t \in Tasks : kAlive \in fEvents'[t] <=> kAlive \in fEvents[t]
        BY <1>9 DEF RunSubtractEvents, Subtract, TypeOK
    <2> QED BY <1>9, <2>1, PlacedWhenUntouched DEF RunSubtractEvents
<1>10. ASSUME NEW th \in Threads, NEW outcome \in {"delete", "done", "timer"},
              NEW force \in BOOLEAN, NEW callLocked \in BOOLEAN,
              RunReturns(th, outcome, force, callLocked)
       PROVE  Placed'
    BY <1>10, PlacedWhenUntouched DEF RunReturns
<1>11. ASSUME NEW th \in Threads, DeleteTask(th)
       PROVE  Placed'
    <2>1. theTask[th] \in Tasks
        BY <1>11 DEF DeleteTask, TypeOK, Busy
    <2>2. /\ theTask' = [theTask EXCEPT ![th] = None]
          /\ UNCHANGED <<inHand, fTaskQueue, fHeap, fEvents, dangling>>
          /\ deleted' = deleted \cup {theTask[th]}
        BY <1>11 DEF DeleteTask, LetGo
    <2>3. Leaves(theTask[th]) /\ NoRepeats'
        BY <1>u, <2>1, <2>2, LetGoStep
    <2>4. theTask[th] \in deleted'
        BY <2>2
    <2> QED BY ONLY Placed, <2>1, <2>2, <2>3, <2>4, PlacedAfterLeave
<1>12. ASSUME NEW th \in Threads, CompareAndStore(th)
       PROVE  Placed'
    <2>1. theTask[th] \in Tasks
        BY <1>12 DEF CompareAndStore, TypeOK, Busy
    <2>2. CASE fEvents[theTask[th]] = {kAlive}
        <3>1. /\ theTask' = [theTask EXCEPT ![th] = None]
              /\ UNCHANGED <<inHand, fTaskQueue, fHeap, deleted, dangling>>
              /\ fEvents' = [fEvents EXCEPT ![theTask[th]] = {}]
            BY <1>12, <2>2 DEF CompareAndStore, LetGo
        <3>2. Leaves(theTask[th]) /\ NoRepeats'
            BY <1>u, <2>1, <3>1, LetGoStep
        <3>3. /\ kAlive \notin fEvents'[theTask[th]]
              /\ \A t \in Tasks : t # theTask[th] => fEvents'[t] = fEvents[t]
            BY <2>1, <3>1 DEF TypeOK
        <3> QED BY ONLY Placed, <2>1, <3>1, <3>2, <3>3, PlacedAfterLeave
    <2>3. CASE fEvents[theTask[th]] # {kAlive}
        BY <1>12, <2>3, PlacedWhenUntouched DEF CompareAndStore
    <2> QED BY <2>2, <2>3
<1>13. ASSUME NEW th \in Threads, InsertTimer(th)
       PROVE  Placed'
    <2>1. theTask[th] \in Tasks
        BY <1>13 DEF InsertTimer, TypeOK, Busy
    <2>2. /\ theTask' = [theTask EXCEPT ![th] = None]
          /\ UNCHANGED <<inHand, fTaskQueue, deleted, dangling>>
          /\ fHeap' = [fHeap EXCEPT ![th] = @ \cup {theTask[th]}]
          /\ fEvents' = [fEvents EXCEPT ![theTask[th]] = @ \cup {kIdleEvent}]
        BY <1>13 DEF InsertTimer, LetGo
    <2>3. /\ Holds(<<"thread", th>>, theTask[th])
          /\ Moves(theTask[th], <<"heap", th>>)
          /\ NoRepeats'
        BY <1>u, <2>1, <2>2, LetGoStep
    <2>4. /\ theTask[th] \notin deleted /\ kAlive \in fEvents[theTask[th]]
          /\ <<"heap", th>> \in Places
        BY <2>1, TaskIsAlive, HoldsByPlace
    <2>5. /\ kAlive \in fEvents'[theTask[th]]
          /\ \A t \in Tasks : t # theTask[th] => fEvents'[t] = fEvents[t]
        BY <2>1, <2>2, <2>4 DEF TypeOK
    <2> QED BY ONLY Placed, <2>1, <2>2, <2>3, <2>4, <2>5, PlacedAfterMove
<1>14. CASE RemoveThreads
    BY <1>14, PlacedWhenUntouched DEF RemoveThreads
<1>15. CASE LockWaitEnds
    BY <1>15, PlacedWhenUntouched DEF LockWaitEnds
<1>16. CASE UNCHANGED vars
    BY <1>16, PlacedWhenUntouched DEF vars
<1> QED BY <1>0, <1>1, <1>2, <1>3, <1>4, <1>5, <1>6, <1>7, <1>8, <1>9, <1>10, <1>11,
           <1>12, <1>13, <1>14, <1>15, <1>16 DEF Next, RunStep

-----------------------------------------------------------------------------
\* The inductive invariant of the scheduler.
LEMMA CustodyInvariant == Spec => []Custody
<1>1. Custody /\ [Next]_vars => Custody'
    <2> SUFFICES ASSUME Custody, [Next]_vars PROVE Custody'
        OBVIOUS
    <2>1. TypeOK /\ Busy /\ Placed
        BY DEF Custody, Placed, TypeOK
    <2>2. TypeOK' /\ Busy'
        BY <2>1, TypeOKStep, BusyStep
    <2>3. Placed'
        BY <2>1, PlacedStep
    <2> QED BY <2>2, <2>3 DEF Custody, Placed
<1> QED BY <1>1, CustodyInit, PTL DEF Spec

\* The variables of the scheduler keep their types.
THEOREM TypeCorrect == Spec => []TypeOK
<1>1. Custody => TypeOK
    BY DEF Custody
<1> QED BY <1>1, CustodyInvariant, PTL

\* Whatever the callers of Signal and the threads do, a task is in one place at
\* most, once, and in some place exactly when its kAlive bit is on: the word of
\* Task.cpp:101-103 and 275 is enough to keep two threads out of one Run.
THEOREM OneHolderAlways == Spec => []OneHolder
<1>1. Custody => OneHolder
    BY DEF Custody, OneHolder, Unique, NoRepeats, Alive
<1> QED BY <1>1, CustodyInvariant, PTL

\* Whatever the Run that asks for its deletion had for a reason, when a task is
\* deleted no queue, heap, thread or call refers to it (Task.cpp:244-272), and none
\* will unless a Signal that had passed Valid() before writes to the freed word.
THEOREM NoUseAfterDelete == Spec => []DeletedIsUnreachable
<1>1. Custody => DeletedIsUnreachable
    BY DEF Custody
<1> QED BY <1>1, CustodyInvariant, PTL
-----------------------------------------------------------------------------
\* What NoEventLost needs of a step.
WordOwes ==
    /\ \A t \in Tasks : owed[t] \subseteq fEvents[t]
    /\ \A t \in Tasks : fEvents[t] # {} => kAlive \in fEvents[t]

LEMMA WordOwesStep ==
    ASSUME Custody, WordOwes, [Next]_vars PROVE WordOwes'
<1> USE ConstantsAssumption DEF WordOwes, taskVars, callVars, threadVars, history
<1>t. /\ fEvents \in [Tasks -> SUBSET Flags]
      /\ owed \in [Tasks -> SUBSET Events]
      /\ got \in [Threads -> SUBSET (Flags \ {kAlive})]
      /\ \A th \in Threads : state[th] = "returned" => theTask[th] \in Tasks
    BY DEF Custody, TypeOK, Busy
<1>1. ASSUME NEW s \in Signalers, NEW t \in Tasks, NEW e \in Events,
             SignalSetEvents(s, t, e)
      PROVE  WordOwes'
    <2>1. CASE t \in deleted
        BY <1>1, <2>1 DEF SignalSetEvents
    <2>2. CASE t \notin deleted
        BY <1>1, <1>t, <2>2 DEF SignalSetEvents
    <2> QED BY <2>1, <2>2
<1>2. ASSUME NEW th \in Threads, RunSubtractEvents(th)
      PROVE  WordOwes'
    <2>1. got[th] \subseteq Flags \ {kAlive}
        BY <1>t
    <2> QED BY <1>2, <1>t, <2>1 DEF RunSubtractEvents, Subtract
<1>3. ASSUME NEW th \in Threads, CompareAndStore(th)
      PROVE  WordOwes'
    <2>1. \/ UNCHANGED <<fEvents, owed>>
          \/ /\ UNCHANGED owed
             /\ fEvents[theTask[th]] = {kAlive}
             /\ fEvents' = [fEvents EXCEPT ![theTask[th]] = {}]
        BY <1>3 DEF CompareAndStore
    <2> QED BY <1>t, <2>1
<1>4. ASSUME NEW th \in Threads, InsertTimer(th)
      PROVE  WordOwes'
    <2>1. theTask[th] \in Tasks
        BY <1>4, <1>t DEF InsertTimer
    <2>2. Placed /\ TypeOK
        BY DEF Custody, Placed, TypeOK
    <2>3. kAlive \in fEvents[theTask[th]]
        BY ONLY <2>1, <2>2, TaskIsAlive, th \in Threads
    <2> QED BY <1>4, <1>t, <2>1, <2>3 DEF InsertTimer
<1>5. CASE UNCHANGED <<fEvents, owed>>
    BY <1>5
<1>6. ASSUME NEW s \in Signalers,
             SignalEnQueue(s) \/ \E t \in Tasks : SignalFindsValid(s, t)
      PROVE  UNCHANGED <<fEvents, owed>>
    BY <1>6 DEF SignalEnQueue, SignalFindsValid
<1>7. ASSUME NEW th \in Threads,
             \/ \E t \in Tasks : TakeTimer(th, t)
             \/ TakeSignalled(th) \/ Quit(th) \/ EnterLock(th) \/ ResumeLock(th)
             \/ RunReadEvents(th) \/ DeleteTask(th)
             \/ \E outcome \in {"delete", "done", "timer"}, force, callLocked \in BOOLEAN :
                    RunReturns(th, outcome, force, callLocked)
      PROVE  UNCHANGED <<fEvents, owed>>
    BY <1>7 DEF TakeTimer, TakeSignalled, Take, Quit, EnterLock, ResumeLock,
                RunReadEvents, RunReturns, DeleteTask
<1>8. CASE RemoveThreads \/ LockWaitEnds \/ UNCHANGED vars
    BY <1>5, <1>8 DEF RemoveThreads, LockWaitEnds, vars
<1> HIDE DEF WordOwes
<1> QED BY <1>1, <1>2, <1>3, <1>4, <1>5, <1>6, <1>7, <1>8 DEF Next, RunStep

\* An event that was signalled stays in the word of a task that is alive until its
\* Run takes it (Task.cpp:88-89, 101, 275-278): no interleaving of Signal with
\* GetEvents or with the compare-and-store drops it.
THEOREM EventsAreKept == Spec => []NoEventLost
<1>1. Init => WordOwes
    BY DEF Init, WordOwes
<1>2. Custody /\ WordOwes /\ [Next]_vars => WordOwes'
    BY WordOwesStep
<1>3. TypeOK /\ WordOwes => NoEventLost
    BY DEF WordOwes, NoEventLost, TypeOK
<1>4. Custody => TypeOK
    BY DEF Custody
<1> QED BY <1>1, <1>2, <1>3, <1>4, CustodyInvariant, PTL DEF Spec

-----------------------------------------------------------------------------
\* What BoundTaskStays needs of a step: outside Run the binding is the one that
\* Task::Signal will obey, except while its thread waits for the lock.
Bound ==
    /\ \A t \in Tasks, th \in Threads :
           Holds(<<"queue", th>>, t) \/ Holds(<<"heap", th>>, t) \/ Holds(<<"thread", th>>, t)
               => boundTo[t] \in {None, th}
    /\ \A t \in Tasks :
           \/ boundTo[t] = None
           \/ fUseThisThread[t] = boundTo[t]
           \/ \E th \in Threads : theTask[th] = t /\ state[th] = "locking"

LEMMA BoundWhenMoved ==
    ASSUME Bound, UNCHANGED <<boundTo, fUseThisThread>>,
           NEW t0 \in Tasks, NEW to \in Places, Moves(t0, to),
           to[1] \in {"queue", "heap", "thread"} => boundTo[t0] \in {None, to[2]},
           \A th \in Threads : state[th] = "locking" => UNCHANGED <<theTask[th], state[th]>>
    PROVE  Bound'
<1>1. ASSUME NEW t \in Tasks, NEW th \in Threads, NEW kind \in {"queue", "heap", "thread"},
             Holds(<<kind, th>>, t)'
      PROVE  boundTo[t] \in {None, th}
    <2>1. <<kind, th>> \in Places
        BY HoldsByPlace
    <2>2. CASE t = t0
        <3>1. <<kind, th>> = to
            BY <1>1, <2>1, <2>2 DEF Moves
        <3>2. to[1] = kind /\ to[2] = th
            BY <3>1
        <3> QED BY <2>2, <3>2
    <2>3. CASE t # t0
        <3>1. Holds(<<kind, th>>, t)
            BY <1>1, <2>1, <2>3 DEF Moves
        <3> QED BY <3>1 DEF Bound
    <2> QED BY <2>2, <2>3
<1> QED BY <1>1 DEF Bound

LEMMA BoundWhenHeld ==
    ASSUME Bound, UNCHANGED <<boundTo, fUseThisThread>>,
           \A t \in Tasks, p \in Places : Holds(p, t)' => Holds(p, t),
           \A th \in Threads : state[th] = "locking" => UNCHANGED <<theTask[th], state[th]>>
    PROVE  Bound'
BY HoldsByPlace DEF Bound

\* Where a task is, seen from the thread that has it.
LEMMA OnlyThisThread ==
    ASSUME Unique, NEW th \in Threads, NEW t \in Tasks, theTask[th] = t,
           NEW x \in Threads
    PROVE  /\ ~ Holds(<<"queue", x>>, t) /\ ~ Holds(<<"heap", x>>, t)
           /\ Holds(<<"thread", x>>, t) => x = th
<1>1. Holds(<<"thread", th>>, t)
    BY HoldsByPlace
<1>2. \A p \in Places : Holds(p, t) => p = <<"thread", th>>
    BY <1>1, HoldsByPlace DEF Unique
<1> QED BY <1>2, HoldsByPlace

LEMMA BoundStep ==
    ASSUME Custody, Bound, [Next]_vars PROVE Bound'
<1> USE DEF taskVars, callVars, threadVars, history
<1>t. TypeOK /\ Busy /\ Unique /\ NoRepeats /\ Placed
    BY DEF Custody, Placed, TypeOK
<1>1. ASSUME NEW s \in Signalers, NEW t0 \in Tasks, NEW e \in Events,
             SignalSetEvents(s, t0, e)
      PROVE  Bound'
    <2>1. UNCHANGED <<boundTo, fUseThisThread, theTask, state>>
        BY <1>1 DEF SignalSetEvents
    <2>2. CASE UNCHANGED inHand
        <3>1. Stays
            BY <1>1, <1>t, <2>2, SignalStep
        <3> QED BY <2>1, <3>1, BoundWhenHeld DEF Stays
    <2>3. CASE /\ t0 \notin dangling
               /\ t0 \notin deleted => kAlive \notin fEvents[t0]
               /\ (\A p \in Places : ~ Holds(p, t0)) => Moves(t0, <<"signal", s>>)
        <3>1. \A p \in Places : ~ Holds(p, t0)
            BY <1>t, <2>3, PlacedIsAlive
        <3>2. Moves(t0, <<"signal", s>>) /\ <<"signal", s>> \in Places
            BY <2>3, <3>1, HoldsByPlace
        <3> QED BY ONLY Bound, <2>1, <3>2, t0 \in Tasks, BoundWhenMoved
    <2> QED BY <1>1, <1>t, <2>2, <2>3, SignalStep
<1>2. ASSUME NEW s \in Signalers, SignalEnQueue(s)
      PROVE  Bound'
    <2> DEFINE t0 == inHand[s]
    <2>1. /\ t0 \in Tasks
          /\ Holds(<<"signal", s>>, t0)
          /\ \E th \in Threads : th \in ThreadsFor(t0) /\ Moves(t0, <<"queue", th>>)
        BY <1>2, <1>t, EnQueueStep
    <2>u. UNCHANGED <<boundTo, fUseThisThread, theTask, state>>
        BY <1>2 DEF SignalEnQueue
    <2> HIDE DEF t0
    <2>2. PICK th \in Threads : th \in ThreadsFor(t0) /\ Moves(t0, <<"queue", th>>)
        BY <2>1
    <2>3. \A x \in Threads : theTask[x] # t0
        <3>1. ASSUME NEW x \in Threads, theTask[x] = t0
              PROVE  FALSE
            <4>1. Holds(<<"thread", x>>, t0)
                BY <3>1, HoldsByPlace
            <4>2. <<"thread", x>> # <<"signal", s>>
                OBVIOUS
            <4> QED BY <1>t, <2>1, <4>1, <4>2, HoldsByPlace DEF Unique
        <3> QED BY <3>1
    <2>4. boundTo[t0] = None \/ fUseThisThread[t0] = boundTo[t0]
        BY <2>1, <2>3 DEF Bound
    <2>5. boundTo[t0] \in {None, th}
        BY <2>2, <2>4 DEF ThreadsFor
    <2>6. <<"queue", th>> \in Places
        BY HoldsByPlace
    <2> QED BY ONLY Bound, <2>1, <2>2, <2>5, <2>6, <2>u, BoundWhenMoved
<1>d. \* A thread takes a task that it had in its queue or its heap.
      ASSUME NEW th \in Threads, NEW t0 \in Tasks,
             Holds(<<"queue", th>>, t0) \/ Holds(<<"heap", th>>, t0),
             t0 \notin deleted => Moves(t0, <<"thread", th>>),
             t0 \in deleted => Leaves(t0),
             UNCHANGED <<boundTo, fUseThisThread>>,
             \A x \in Threads : state[x] = "locking" => UNCHANGED <<theTask[x], state[x]>>
      PROVE  Bound'
    <2>1. boundTo[t0] \in {None, th}
        BY <1>d DEF Bound
    <2>2. <<"thread", th>> \in Places
        BY HoldsByPlace
    <2>3. CASE t0 \notin deleted
        BY ONLY Bound, <1>d, <2>1, <2>2, <2>3, BoundWhenMoved
    <2>4. CASE t0 \in deleted
        BY <1>d, <2>4, BoundWhenHeld DEF Leaves
    <2> QED BY <2>3, <2>4
<1>3. ASSUME NEW th \in Threads, NEW t0 \in Tasks, TakeTimer(th, t0)
      PROVE  Bound'
    <2>1. /\ Holds(<<"heap", th>>, t0)
          /\ t0 \notin deleted => Moves(t0, <<"thread", th>>)
          /\ t0 \in deleted => Leaves(t0)
        BY <1>3, <1>t, TakeTimerStep
    <2>2. /\ UNCHANGED <<boundTo, fUseThisThread>>
          /\ \A x \in Threads : state[x] = "locking" => UNCHANGED <<theTask[x], state[x]>>
        BY <1>3, <1>t DEF TakeTimer, Take, TypeOK
    <2> QED BY <1>d, <2>1, <2>2
<1>4. ASSUME NEW th \in Threads, TakeSignalled(th)
      PROVE  Bound'
    <2> DEFINE t0 == Head(fTaskQueue[th])
    <2>1. /\ t0 \in Tasks /\ Holds(<<"queue", th>>, t0)
          /\ t0 \notin deleted => Moves(t0, <<"thread", th>>)
          /\ t0 \in deleted => Leaves(t0)
        BY <1>4, <1>t, TakeSignalledStep
    <2> HIDE DEF t0
    <2>2. /\ UNCHANGED <<boundTo, fUseThisThread>>
          /\ \A x \in Threads : state[x] = "locking" => UNCHANGED <<theTask[x], state[x]>>
        BY <1>4, <1>t DEF TakeSignalled, Take, TypeOK
    <2> QED BY <1>d, <2>1, <2>2
<1>5. ASSUME NEW th \in Threads, EnterLock(th)
      PROVE  Bound'
    <2>1. /\ theTask[th] \in Tasks
          /\ UNCHANGED <<boundTo, inHand, fTaskQueue, fHeap, theTask>>
          /\ fUseThisThread' = [fUseThisThread EXCEPT ![theTask[th]] = None]
          /\ state' = [state EXCEPT ![th] = "locking"]
        BY <1>5, <1>t DEF EnterLock, TypeOK, Busy
    <2>2. Stays
        BY <2>1, StaysWhenUntouched
    <2>3. \A x \in Threads : state[x] = "locking" => state'[x] = "locking"
        BY <1>t, <2>1 DEF TypeOK
    <2>4. state'[th] = "locking"
        BY <1>t, <2>1 DEF TypeOK
    <2>5. \A t \in Tasks : t # theTask[th] => fUseThisThread'[t] = fUseThisThread[t]
        BY <1>t, <2>1 DEF TypeOK
    <2>6. \A t \in Tasks :
              \/ boundTo[t] = None
              \/ fUseThisThread'[t] = boundTo[t]
              \/ \E x \in Threads : theTask[x] = t /\ state'[x] = "locking"
        BY <2>1, <2>3, <2>4, <2>5 DEF Bound
    <2> QED BY <2>1, <2>2, <2>6, HoldsByPlace DEF Bound, Stays
<1>6. ASSUME NEW th \in Threads, RunReadEvents(th)
      PROVE  Bound'
    <2>1. /\ theTask[th] \in Tasks
          /\ UNCHANGED <<fUseThisThread, inHand, fTaskQueue, fHeap, theTask>>
          /\ boundTo' = [boundTo EXCEPT ![theTask[th]] = None]
          /\ state' = [state EXCEPT ![th] = "run: events read"]
        BY <1>6, <1>t DEF RunReadEvents, TypeOK, Busy
    <2>2. Stays
        BY <2>1, StaysWhenUntouched
    <2>3. /\ boundTo'[theTask[th]] = None
          /\ \A t \in Tasks : t # theTask[th] => boundTo'[t] = boundTo[t]
        BY <1>t, <2>1 DEF TypeOK
    <2>4. \A x \in Threads : x # th => state'[x] = state[x]
        BY <1>t, <2>1 DEF TypeOK
    <2>5. ASSUME NEW t \in Tasks, boundTo'[t] # None, fUseThisThread[t] # boundTo'[t]
          PROVE  \E x \in Threads : theTask[x] = t /\ state'[x] = "locking"
        <3>1. t # theTask[th] /\ boundTo'[t] = boundTo[t]
            BY <2>3, <2>5
        <3>2. PICK x \in Threads : theTask[x] = t /\ state[x] = "locking"
            BY <2>5, <3>1 DEF Bound
        <3> QED BY <2>4, <3>1, <3>2
    <2>6. \A t \in Tasks, x \in Threads : boundTo[t] \in {None, x} => boundTo'[t] \in {None, x}
        BY <2>3
    <2>7. \A t \in Tasks, x \in Threads :
              /\ Holds(<<"queue", x>>, t)' <=> Holds(<<"queue", x>>, t)
              /\ Holds(<<"heap", x>>, t)' <=> Holds(<<"heap", x>>, t)
              /\ Holds(<<"thread", x>>, t)' <=> Holds(<<"thread", x>>, t)
        BY <2>2, HoldsByPlace DEF Stays
    <2>8. ASSUME NEW t \in Tasks, NEW x \in Threads,
                 Holds(<<"queue", x>>, t)' \/ Holds(<<"heap", x>>, t)'
                     \/ Holds(<<"thread", x>>, t)'
          PROVE  boundTo'[t] \in {None, x}
        <3>1. boundTo[t] \in {None, x}
            BY <2>7, <2>8 DEF Bound
        <3> QED BY <2>6, <3>1
    <2>9. UNCHANGED <<fUseThisThread, theTask>>
        BY <2>1
    <2> QED BY ONLY <2>5, <2>8, <2>9 DEF Bound
<1>7. ASSUME NEW th \in Threads, NEW outcome \in {"delete", "done", "timer"},
             NEW force \in BOOLEAN, NEW callLocked \in BOOLEAN,
             RunReturns(th, outcome, force, callLocked)
      PROVE  Bound'
    <2> DEFINE t0 == theTask[th]
    <2>1. /\ t0 \in Tasks
          /\ UNCHANGED <<inHand, fTaskQueue, fHeap, theTask>>
          /\ fUseThisThread' = [fUseThisThread EXCEPT ![t0] = IF force THEN th ELSE @]
          /\ boundTo' = [boundTo EXCEPT ![t0] = IF force THEN th ELSE None]
          /\ state[th] = "run"
          /\ state' = [state EXCEPT ![th] = "returned"]
        BY <1>7, <1>t DEF RunReturns, TypeOK, Busy
    <2>2. Stays
        BY <2>1, StaysWhenUntouched
    <2>3. /\ \A t \in Tasks : t # t0 => boundTo'[t] = boundTo[t]
          /\ \A t \in Tasks : t # t0 => fUseThisThread'[t] = fUseThisThread[t]
          /\ boundTo'[t0] = IF force THEN th ELSE None
          /\ force => fUseThisThread'[t0] = th
        BY <1>t, <2>1 DEF TypeOK
    <2>4. \A x \in Threads : state[x] = "locking" => state'[x] = "locking"
        BY <1>t, <2>1 DEF TypeOK
    <2>5. \A t \in Tasks :
              \/ boundTo'[t] = None
              \/ fUseThisThread'[t] = boundTo'[t]
              \/ \E x \in Threads : theTask[x] = t /\ state'[x] = "locking"
        BY <2>3, <2>4 DEF Bound
    <2>6. ASSUME NEW t \in Tasks, NEW x \in Threads,
                 \/ Holds(<<"queue", x>>, t)
                 \/ Holds(<<"heap", x>>, t)
                 \/ Holds(<<"thread", x>>, t)
          PROVE  boundTo'[t] \in {None, x}
        <3>1. CASE t = t0
            <4>1. x = th
                BY <1>t, <2>1, <2>6, <3>1, OnlyThisThread
            <4> QED BY <2>3, <3>1, <4>1
        <3>2. CASE t # t0
            BY <2>3, <2>6, <3>2 DEF Bound
        <3> QED BY <3>1, <3>2
    <2> QED BY <2>1, <2>2, <2>5, <2>6, HoldsByPlace DEF Bound, Stays
<1>8. ASSUME NEW th \in Threads, DeleteTask(th) \/ CompareAndStore(th)
      PROVE  Bound'
    <2>1. /\ UNCHANGED <<boundTo, fUseThisThread, inHand, fTaskQueue, fHeap>>
          /\ theTask' = [theTask EXCEPT ![th] = None] \/ UNCHANGED theTask
          /\ state[th] = "returned"
          /\ \/ state' = [state EXCEPT ![th] = "waiting for a task"]
             \/ state' = [state EXCEPT ![th] = "has a task"]
        BY <1>8 DEF DeleteTask, CompareAndStore, LetGo
    <2>2. \A x \in Threads : state[x] = "locking" => UNCHANGED <<theTask[x], state[x]>>
        BY <1>t, <2>1 DEF TypeOK
    <2>3. \A t \in Tasks, x \in Threads : theTask'[x] = t => theTask[x] = t
        <3>1. theTask \in [Threads -> Tasks \cup {None}] /\ None \notin Tasks
            BY <1>t, ConstantsAssumption DEF TypeOK
        <3>2. CASE theTask' = [theTask EXCEPT ![th] = None]
            BY ONLY <3>1, <3>2
        <3>3. CASE UNCHANGED theTask
            BY <3>3
        <3> QED BY <2>1, <3>2, <3>3
    <2>u. /\ UNCHANGED <<inHand, fHeap>>
          /\ \A x, t : Queued(x, t)' <=> Queued(x, t)
        BY <2>1 DEF Queued
    <2>4. ASSUME NEW t \in Tasks, NEW p \in Places, Holds(p, t)'
          PROVE  Holds(p, t)
        <3>1. CASE \E x \in Signalers : p = <<"signal", x>>
            BY <2>u, <2>4, <3>1, HoldsByPlace, HoldsByPlacePrimed
        <3>2. CASE \E x \in Threads : p = <<"queue", x>>
            BY <2>u, <2>4, <3>2, HoldsByPlace, HoldsByPlacePrimed
        <3>3. CASE \E x \in Threads : p = <<"heap", x>>
            BY <2>u, <2>4, <3>3, HoldsByPlace, HoldsByPlacePrimed
        <3>4. CASE \E x \in Threads : p = <<"thread", x>>
            BY <2>3, <2>4, <3>4, HoldsByPlace, HoldsByPlacePrimed
        <3> QED BY <3>1, <3>2, <3>3, <3>4, PlaceCases
    <2> QED BY <2>1, <2>2, <2>4, BoundWhenHeld
<1>9. ASSUME NEW th \in Threads, InsertTimer(th)
      PROVE  Bound'
    <2>1. /\ theTask[th] \in Tasks
          /\ theTask' = [theTask EXCEPT ![th] = None]
          /\ UNCHANGED <<inHand, fTaskQueue, boundTo, fUseThisThread>>
          /\ fHeap' = [fHeap EXCEPT ![th] = @ \cup {theTask[th]}]
          /\ state[th] = "returned"
          /\ state' = [state EXCEPT ![th] = "waiting for a task"]
        BY <1>9, <1>t DEF InsertTimer, LetGo, TypeOK, Busy
    <2>2. Holds(<<"thread", th>>, theTask[th]) /\ Moves(theTask[th], <<"heap", th>>)
        BY <1>t, <2>1, LetGoStep
    <2>3. boundTo[theTask[th]] \in {None, th} /\ <<"heap", th>> \in Places
        BY <2>1, <2>2, HoldsByPlace DEF Bound
    <2>4. \A x \in Threads : state[x] = "locking" => UNCHANGED <<theTask[x], state[x]>>
        BY <1>t, <2>1 DEF TypeOK
    <2> QED BY ONLY Bound, <2>1, <2>2, <2>3, <2>4, BoundWhenMoved
<1>10. ASSUME NEW th \in Threads, Quit(th) \/ RunSubtractEvents(th)
       PROVE  Bound'
    <2>1. /\ UNCHANGED <<boundTo, fUseThisThread, inHand, fTaskQueue, fHeap, theTask>>
          /\ \A x \in Threads : state[x] = "locking" => UNCHANGED state[x]
        BY <1>10, <1>t DEF Quit, RunSubtractEvents, TypeOK
    <2>2. Stays
        BY <2>1, StaysWhenUntouched
    <2> QED BY <2>1, <2>2, BoundWhenHeld DEF Stays
<1>11. CASE UNCHANGED <<boundTo, fUseThisThread, inHand, fTaskQueue, fHeap, theTask, state>>
    <2>1. Stays
        BY <1>11, StaysWhenUntouched
    <2> QED BY <1>11, <2>1, BoundWhenHeld DEF Stays
<1>12. (\E s \in Signalers, t \in Tasks : SignalFindsValid(s, t))
              \/ (\E th \in Threads : ResumeLock(th))
              \/ RemoveThreads \/ LockWaitEnds \/ UNCHANGED vars
            => UNCHANGED <<boundTo, fUseThisThread, inHand, fTaskQueue, fHeap, theTask, state>>
    BY DEF SignalFindsValid, ResumeLock, RemoveThreads, LockWaitEnds, vars
<1> QED BY <1>1, <1>2, <1>3, <1>4, <1>5, <1>6, <1>7, <1>8, <1>9, <1>10, <1>11,
           <1>12 DEF Next, RunStep

\* A task that asked for its thread (ForceSameThread, Task.h:112-124) is queued,
\* timed and run there and nowhere else until that Run.
THEOREM BoundTaskDoesNotMove == Spec => []BoundTaskStays
<1>1. Init => Bound
    <2> SUFFICES ASSUME Init PROVE Bound
        OBVIOUS
    <2>1. \A t \in Tasks : boundTo[t] = None
        BY DEF Init
    <2> QED BY <2>1 DEF Bound
<1>2. Custody /\ Bound /\ [Next]_vars => Bound'
    BY BoundStep
<1>3. Bound => BoundTaskStays
    BY DEF Bound, BoundTaskStays
<1> QED BY <1>1, <1>2, <1>3, CustodyInvariant, PTL DEF Spec

-----------------------------------------------------------------------------
(* The scheduler implements TaskService.  Begin is the step of GetEvents that  *)
(* reads the word, End the return of Run; every other step but Signal and the  *)
(* deletion is a stutter.  The step relies on Custody, which keeps a second    *)
(* thread out of Run, and on WordOwes, by which the word holds what is owed.   *)

Kept == Custody /\ WordOwes

LEMMA KeptInvariant == Spec => []Kept
<1>1. Init => WordOwes
    BY DEF WordOwes, Init
<1>2. Custody /\ WordOwes /\ [Next]_vars => WordOwes'
    BY WordOwesStep
<1>3. Kept <=> Custody /\ WordOwes
    BY DEF Kept
<1> QED BY <1>1, <1>2, <1>3, CustodyInvariant, PTL DEF Spec

-----------------------------------------------------------------------------
\* A step that neither signals nor deletes, and leaves alone who is in Run, who
\* asked for deletion and what is being taken, is a stutter of the promise.
LEMMA QuietStep ==
    ASSUME UNCHANGED <<owed, deleted>>, LeavingTasks' = LeavingTasks,
           \A th \in Threads : InRun(th)' <=> InRun(th),
           \A th \in Threads : InRun(th) =>
               UNCHANGED <<state[th], theTask[th], got[th]>>
    PROVE  UNCHANGED service!vars
<1>1. \A th \in Threads : /\ state'[th] = "run: events read" => InRun(th)
                          /\ state[th] = "run: events read" => InRun(th)
    BY DEF InRun
<1>2. RunningTasks' = RunningTasks
    BY DEF RunningTasks
<1>3. ASSUME NEW t PROVE BeingTaken(t)' = BeingTaken(t)
    <2>1. \A th \in Threads :
              state'[th] = "run: events read" /\ theTask'[th] = t
                  <=> state[th] = "run: events read" /\ theTask[th] = t
        BY <1>1
    <2>2. \A th \in Threads :
              state[th] = "run: events read" => got'[th] = got[th]
        BY <1>1
    <2> QED BY <2>1, <2>2 DEF BeingTaken
<1>4. PendingEvents' = PendingEvents
    BY <1>3 DEF PendingEvents
<1> QED BY <1>2, <1>4 DEF service!vars

\* The task of a thread inside Run, or on its way there, is with this thread only.
LEMMA OneThreadPerTask ==
    ASSUME Custody, NEW th \in Threads, NEW x \in Threads,
           theTask[th] \in Tasks, theTask[x] = theTask[th]
    PROVE  x = th /\ theTask[th] \notin deleted
<1>1. /\ <<"thread", th>> \in Places /\ Holds(<<"thread", th>>, theTask[th])
      /\ <<"thread", x>> \in Places /\ Holds(<<"thread", x>>, theTask[th])
    BY HoldsByPlace
<1>2. <<"thread", th>> = <<"thread", x>>
    BY <1>1 DEF Custody, Unique
<1>3. theTask[th] \notin deleted
    BY DEF Custody, DeadAreIdle
<1> QED BY <1>2, <1>3

\* Signal adds an event; if the same event is being taken, or the task was
\* deleted meanwhile, nothing changes.
LEMMA SignalKeepsPromise ==
    ASSUME Kept, NEW s \in Signalers, NEW t0 \in Tasks, NEW e \in Events,
           SignalSetEvents(s, t0, e)
    PROVE  service!Signal(t0, e) \/ UNCHANGED service!vars
<1>1. UNCHANGED <<deleted, state, theTask, got, timeout>>
    BY DEF SignalSetEvents, threadVars
<1>2. owed \in [Tasks -> SUBSET Events]
    BY DEF Kept, Custody, TypeOK
<1>3. /\ RunningTasks' = RunningTasks /\ LeavingTasks' = LeavingTasks
      /\ \A t : BeingTaken(t)' = BeingTaken(t)
    BY <1>1 DEF RunningTasks, LeavingTasks, InRun, BeingTaken
<1>4. CASE t0 \in deleted
    <2>1. owed' = owed
        BY <1>4 DEF SignalSetEvents
    <2> QED BY <1>1, <1>3, <2>1 DEF service!vars, PendingEvents
<1>5. CASE t0 \notin deleted /\ e \in BeingTaken(t0)
    <2>1. owed' = [owed EXCEPT ![t0] = @ \cup {e}]
        BY <1>5 DEF SignalSetEvents
    <2>2. PendingEvents' = PendingEvents
        BY <1>2, <1>3, <1>5, <2>1 DEF PendingEvents
    <2> QED BY <1>1, <1>3, <2>2 DEF service!vars
<1>6. CASE t0 \notin deleted /\ e \notin BeingTaken(t0)
    <2>1. owed' = [owed EXCEPT ![t0] = @ \cup {e}]
        BY <1>6 DEF SignalSetEvents
    <2>2. PendingEvents' = [PendingEvents EXCEPT ![t0] = @ \cup {e}]
        BY <1>2, <1>3, <1>6, <2>1 DEF PendingEvents
    <2> QED BY <1>1, <1>3, <1>6, <2>2 DEF service!Signal
<1> QED BY <1>4, <1>5, <1>6

\* GetEvents reads the word: Run begins, and all that is owed is in the word.
LEMMA ReadKeepsPromise ==
    ASSUME Kept, NEW th \in Threads, RunReadEvents(th)
    PROVE  service!Begin(theTask[th])
<1> DEFINE t0 == theTask[th]
<1>1. /\ state[th] = "locking"
      /\ state' = [state EXCEPT ![th] = "run: events read"]
      /\ got' = [got EXCEPT ![th] = fEvents[t0] \ {kAlive}]
      /\ UNCHANGED <<owed, deleted, theTask, timeout>>
    BY DEF RunReadEvents, EventsOf, taskVars
<1>2. /\ state \in [Threads -> ThreadStates]
      /\ got \in [Threads -> SUBSET (Flags \ {kAlive})]
      /\ owed \in [Tasks -> SUBSET Events]
      /\ t0 \in Tasks
    BY <1>1 DEF Kept, Custody, TypeOK, Busy
<1>3. \A x \in Threads : theTask[x] = t0 => x = th
    BY <1>2, OneThreadPerTask DEF Kept
<1>4. t0 \notin deleted
    BY <1>2, OneThreadPerTask DEF Kept
<1>5. t0 \notin RunningTasks \cup LeavingTasks /\ LeavingTasks' = LeavingTasks
    <2>1. t0 \notin RunningTasks
        BY <1>1, <1>3 DEF RunningTasks, InRun
    <2>2. t0 \notin LeavingTasks
        BY <1>1, <1>3 DEF LeavingTasks, Kept, Custody, Busy
    <2> QED BY <1>1, <2>1, <2>2 DEF LeavingTasks
<1>6. RunningTasks' = RunningTasks \cup {t0}
    BY <1>1, <1>2 DEF RunningTasks, InRun
<1>7. owed[t0] \subseteq fEvents[t0] \ {kAlive}
    BY <1>2, ConstantsAssumption DEF Kept, WordOwes
<1>8. ASSUME NEW t \in Tasks
      PROVE  PendingEvents'[t] = IF t = t0 THEN {} ELSE PendingEvents[t]
    <2>1. CASE t = t0
        <3>1. fEvents[t0] \ {kAlive} \subseteq BeingTaken(t0)'
            BY <1>1, <1>2 DEF BeingTaken
        <3> QED BY <1>1, <1>7, <2>1, <3>1 DEF PendingEvents
    <2>2. CASE t # t0
        <3>1. \A x \in Threads : theTask[x] = t => x # th
            BY <2>2
        <3>2. BeingTaken(t)' = BeingTaken(t)
            BY <1>1, <1>2, <3>1 DEF BeingTaken
        <3> QED BY <1>1, <2>2, <3>2 DEF PendingEvents
    <2> QED BY <2>1, <2>2
<1>9. PendingEvents' = [PendingEvents EXCEPT ![t0] = {}]
    BY <1>8 DEF PendingEvents
<1> QED BY <1>1, <1>4, <1>5, <1>6, <1>9 DEF service!Begin

\* GetEvents subtracts what it has read: the promise had it taken already.
LEMMA SubtractKeepsPromise ==
    ASSUME Kept, NEW th \in Threads, RunSubtractEvents(th)
    PROVE  UNCHANGED service!vars
<1> DEFINE t0 == theTask[th]
<1>1. /\ state[th] = "run: events read"
      /\ state' = [state EXCEPT ![th] = "run"]
      /\ owed' = [owed EXCEPT ![t0] = @ \ got[th]]
      /\ UNCHANGED <<got, deleted, theTask, timeout>>
    BY DEF RunSubtractEvents
<1>2. /\ state \in [Threads -> ThreadStates]
      /\ owed \in [Tasks -> SUBSET Events]
      /\ t0 \in Tasks
    BY <1>1 DEF Kept, Custody, TypeOK, Busy
<1>3. \A x \in Threads : theTask[x] = t0 => x = th
    BY <1>2, OneThreadPerTask DEF Kept
<1>4. RunningTasks' = RunningTasks /\ LeavingTasks' = LeavingTasks
    BY <1>1, <1>2 DEF RunningTasks, LeavingTasks, InRun
<1>5. ASSUME NEW t \in Tasks
      PROVE  PendingEvents'[t] = PendingEvents[t]
    <2>1. CASE t = t0
        <3>1. BeingTaken(t0) = got[th]
            BY <1>1, <1>3 DEF BeingTaken
        <3>2. BeingTaken(t0)' = {}
            BY <1>1, <1>2, <1>3 DEF BeingTaken
        <3> QED BY <1>1, <1>2, <2>1, <3>1, <3>2 DEF PendingEvents
    <2>2. CASE t # t0
        <3>1. \A x \in Threads : theTask[x] = t => x # th
            BY <2>2
        <3>2. BeingTaken(t)' = BeingTaken(t)
            BY <1>1, <1>2, <3>1 DEF BeingTaken
        <3> QED BY <1>1, <1>2, <2>2, <3>2 DEF PendingEvents
    <2> QED BY <2>1, <2>2
<1>6. PendingEvents' = PendingEvents
    BY <1>5 DEF PendingEvents
<1> QED BY <1>1, <1>4, <1>6 DEF service!vars

\* Run returns, and may have asked for the deletion of its task.
LEMMA ReturnKeepsPromise ==
    ASSUME Kept, NEW th \in Threads, NEW outcome \in {"delete", "done", "timer"},
           NEW force \in BOOLEAN, NEW callLocked \in BOOLEAN,
           RunReturns(th, outcome, force, callLocked)
    PROVE  service!End(theTask[th])
<1> DEFINE t0 == theTask[th]
<1>1. /\ state[th] = "run"
      /\ state' = [state EXCEPT ![th] = "returned"]
      /\ got' = [got EXCEPT ![th] = {}]
      /\ timeout' = [timeout EXCEPT ![th] = outcome]
      /\ UNCHANGED <<owed, deleted, theTask>>
    BY DEF RunReturns
<1>2. /\ state \in [Threads -> ThreadStates]
      /\ got \in [Threads -> SUBSET (Flags \ {kAlive})]
      /\ timeout \in [Threads -> {"none", "delete", "done", "timer"}]
      /\ timeout[th] = "none"
      /\ t0 \in Tasks
    BY <1>1 DEF Kept, Custody, TypeOK, Busy
<1>3. \A x \in Threads : theTask[x] = t0 => x = th
    BY <1>2, OneThreadPerTask DEF Kept
<1>4. t0 \in RunningTasks /\ RunningTasks' = RunningTasks \ {t0}
    BY <1>1, <1>2, <1>3 DEF RunningTasks, InRun
<1>5. \A t : BeingTaken(t)' = BeingTaken(t)
    BY <1>1, <1>2 DEF BeingTaken
<1>6. PendingEvents' = PendingEvents
    BY <1>1, <1>5 DEF PendingEvents
<1>7. LeavingTasks' \in {LeavingTasks, LeavingTasks \cup {t0}}
    <2>1. \A x \in Threads : x # th => timeout'[x] = timeout[x]
        BY <1>1, <1>2
    <2>2. timeout'[th] = outcome
        BY <1>1, <1>2
    <2>3. CASE outcome = "delete"
        BY <1>1, <1>2, <2>1, <2>2, <2>3 DEF LeavingTasks
    <2>4. CASE outcome # "delete"
        BY <1>1, <1>2, <2>1, <2>2, <2>4 DEF LeavingTasks
    <2> QED BY <2>3, <2>4
<1> QED BY <1>1, <1>4, <1>6, <1>7 DEF service!End

\* The thread deletes the task whose last Run asked for it.
LEMMA DeleteKeepsPromise ==
    ASSUME Kept, NEW th \in Threads, DeleteTask(th)
    PROVE  service!Delete(theTask[th])
<1> DEFINE t0 == theTask[th]
<1>1. /\ state[th] = "returned" /\ timeout[th] = "delete"
      /\ state' = [state EXCEPT ![th] = "waiting for a task"]
      /\ theTask' = [theTask EXCEPT ![th] = None]
      /\ timeout' = [timeout EXCEPT ![th] = "none"]
      /\ deleted' = deleted \cup {t0}
      /\ UNCHANGED <<owed, got>>
    BY DEF DeleteTask, LetGo, history
<1>2. /\ state \in [Threads -> ThreadStates]
      /\ theTask \in [Threads -> Tasks \cup {None}]
      /\ timeout \in [Threads -> {"none", "delete", "done", "timer"}]
      /\ t0 \in Tasks
    BY <1>1 DEF Kept, Custody, TypeOK, Busy
<1>3. \A x \in Threads : theTask[x] = t0 => x = th
    BY <1>2, OneThreadPerTask DEF Kept
<1>4. RunningTasks' = RunningTasks
    BY <1>1, <1>2 DEF RunningTasks, InRun
<1>5. ASSUME NEW t PROVE BeingTaken(t)' = BeingTaken(t)
    <2>1. \A x \in Threads :
              state'[x] = "run: events read" /\ theTask'[x] = t
                  <=> state[x] = "run: events read" /\ theTask[x] = t
        BY <1>1, <1>2
    <2> QED BY <1>1, <2>1 DEF BeingTaken
<1>6. PendingEvents' = PendingEvents
    BY <1>1, <1>5 DEF PendingEvents
<1>7. t0 \in LeavingTasks /\ LeavingTasks' = LeavingTasks \ {t0}
    <2>1. \A x \in Threads, t \in Tasks :
              timeout'[x] = "delete" /\ theTask'[x] = t
                  <=> timeout[x] = "delete" /\ theTask[x] = t /\ x # th
        BY <1>1, <1>2
    <2>2. LeavingTasks' = {t \in Tasks : \E x \in Threads :
                               timeout[x] = "delete" /\ theTask[x] = t /\ x # th}
        BY <2>1 DEF LeavingTasks
    <2>3. \A t \in Tasks, x \in Threads : theTask[x] = t => (t = t0 <=> x = th)
        BY <1>2, <1>3
    <2>4. ASSUME NEW t \in Tasks
          PROVE  t \in LeavingTasks' <=> t \in LeavingTasks /\ t # t0
        BY <2>2, <2>3 DEF LeavingTasks
    <2>5. t0 \in LeavingTasks
        BY <1>1, <1>2 DEF LeavingTasks
    <2>6. LeavingTasks \subseteq Tasks /\ LeavingTasks' \subseteq Tasks
        BY DEF LeavingTasks
    <2> QED BY ONLY <2>4, <2>5, <2>6
<1> QED BY <1>1, <1>4, <1>6, <1>7 DEF service!Delete

LEMMA StepKeepsPromise ==
    ASSUME Kept, [Next]_vars PROVE [service!Next]_(service!vars)
<1>t. /\ state \in [Threads -> ThreadStates]
      /\ theTask \in [Threads -> Tasks \cup {None}]
      /\ timeout \in [Threads -> {"none", "delete", "done", "timer"}]
      /\ \A th \in Threads : timeout[th] # "none" <=> state[th] = "returned"
      /\ \A th \in Threads : state[th] \in {"locking", "run", "returned"}
             => theTask[th] \in Tasks
    BY DEF Kept, Custody, TypeOK, Busy
<1>1. ASSUME NEW s \in Signalers, NEW t \in Tasks, NEW e \in Events,
             SignalSetEvents(s, t, e)
      PROVE  [service!Next]_(service!vars)
    BY <1>1, SignalKeepsPromise DEF service!Next
<1>2. ASSUME NEW th \in Threads, RunReadEvents(th)
      PROVE  service!Next
    <2>1. theTask[th] \in Tasks
        BY <1>2, <1>t DEF RunReadEvents
    <2> QED BY <1>2, <2>1, ReadKeepsPromise DEF service!Next
<1>3. ASSUME NEW th \in Threads, RunSubtractEvents(th)
      PROVE  UNCHANGED service!vars
    BY <1>3, SubtractKeepsPromise
<1>4. ASSUME NEW th \in Threads, NEW outcome \in {"delete", "done", "timer"},
             NEW force \in BOOLEAN, NEW callLocked \in BOOLEAN,
             RunReturns(th, outcome, force, callLocked)
      PROVE  service!Next
    <2>1. theTask[th] \in Tasks
        BY <1>4, <1>t DEF RunReturns
    <2> QED BY <1>4, <2>1, ReturnKeepsPromise DEF service!Next
<1>5. ASSUME NEW th \in Threads, DeleteTask(th)
      PROVE  service!Next
    <2>1. theTask[th] \in Tasks
        BY <1>5, <1>t DEF DeleteTask
    <2> QED BY <1>5, <2>1, DeleteKeepsPromise DEF service!Next
\* The steps between two Runs touch a thread that is not inside Run.
<1>6. ASSUME NEW th \in Threads,
             \/ EnterLock(th) \/ CompareAndStore(th) \/ InsertTimer(th)
             \/ \E t \in Tasks : TakeTimer(th, t)
             \/ TakeSignalled(th) \/ Quit(th)
      PROVE  UNCHANGED service!vars
    <2>1. /\ UNCHANGED <<owed, deleted, got>>
          /\ \A x \in Threads : x # th => UNCHANGED <<state[x], theTask[x], timeout[x]>>
          /\ ~ InRun(th) /\ ~ InRun(th)'
          /\ timeout[th] # "delete" /\ timeout'[th] # "delete"
        BY <1>6, <1>t DEF EnterLock, CompareAndStore, InsertTimer, TakeTimer,
           TakeSignalled, Take, Quit, LetGo, InRun, history, taskVars
    <2>2. \A x \in Threads : InRun(x)' <=> InRun(x)
        BY <2>1 DEF InRun
    <2>3. LeavingTasks' = LeavingTasks
        BY <2>1 DEF LeavingTasks
    <2> QED BY <2>1, <2>2, <2>3, QuietStep
<1>7. CASE \/ \E s \in Signalers :
                 SignalEnQueue(s) \/ \E t \in Tasks : SignalFindsValid(s, t)
           \/ \E th \in Threads : ResumeLock(th)
           \/ RemoveThreads \/ LockWaitEnds \/ UNCHANGED vars
    <2>1. UNCHANGED <<owed, deleted, got, state, theTask, timeout>>
        BY <1>7 DEF SignalEnQueue, SignalFindsValid, ResumeLock, RemoveThreads,
           LockWaitEnds, vars, taskVars, threadVars, history
    <2> QED BY <2>1, QuietStep DEF InRun, LeavingTasks
<1> QED BY <1>1, <1>2, <1>3, <1>4, <1>5, <1>6, <1>7 DEF Next, RunStep

\* The scheduler of Task.cpp is one Run at a time for each task, each with all the
\* events signalled since the last one; after a Run that returns -1, for whatever
\* reason, there is no other, and one deletion (Task.cpp:214-285).
THEOREM SchedulerKeepsPromise == Spec => KeepsPromise
<1>1. Init => service!Init
    <2> SUFFICES ASSUME Init PROVE service!Init
        OBVIOUS
    <2>1. /\ owed = [t \in Tasks |-> {}] /\ deleted = {}
          /\ \A th \in Threads : state[th] = "waiting for a task" /\ timeout[th] = "none"
        BY DEF Init
    <2> QED BY <2>1 DEF service!Init, PendingEvents, RunningTasks, LeavingTasks, InRun
<1>2. Kept /\ [Next]_vars => [service!Next]_(service!vars)
    BY StepKeepsPromise
<1> QED BY <1>1, <1>2, KeptInvariant, PTL DEF Spec, KeepsPromise, service!Spec

-----------------------------------------------------------------------------
(* A locked Run is alone.  The proof is one of OSMutexRW's: every step of the  *)
(* scheduler is a step of the lock or leaves it alone, so the invariants of    *)
(* the lock hold here; what is added is how the threads use it.                *)

lock == INSTANCE OSMutexRW_proofs
        WITH Readers <- {Reader(th) : th \in Threads},
             Writers <- {Writer(th) : th \in Threads},
             pc <- lockPc

LEMMA LockConstants ==
    /\ lock!IsFiniteSet({Reader(th) : th \in Threads})
    /\ lock!IsFiniteSet({Writer(th) : th \in Threads})
    /\ {Reader(th) : th \in Threads} \cap {Writer(th) : th \in Threads} = {}
<1> DEFINE r == [th \in Threads |-> Reader(th)]
           w == [th \in Threads |-> Writer(th)]
<1>1. r \in Surjection(Threads, {Reader(th) : th \in Threads})
    BY DEF Surjection
<1>2. w \in Surjection(Threads, {Writer(th) : th \in Threads})
    BY DEF Surjection
<1>3. /\ IsFiniteSet({Reader(th) : th \in Threads})
      /\ IsFiniteSet({Writer(th) : th \in Threads})
    BY <1>1, <1>2, FS_Surjection, ConstantsAssumption
<1>4. \A S : lock!IsFiniteSet(S) <=> IsFiniteSet(S)
    BY DEF IsFiniteSet, lock!IsFiniteSet
<1> QED BY <1>3, <1>4 DEF Reader, Writer

\* Every step of the scheduler is a step of the lock or leaves it alone.
LEMMA LockStep ==
    ASSUME [Next]_vars PROVE [lock!Next]_(lock!vars)
<1> USE DEF taskVars, threadVars, callVars, history
<1>1. ASSUME UNCHANGED lockVars PROVE UNCHANGED lock!vars
    BY <1>1 DEF lockVars, lock!vars
<1>2. ASSUME NEW th \in Threads, EnterLock(th) PROVE lock!Next
    <2>1. ASSUME sMutexRW!LockWrite(Writer(th)) PROVE lock!LockWrite(Writer(th))
        BY <2>1 DEF sMutexRW!LockWrite, lock!LockWrite, sMutexRW!ActiveReaders,
           lock!ActiveReaders, sMutexRW!WriterEnters, lock!WriterEnters,
           sMutexRW!eActiveWriterState, lock!eActiveWriterState,
           sMutexRW!Writing, lock!Writing
    <2>2. ASSUME sMutexRW!LockRead(Reader(th)) PROVE lock!LockRead(Reader(th))
        BY <2>2 DEF sMutexRW!LockRead, lock!LockRead, sMutexRW!MustWaitToRead,
           lock!MustWaitToRead, sMutexRW!ActiveWriter, lock!ActiveWriter,
           sMutexRW!WaitingWriters, lock!WaitingWriters
    <2> QED BY <1>2, <2>1, <2>2 DEF EnterLock, lock!Next
<1>3. ASSUME NEW th \in Threads, ResumeLock(th) PROVE lock!Next
    <2>1. ASSUME sMutexRW!LockWriteResume(Writer(th))
          PROVE  lock!LockWriteResume(Writer(th))
        BY <2>1 DEF sMutexRW!LockWriteResume, lock!LockWriteResume, sMutexRW!ActiveReaders,
           lock!ActiveReaders, sMutexRW!WriterEnters, lock!WriterEnters,
           sMutexRW!eActiveWriterState, lock!eActiveWriterState,
           sMutexRW!Writing, lock!Writing
    <2>2. ASSUME sMutexRW!LockReadResume(Reader(th))
          PROVE  lock!LockReadResume(Reader(th))
        BY <2>2 DEF sMutexRW!LockReadResume, lock!LockReadResume, sMutexRW!MustWaitToRead,
           lock!MustWaitToRead, sMutexRW!ActiveWriter, lock!ActiveWriter,
           sMutexRW!WaitingWriters, lock!WaitingWriters
    <2> QED BY <1>3, <2>1, <2>2 DEF ResumeLock, lock!Next
<1>4. ASSUME NEW th \in Threads, NEW outcome \in {"delete", "done", "timer"},
             NEW force \in BOOLEAN, NEW callLocked \in BOOLEAN,
             RunReturns(th, outcome, force, callLocked)
      PROVE  lock!Next
    <2>1. PICK x \in {Reader(th), Writer(th)} : sMutexRW!Unlock(x)
        BY <1>4 DEF RunReturns
    <2>2. lock!Unlock(x)
        BY <2>1 DEF sMutexRW!Unlock, lock!Unlock, sMutexRW!ActiveWriter, lock!ActiveWriter,
           sMutexRW!eNoWriterState, lock!eNoWriterState,
           sMutexRW!WakeAfterWriter, lock!WakeAfterWriter,
           sMutexRW!WaitingWriters, lock!WaitingWriters,
           sMutexRW!SignalWriters, lock!SignalWriters,
           sMutexRW!LeaveReading, lock!LeaveReading,
           sMutexRW!WakeAfterLastReader, lock!WakeAfterLastReader,
           sMutexRW!Inside, lock!Inside, sMutexRW!Reading, lock!Reading,
           sMutexRW!Writing, lock!Writing
    <2> QED BY <2>1, <2>2 DEF lock!Next, lock!Threads
<1>5. CASE LockWaitEnds
    <2>1. PICK x \in sMutexRW!Threads : sMutexRW!WakeByItself(x)
        BY <1>5 DEF LockWaitEnds
    <2>2. x \in lock!Threads /\ lock!WakeByItself(x)
        BY <2>1 DEF sMutexRW!WakeByItself, lock!WakeByItself, sMutexRW!Threads, lock!Threads
    <2> QED BY <2>2 DEF lock!Next
<1>6. CASE \/ \E s \in Signalers : \/ \E t \in Tasks : SignalFindsValid(s, t)
                                   \/ \E t \in Tasks, e \in Events : SignalSetEvents(s, t, e)
                                   \/ SignalEnQueue(s)
           \/ \E th \in Threads : \/ \E t \in Tasks : TakeTimer(th, t)
                                  \/ TakeSignalled(th) \/ Quit(th)
                                  \/ RunReadEvents(th) \/ RunSubtractEvents(th)
                                  \/ DeleteTask(th) \/ CompareAndStore(th) \/ InsertTimer(th)
           \/ RemoveThreads \/ UNCHANGED vars
    <2>1. UNCHANGED lockVars
        BY <1>6 DEF SignalFindsValid, SignalSetEvents, SignalEnQueue, TakeTimer, TakeSignalled,
           Take, Quit, RunReadEvents, RunSubtractEvents, DeleteTask, CompareAndStore,
           InsertTimer, RemoveThreads, vars
    <2> QED BY <1>1, <2>1
<1> QED BY <1>2, <1>3, <1>4, <1>5, <1>6 DEF Next, RunStep

\* The states in which a thread is inside the scope of its mutex locker.
InLocker(th) == state[th] \in {"locking", "run: events read", "run"}

\* Who may be at the lock: a thread inside its locker, in one of the two ways.
UsesLock(th) ==
    /\ lockPc[Reader(th)] = "out" \/ lockPc[Writer(th)] = "out"
    /\ InLocker(th) \/ (lockPc[Reader(th)] = "out" /\ lockPc[Writer(th)] = "out")
    /\ InRun(th) => HasLock(th)

LockUse == \A th \in Threads : UsesLock(th)

\* Each thread has its two identities at the lock to itself.
LEMMA LockIdentities ==
    /\ \A th \in Threads : Reader(th) \in lock!Threads /\ Writer(th) \in lock!Threads
    /\ \A th, other : Reader(th) # Writer(other)
    /\ \A th, other : Reader(th) = Reader(other) => th = other
    /\ \A th, other : Writer(th) = Writer(other) => th = other
BY DEF Reader, Writer, lock!Threads

\* A step of thread th at the lock, by the identity x.
LEMMA UseAfterLockStep ==
    ASSUME LockUse, lockPc \in [lock!Threads -> {"out", "waiting", "in"}],
           NEW th \in Threads, NEW x \in {Reader(th), Writer(th)},
           NEW v \in {"out", "waiting", "in"},
           lockPc' = [lockPc EXCEPT ![x] = v],
           \A other \in Threads \ {th} : state'[other] = state[other],
           UsesLock(th)'
    PROVE  LockUse'
<1> SUFFICES ASSUME NEW other \in Threads \ {th} PROVE UsesLock(other)'
    BY DEF LockUse
<1>1. /\ lockPc'[Reader(other)] = lockPc[Reader(other)]
      /\ lockPc'[Writer(other)] = lockPc[Writer(other)]
    BY LockIdentities
<1> QED BY <1>1 DEF LockUse, UsesLock, InLocker, InRun, HasLock

\* A step that leaves the lock alone.
LEMMA UseWhenLockUntouched ==
    ASSUME LockUse, UNCHANGED lockPc,
           \A th \in Threads : \/ state'[th] = state[th]
                               \/ ~ InLocker(th) /\ ~ InRun(th)'
    PROVE  LockUse'
BY DEF LockUse, UsesLock, InLocker, InRun, HasLock

LEMMA LockUseStep ==
    ASSUME TypeOK, lockPc \in [lock!Threads -> {"out", "waiting", "in"}],
           LockUse, [Next]_vars
    PROVE  LockUse'
<1> USE DEF taskVars, threadVars, callVars, lockVars, history
<1>t. state \in [Threads -> ThreadStates]
    BY DEF TypeOK
<1>1. CASE \/ \E s \in Signalers : \/ \E t \in Tasks : SignalFindsValid(s, t)
                                   \/ \E t \in Tasks, e \in Events : SignalSetEvents(s, t, e)
                                   \/ SignalEnQueue(s)
           \/ RemoveThreads \/ LockWaitEnds \/ UNCHANGED vars
    <2>1. UNCHANGED <<lockPc, state>>
        BY <1>1 DEF SignalFindsValid, SignalSetEvents, SignalEnQueue, RemoveThreads,
           LockWaitEnds, sMutexRW!WakeByItself, vars
    <2> QED BY <2>1, UseWhenLockUntouched
<1>2. ASSUME NEW th \in Threads,
             \/ \E t \in Tasks : TakeTimer(th, t)
             \/ TakeSignalled(th) \/ Quit(th)
             \/ DeleteTask(th) \/ CompareAndStore(th) \/ InsertTimer(th)
      PROVE  LockUse'
    <2>1. /\ UNCHANGED lockPc
          /\ state[th] \in {"waiting for a task", "returned"}
          /\ \E v \in {"waiting for a task", "has a task", "ended"} :
                 state' = [state EXCEPT ![th] = v]
        BY <1>2 DEF TakeTimer, TakeSignalled, Take, Quit, DeleteTask, CompareAndStore,
           InsertTimer, LetGo
    <2> QED BY <1>t, <2>1, UseWhenLockUntouched DEF InLocker, InRun
<1>3. ASSUME NEW th \in Threads, EnterLock(th)
      PROVE  LockUse'
    <2>1. /\ state[th] = "has a task" /\ state' = [state EXCEPT ![th] = "locking"]
          /\ \E x \in {Reader(th), Writer(th)}, v \in {"waiting", "in"} :
                 lockPc' = [lockPc EXCEPT ![x] = v]
        BY <1>3 DEF EnterLock, sMutexRW!LockWrite, sMutexRW!WriterEnters, sMutexRW!LockRead
    <2>2. PICK x \in {Reader(th), Writer(th)}, v \in {"waiting", "in"} :
              lockPc' = [lockPc EXCEPT ![x] = v]
        BY <2>1
    <2>3. lockPc[Reader(th)] = "out" /\ lockPc[Writer(th)] = "out"
        BY <2>1 DEF LockUse, UsesLock, InLocker
    <2>4. UsesLock(th)'
        BY <1>t, <2>1, <2>2, <2>3, LockIdentities DEF UsesLock, InLocker, InRun
    <2> QED BY <1>t, <2>1, <2>2, <2>4, UseAfterLockStep
<1>4. ASSUME NEW th \in Threads, ResumeLock(th)
      PROVE  LockUse'
    <2>1. UNCHANGED state
        BY <1>4 DEF ResumeLock
    <2>2. CASE UNCHANGED lockPc
        BY <2>1, <2>2, UseWhenLockUntouched
    <2>3. CASE \E x \in {Reader(th), Writer(th)} :
                   lockPc[x] = "waiting" /\ lockPc' = [lockPc EXCEPT ![x] = "in"]
        <3>1. PICK x \in {Reader(th), Writer(th)} :
                  lockPc[x] = "waiting" /\ lockPc' = [lockPc EXCEPT ![x] = "in"]
            BY <2>3
        <3>2. UsesLock(th)'
            BY <2>1, <3>1, LockIdentities DEF LockUse, UsesLock, InLocker, InRun, HasLock
        <3> QED BY <2>1, <3>1, <3>2, UseAfterLockStep
    <2> QED BY <1>4, <2>2, <2>3 DEF ResumeLock, sMutexRW!LockWriteResume,
            sMutexRW!WriterEnters, sMutexRW!LockReadResume
<1>5. ASSUME NEW th \in Threads, RunReadEvents(th) \/ RunSubtractEvents(th)
      PROVE  LockUse'
    <2>1. /\ UNCHANGED lockPc
          /\ InLocker(th) /\ HasLock(th)
          /\ \E v \in {"run: events read", "run"} : state' = [state EXCEPT ![th] = v]
        BY <1>5 DEF RunReadEvents, RunSubtractEvents, InLocker, InRun, LockUse, UsesLock
    <2> QED BY <1>t, <2>1 DEF LockUse, UsesLock, InLocker, InRun, HasLock
<1>6. ASSUME NEW th \in Threads, NEW outcome \in {"delete", "done", "timer"},
             NEW force \in BOOLEAN, NEW callLocked \in BOOLEAN,
             RunReturns(th, outcome, force, callLocked)
      PROVE  LockUse'
    <2>1. state' = [state EXCEPT ![th] = "returned"]
        BY <1>6 DEF RunReturns
    <2>2. PICK x \in {Reader(th), Writer(th)} :
              lockPc[x] = "in" /\ lockPc' = [lockPc EXCEPT ![x] = "out"]
        BY <1>6 DEF RunReturns, sMutexRW!Unlock
    <2>3. UsesLock(th)'
        <3>1. lockPc'[Reader(th)] = "out" /\ lockPc'[Writer(th)] = "out"
            BY <2>2, LockIdentities DEF LockUse, UsesLock
        <3>2. ~ InRun(th)'
            BY <1>t, <2>1 DEF InRun
        <3> QED BY <3>1, <3>2 DEF UsesLock
    <2> QED BY <1>t, <2>1, <2>2, <2>3, UseAfterLockStep
<1> QED BY <1>1, <1>2, <1>3, <1>4, <1>5, <1>6 DEF Next, RunStep

LockGuard == lock!Accounting /\ lock!Exclusion /\ LockUse

LEMMA LockGuardInit == Init => LockGuard
<1> SUFFICES ASSUME Init PROVE LockGuard
    OBVIOUS
<1>1. lock!Init
    BY DEF Init, sMutexRW!Init, lock!Init, sMutexRW!eNoWriterState, lock!eNoWriterState,
           sMutexRW!Threads, lock!Threads
<1>2. lock!Accounting /\ lock!Exclusion
    BY <1>1, LockConstants, lock!AccountingInit, lock!ExclusionInit
<1>3. LockUse
    <2>1. \A x \in lock!Threads : lockPc[x] = "out"
        BY <1>1 DEF lock!Init
    <2>2. \A th \in Threads : state[th] = "waiting for a task"
        BY DEF Init
    <2> QED BY <2>1, <2>2, LockIdentities DEF LockUse, UsesLock, InRun
<1> QED BY <1>2, <1>3 DEF LockGuard

LEMMA LockGuardStep ==
    ASSUME TypeOK, LockGuard, [Next]_vars PROVE LockGuard'
<1>1. [lock!Next]_(lock!vars)
    BY LockStep
<1>2. lock!Accounting'
    BY <1>1, LockConstants, lock!AccountingStep DEF LockGuard
<1>3. lock!Exclusion'
    BY <1>1, LockConstants, lock!ExclusionStep DEF LockGuard
<1>4. lockPc \in [lock!Threads -> {"out", "waiting", "in"}]
    BY DEF LockGuard, lock!Accounting, lock!TypeOK
<1> QED BY <1>2, <1>3, <1>4, LockUseStep DEF LockGuard

\* The Run of a task that called CallLocked is alone among the Runs of all the
\* threads (Task.cpp:223-237), whoever calls it and however often, up to the moment
\* when LockWrite lets a second such Run in, and again once the lock was empty.
THEOREM LockedRunStaysAlone == Spec => []LockedRunIsAlone
<1>1. TypeOK /\ LockGuard /\ [Next]_vars => LockGuard'
    BY LockGuardStep
<1>2. LockGuard => LockedRunIsAlone
    <2> SUFFICES ASSUME LockGuard, ~ overlapped, NEW th \in Threads, NEW other \in Threads,
                        InRun(th), InRun(other), lockPc[Writer(th)] = "in"
                 PROVE  other = th
        BY DEF LockedRunIsAlone
    <2>1. Writer(th) \in lock!Writing
        BY DEF lock!Writing
    <2>2. lock!Reading = {} /\ \A v, w \in lock!Writing : v = w
        BY <2>1 DEF LockGuard, lock!Exclusion, lock!ReadersExcludeWriters, lock!OneWriting
    <2>3. lockPc[Writer(other)] = "in"
        BY <2>2 DEF LockGuard, LockUse, UsesLock, HasLock, lock!Reading
    <2>4. Writer(other) = Writer(th)
        BY <2>1, <2>2, <2>3 DEF lock!Writing
    <2> QED BY <2>4, LockIdentities
<1> QED BY <1>1, <1>2, LockGuardInit, TypeCorrect, PTL DEF Spec

\* The task threads use the lock as OSMutexRW allows: every step of the scheduler
\* is one of the lock or leaves it alone.
THEOREM LockIsUsedProperly == Spec => sMutexRW!Spec
<1>1. Init => sMutexRW!Init
    BY DEF Init
<1>2. [Next]_vars => [sMutexRW!Next]_(sMutexRW!vars)
    <2> SUFFICES ASSUME [Next]_vars PROVE [sMutexRW!Next]_(sMutexRW!vars)
        OBVIOUS
    <2> USE DEF taskVars, threadVars, callVars, history
    <2>1. ASSUME UNCHANGED lockVars PROVE UNCHANGED sMutexRW!vars
        BY <2>1 DEF lockVars, sMutexRW!vars
    <2>2. ASSUME NEW th \in Threads, EnterLock(th) PROVE sMutexRW!Next
        BY <2>2 DEF EnterLock, sMutexRW!Next
    <2>3. ASSUME NEW th \in Threads, ResumeLock(th) PROVE sMutexRW!Next
        BY <2>3 DEF ResumeLock, sMutexRW!Next
    <2>4. ASSUME NEW th \in Threads, NEW outcome \in {"delete", "done", "timer"},
                 NEW force \in BOOLEAN, NEW callLocked \in BOOLEAN,
                 RunReturns(th, outcome, force, callLocked)
          PROVE  sMutexRW!Next
        <3>1. \E x \in {Reader(th), Writer(th)} : sMutexRW!Unlock(x)
            BY <2>4 DEF RunReturns
        <3> QED BY <3>1 DEF sMutexRW!Next, sMutexRW!Threads
    <2>5. CASE LockWaitEnds
        BY <2>5 DEF LockWaitEnds, sMutexRW!Next
    <2>6. CASE \/ \E s \in Signalers : \/ \E t \in Tasks : SignalFindsValid(s, t)
                                       \/ \E t \in Tasks, e \in Events : SignalSetEvents(s, t, e)
                                       \/ SignalEnQueue(s)
               \/ \E th \in Threads : \/ \E t \in Tasks : TakeTimer(th, t)
                                      \/ TakeSignalled(th) \/ Quit(th)
                                      \/ RunReadEvents(th) \/ RunSubtractEvents(th)
                                      \/ DeleteTask(th) \/ CompareAndStore(th) \/ InsertTimer(th)
               \/ RemoveThreads \/ UNCHANGED vars
        <3>1. UNCHANGED lockVars
            BY <2>6 DEF SignalFindsValid, SignalSetEvents, SignalEnQueue, TakeTimer,
               TakeSignalled, Take, Quit, RunReadEvents, RunSubtractEvents, DeleteTask,
               CompareAndStore, InsertTimer, RemoveThreads, vars
        <3> QED BY <2>1, <3>1
    <2> QED BY <2>2, <2>3, <2>4, <2>5, <2>6 DEF Next, RunStep
<1> QED BY <1>1, <1>2, PTL DEF Spec, sMutexRW!Spec
=============================================================================
