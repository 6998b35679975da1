----------------------------- MODULE TaskThreads -----------------------------
(***************************************************************************)
(* The task scheduler of the server: Task::Signal, the task threads and    *)
(* their timer heaps (CommonUtilitiesLib/Task.h, Task.cpp, OSQueue.cpp),   *)
(* together with the global readers/writer lock that every Run holds.      *)
(*                                                                         *)
(* A task is an object with a word of event bits.  The bit kAlive says     *)
(* that somebody is responsible for running it: a caller of Signal on its  *)
(* way to a queue, a queue, a timer heap, or the thread inside Run.  No    *)
(* mutex guards this, only atomic operations on the word, so every atomic  *)
(* operation is an action.                                                 *)
(*                                                                         *)
(* What a concrete task does in Run is left open: it takes its events,     *)
(* may ask for its thread or for the global lock, and returns a timeout,   *)
(* or -1 to be deleted, for whatever reason.  Nobody is kept from calling  *)
(* Signal at any moment: "this object provides no protection against       *)
(* calling a method, such as Signal, at the same time the object is being  *)
(* deleted" (Task.h:89).  Signal and the threads test Valid(), which tells *)
(* a deleted task by the mark that its thread leaves in it; freed memory   *)
(* is taken to keep that mark and to lose, at most, its event word.        *)
(***************************************************************************)
EXTENDS Integers, Sequences, FiniteSets

CONSTANTS
    Tasks,           \* task objects
    BlockingTasks,   \* those given the blocking picker (TCPListenerSocket.cpp:191)
    ShortThreads,    \* task threads for short tasks
    BlockingThreads, \* task threads for blocking tasks
    Signalers,       \* calls of Signal that may be under way at once
    Events,          \* event bits that callers pass to Signal
    kAlive,          \* the bit that is not an event
    kIdleEvent,      \* the bit set when a timer is armed
    None

Threads == ShortThreads \cup BlockingThreads
Flags   == Events \cup {kAlive, kIdleEvent}

ASSUME ConstantsAssumption ==
    /\ BlockingTasks \subseteq Tasks
    /\ ShortThreads # {} /\ BlockingThreads # {}
    /\ ShortThreads \cap BlockingThreads = {}
    /\ IsFiniteSet(Threads)
    /\ kAlive \notin Events \cup {kIdleEvent}
    /\ None \notin Tasks \cup Threads

VARIABLES
    \* the task objects
    fEvents,         \* the event word of each task
    fUseThisThread,  \* the thread its next Run is bound to, or None
    fWriteLock,      \* its next Run takes the global lock to write
    deleted,         \* tasks whose memory was given back
    \* the callers of Signal
    calling,         \* the task a call has found valid, or None
    inHand,          \* the task a call is about to put on a queue, or None
    \* the task threads
    fTaskQueue,      \* the queue of each thread
    fHeap,           \* the tasks in the timer heap of each thread
    theTask,         \* the task each thread has taken
    state,           \* where each thread is
    got,             \* the events the Run under way has taken
    timeout,         \* what the last Run returned
    stopRequested,   \* threads told to stop
    \* TaskThreadPool::sMutexRW
    fState, fWriteWaiters, fReadWaiters, fReadersCond, fWritersCond, lockPc,
    overlapped,      \* history of the lock
    \* history
    owed,            \* events signalled to a task and not yet taken by its Run
    dangling,        \* deleted tasks that a late Signal has written to
    boundTo          \* the thread the last Run asked for, or None

taskVars   == <<fEvents, fUseThisThread, fWriteLock, deleted>>
threadVars == <<fTaskQueue, fHeap, theTask, state, got, timeout, stopRequested>>
callVars   == <<calling, inHand>>
lockVars   == <<fState, fWriteWaiters, fReadWaiters, fReadersCond, fWritersCond,
                lockPc, overlapped>>
history    == <<owed, dangling, boundTo>>
vars == <<taskVars, callVars, threadVars, lockVars, history>>

\* A thread may hold the lock either way: one identity for each.
Reader(th) == <<th, "read">>
Writer(th) == <<th, "write">>

sMutexRW == INSTANCE OSMutexRW
            WITH Readers <- {Reader(th) : th \in Threads},
                 Writers <- {Writer(th) : th \in Threads},
                 pc <- lockPc

Init ==
    /\ fEvents = [t \in Tasks |-> {}]
    /\ fUseThisThread = [t \in Tasks |-> None]
    /\ fWriteLock = [t \in Tasks |-> FALSE]
    /\ deleted = {}
    /\ calling = [s \in Signalers |-> None]
    /\ inHand = [s \in Signalers |-> None]
    /\ fTaskQueue = [th \in Threads |-> <<>>]
    /\ fHeap = [th \in Threads |-> {}]
    /\ theTask = [th \in Threads |-> None]
    /\ state = [th \in Threads |-> "waiting for a task"]
    /\ got = [th \in Threads |-> {}]
    /\ timeout = [th \in Threads |-> "none"]
    /\ stopRequested = {}
    /\ sMutexRW!Init
    /\ owed = [t \in Tasks |-> {}]
    /\ dangling = {}
    /\ boundTo = [t \in Tasks |-> None]

-----------------------------------------------------------------------------
(* Task::Signal, called from any thread. *)

\* Mutant of MustSchedule: the old value of the word is not looked at.
ScheduleAlways(word) == TRUE

\* Only the caller that turns kAlive on schedules the task.
MustSchedule(word) == kAlive \notin word

\* The call finds the task valid: its thread has not marked it as dead yet.
SignalFindsValid(s, t) ==
    /\ calling[s] = None /\ inHand[s] = None
    /\ t \notin deleted
    /\ calling' = [calling EXCEPT ![s] = t]
    /\ UNCHANGED <<inHand, taskVars, threadVars, lockVars, history>>

\* atomic_or, which returns the old value of the word.  If the task was deleted
\* after Valid(), the word is in freed memory and may read either way; what the
\* first such call writes is still there for the next.
SignalSetEvents(s, t, e) ==
    /\ calling[s] = t
    /\ calling' = [calling EXCEPT ![s] = None]
    /\ IF t \in deleted
       THEN /\ dangling' = dangling \cup {t}
            /\ \/ UNCHANGED inHand
               \/ t \notin dangling /\ inHand' = [inHand EXCEPT ![s] = t]
            /\ UNCHANGED <<fEvents, owed>>
       ELSE /\ fEvents' = [fEvents EXCEPT ![t] = @ \cup {e, kAlive}]
            /\ inHand' = [inHand EXCEPT ![s] = IF MustSchedule(fEvents[t]) THEN t ELSE None]
            /\ owed' = [owed EXCEPT ![t] = @ \cup {e}]
            /\ UNCHANGED dangling
    /\ UNCHANGED <<fUseThisThread, fWriteLock, deleted, boundTo>>
    /\ UNCHANGED <<threadVars, lockVars>>

\* The next thread of the task's picker: which one it is depends on every other
\* Signal.  As the whole of ThreadsFor, a mutant that ignores fUseThisThread.
PickedThreadsFor(t) == IF t \in BlockingTasks THEN BlockingThreads ELSE ShortThreads

\* The thread a signalled task goes to: the one it asked for, if it did.
ThreadsFor(t) ==
    IF fUseThisThread[t] # None THEN {fUseThisThread[t]}
    ELSE PickedThreadsFor(t)

\* OSQueue::EnQueue leaves an element alone that is in this queue already.
EnQueue(q, t) == IF \E i \in DOMAIN q : q[i] = t THEN q ELSE Append(q, t)

SignalEnQueue(s) ==
    /\ inHand[s] # None
    /\ \E th \in ThreadsFor(inHand[s]) :
           fTaskQueue' = [fTaskQueue EXCEPT ![th] = EnQueue(@, inHand[s])]
    /\ inHand' = [inHand EXCEPT ![s] = None]
    /\ UNCHANGED <<calling, fHeap, theTask, state, got, timeout, stopRequested>>
    /\ UNCHANGED <<taskVars, lockVars, history>>

-----------------------------------------------------------------------------
(* TaskThread::WaitForTask *)

\* TaskThread::Entry goes on with the task it was given, and leaves its loop, so
\* that the thread ends, when Valid() finds that task marked as dead.
Take(th, t) ==
    /\ IF t \in deleted
       THEN /\ state' = [state EXCEPT ![th] = "ended"]
            /\ UNCHANGED theTask
       ELSE /\ state' = [state EXCEPT ![th] = "has a task"]
            /\ theTask' = [theTask EXCEPT ![th] = t]
    /\ UNCHANGED <<got, timeout, stopRequested>>
    /\ UNCHANGED <<taskVars, callVars, lockVars, history>>

\* Mutant of ExtractMin: the element stays in the heap.
PeekMin(heap, t) == heap

ExtractMin(heap, t) == heap \ {t}

\* The earliest timer of the heap is due; which one is earliest is left open.
TakeTimer(th, t) ==
    /\ state[th] = "waiting for a task"
    /\ t \in fHeap[th]
    /\ fHeap' = [fHeap EXCEPT ![th] = ExtractMin(@, t)]
    /\ Take(th, t)
    /\ UNCHANGED fTaskQueue

TakeSignalled(th) ==
    /\ state[th] = "waiting for a task"
    /\ fTaskQueue[th] # <<>>
    /\ fTaskQueue' = [fTaskQueue EXCEPT ![th] = Tail(@)]
    /\ Take(th, Head(fTaskQueue[th]))
    /\ UNCHANGED fHeap

\* The wait for the queue timed out and the thread was told to stop.
Quit(th) ==
    /\ state[th] = "waiting for a task"
    /\ fTaskQueue[th] = <<>>
    /\ th \in stopRequested
    /\ state' = [state EXCEPT ![th] = "ended"]
    /\ UNCHANGED <<fTaskQueue, fHeap, theTask, got, timeout, stopRequested>>
    /\ UNCHANGED <<taskVars, callVars, lockVars, history>>

\* TaskThreadPool::RemoveThreads asks every thread to stop before it wakes any.
RemoveThreads ==
    /\ stopRequested = {}
    /\ stopRequested' = Threads
    /\ UNCHANGED <<fTaskQueue, fHeap, theTask, state, got, timeout>>
    /\ UNCHANGED <<taskVars, callVars, lockVars, history>>

-----------------------------------------------------------------------------
(* TaskThread::Entry *)

\* "Each invocation of Run must independently request a specific thread."
\* Then the constructor of the mutex locker calls LockWrite or LockRead.
EnterLock(th) ==
    /\ state[th] = "has a task"
    /\ fUseThisThread' = [fUseThisThread EXCEPT ![theTask[th]] = None]
    /\ IF fWriteLock[theTask[th]]
       THEN sMutexRW!LockWrite(Writer(th))
       ELSE sMutexRW!LockRead(Reader(th))
    /\ state' = [state EXCEPT ![th] = "locking"]
    /\ UNCHANGED <<fEvents, fWriteLock, deleted, callVars, fTaskQueue, fHeap>>
    /\ UNCHANGED <<theTask, got, timeout, stopRequested, history>>

ResumeLock(th) ==
    /\ \/ sMutexRW!LockWriteResume(Writer(th))
       \/ sMutexRW!LockReadResume(Reader(th))
    /\ UNCHANGED <<taskVars, callVars, threadVars, history>>

\* A wait inside the lock that ends without a signal.
LockWaitEnds ==
    /\ \E x \in sMutexRW!Threads : sMutexRW!WakeByItself(x)
    /\ UNCHANGED <<taskVars, callVars, threadVars, history>>

HasLock(th) == "in" \in {lockPc[Reader(th)], lockPc[Writer(th)]}

\* "every event currently in the mask except for the alive bit"
EventsOf(word) == word \ {kAlive}

\* Run starts, and GetEvents reads the event word.
RunReadEvents(th) ==
    /\ state[th] = "locking"
    /\ HasLock(th)
    /\ got' = [got EXCEPT ![th] = EventsOf(fEvents[theTask[th]])]
    /\ state' = [state EXCEPT ![th] = "run: events read"]
    /\ boundTo' = [boundTo EXCEPT ![theTask[th]] = None]
    /\ UNCHANGED <<taskVars, callVars, fTaskQueue, fHeap, theTask, timeout, stopRequested>>
    /\ UNCHANGED <<lockVars, owed, dangling>>

\* Mutant of Subtract: the word is reset.
ResetWord(word, events) == word \cap {kAlive}

\* What atomic_sub(&fEvents, events) leaves of the word.
Subtract(word, events) == word \ events

\* GetEvents takes what it read out of the word.
RunSubtractEvents(th) ==
    /\ state[th] = "run: events read"
    /\ fEvents' = [fEvents EXCEPT ![theTask[th]] = Subtract(@, got[th])]
    /\ owed' = [owed EXCEPT ![theTask[th]] = @ \ got[th]]
    /\ state' = [state EXCEPT ![th] = "run"]
    /\ UNCHANGED <<fUseThisThread, fWriteLock, deleted, callVars, dangling, boundTo>>
    /\ UNCHANGED <<fTaskQueue, fHeap, theTask, got, timeout, stopRequested, lockVars>>

\* Run returns: -1 to be deleted, 0 to be left alone, or a time to sleep; it may
\* have called ForceSameThread or CallLocked, which calls ForceSameThread and
\* returns a time.  A Run that held the write lock clears fWriteLock after it
\* returns.  The destructor of the locker releases the lock.
RunReturns(th, outcome, force, callLocked) ==
    LET t == theTask[th]
        wrote == lockPc[Writer(th)] = "in"
    IN  /\ state[th] = "run"
        /\ callLocked => force /\ outcome = "timer"
        /\ timeout' = [timeout EXCEPT ![th] = outcome]
        /\ fUseThisThread' = [fUseThisThread EXCEPT ![t] = IF force THEN th ELSE @]
        /\ fWriteLock' = [fWriteLock EXCEPT ![t] = ~ wrote /\ (@ \/ callLocked)]
        /\ boundTo' = [boundTo EXCEPT ![t] = IF force THEN th ELSE None]
        /\ sMutexRW!Unlock(IF wrote THEN Writer(th) ELSE Reader(th))
        /\ state' = [state EXCEPT ![th] = "returned"]
        /\ got' = [got EXCEPT ![th] = {}]
        /\ UNCHANGED <<fEvents, deleted, callVars, owed, dangling>>
        /\ UNCHANGED <<fTaskQueue, fHeap, theTask, stopRequested>>

\* The thread lets go of its task.
LetGo(th) ==
    /\ theTask' = [theTask EXCEPT ![th] = None]
    /\ state' = [state EXCEPT ![th] = "waiting for a task"]
    /\ timeout' = [timeout EXCEPT ![th] = "none"]

DeleteTask(th) ==
    /\ state[th] = "returned"
    /\ timeout[th] = "delete"
    /\ deleted' = deleted \cup {theTask[th]}
    /\ LetGo(th)
    /\ UNCHANGED <<fEvents, fUseThisThread, fWriteLock, callVars, lockVars, history>>
    /\ UNCHANGED <<fTaskQueue, fHeap, got, stopRequested>>

\* Mutant of CompareAndStore: the thread leaves a task that still has events.
CompareAndStoreOnce(th) ==
    /\ state[th] = "returned"
    /\ timeout[th] = "done"
    /\ fEvents' = [fEvents EXCEPT ![theTask[th]] = IF @ = {kAlive} THEN {} ELSE @]
    /\ LetGo(th)
    /\ UNCHANGED <<fUseThisThread, fWriteLock, deleted, callVars, lockVars, history>>
    /\ UNCHANGED <<fTaskQueue, fHeap, got, stopRequested>>

\* compare_and_store(kAlive, 0): the task rests only if no event sneaked in;
\* if one did, the same thread runs it again.
CompareAndStore(th) ==
    /\ state[th] = "returned"
    /\ timeout[th] = "done"
    /\ IF fEvents[theTask[th]] = {kAlive}
       THEN /\ fEvents' = [fEvents EXCEPT ![theTask[th]] = {}]
            /\ LetGo(th)
       ELSE /\ state' = [state EXCEPT ![th] = "has a task"]
            /\ timeout' = [timeout EXCEPT ![th] = "none"]
            /\ UNCHANGED <<fEvents, theTask>>
    /\ UNCHANGED <<fUseThisThread, fWriteLock, deleted, callVars, lockVars, history>>
    /\ UNCHANGED <<fTaskQueue, fHeap, got, stopRequested>>

\* The task goes to the timer heap of this thread, alive and with kIdleEvent.
InsertTimer(th) ==
    /\ state[th] = "returned"
    /\ timeout[th] = "timer"
    /\ fHeap' = [fHeap EXCEPT ![th] = @ \cup {theTask[th]}]
    /\ fEvents' = [fEvents EXCEPT ![theTask[th]] = @ \cup {kIdleEvent}]
    /\ LetGo(th)
    /\ UNCHANGED <<fUseThisThread, fWriteLock, deleted, callVars, lockVars, history>>
    /\ UNCHANGED <<fTaskQueue, got, stopRequested>>

RunStep(th) ==
    \/ EnterLock(th) \/ ResumeLock(th)
    \/ RunReadEvents(th) \/ RunSubtractEvents(th)
    \/ \E outcome \in {"delete", "done", "timer"}, force, callLocked \in BOOLEAN :
           RunReturns(th, outcome, force, callLocked)
    \/ DeleteTask(th) \/ CompareAndStore(th) \/ InsertTimer(th)

Next ==
    \/ \E s \in Signalers :
          \/ \E t \in Tasks : SignalFindsValid(s, t)
          \/ \E t \in Tasks, e \in Events : SignalSetEvents(s, t, e)
          \/ SignalEnQueue(s)
    \/ \E th \in Threads :
          \/ \E t \in Tasks : TakeTimer(th, t)
          \/ TakeSignalled(th)
          \/ Quit(th)
          \/ RunStep(th)
    \/ RemoveThreads
    \/ LockWaitEnds

Spec == Init /\ [][Next]_vars

\* Threads run, Run returns, timers come due in their order.  The heap is looked
\* at before the queue, so that a signalled task is taken in the end assumes that
\* the timers of its thread are not due at every single visit.  A thread that is
\* woken in the lock, time and again, finds it free in the end: CallLocked keeps
\* a "minimum of 10 milliseconds between locks" (Task.h:127).
Fairness ==
    /\ \A s \in Signalers : WF_vars(SignalEnQueue(s))
    /\ \A th \in Threads :
          /\ WF_vars(RunStep(th))
          /\ SF_vars(ResumeLock(th) /\ HasLock(th)')
          /\ SF_vars(TakeSignalled(th))
          /\ \A t \in Tasks : SF_vars(TakeTimer(th, t))

FairSpec == Spec /\ Fairness

-----------------------------------------------------------------------------
ThreadStates == {"waiting for a task", "has a task", "locking", "run: events read",
                 "run", "returned", "ended"}

TypeOK ==
    /\ fEvents \in [Tasks -> SUBSET Flags]
    /\ fUseThisThread \in [Tasks -> Threads \cup {None}]
    /\ fWriteLock \in [Tasks -> BOOLEAN]
    /\ deleted \subseteq Tasks
    /\ calling \in [Signalers -> Tasks \cup {None}]
    /\ inHand \in [Signalers -> Tasks \cup {None}]
    /\ fTaskQueue \in [Threads -> Seq(Tasks)]
    /\ fHeap \in [Threads -> SUBSET Tasks]
    /\ theTask \in [Threads -> Tasks \cup {None}]
    /\ state \in [Threads -> ThreadStates]
    /\ got \in [Threads -> SUBSET (Flags \ {kAlive})]
    /\ timeout \in [Threads -> {"none", "delete", "done", "timer"}]
    /\ stopRequested \subseteq Threads
    /\ owed \in [Tasks -> SUBSET Events]
    /\ dangling \subseteq deleted
    /\ boundTo \in [Tasks -> Threads \cup {None}]

\* The places that can be responsible for running a task.
Places == ({"signal"} \X Signalers) \cup ({"queue", "heap", "thread"} \X Threads)

Queued(th, t) == \E i \in DOMAIN fTaskQueue[th] : fTaskQueue[th][i] = t

Holds(p, t) ==
    \/ p[1] = "signal" /\ inHand[p[2]] = t
    \/ p[1] = "queue"  /\ Queued(p[2], t)
    \/ p[1] = "heap"   /\ t \in fHeap[p[2]]
    \/ p[1] = "thread" /\ theTask[p[2]] = t

\* A task is in one place at most (so no two threads are ever inside its Run, it
\* is never linked into two queues, and its one heap element is in one heap),
\* and it is in some place exactly when its kAlive bit says so.
OneHolder ==
    /\ \A t \in Tasks \ deleted :
           /\ \A p, q \in Places : Holds(p, t) /\ Holds(q, t) => p = q
           /\ kAlive \in fEvents[t] <=> \E p \in Places : Holds(p, t)
    /\ \A th \in Threads : \A i, j \in DOMAIN fTaskQueue[th] :
           fTaskQueue[th][i] = fTaskQueue[th][j] => i = j

\* An event that Run has not taken yet is still in the event word of a task that
\* somebody is responsible for running (Task.cpp:275-278).
NoEventLost ==
    \A t \in Tasks \ deleted :
        /\ owed[t] \subseteq fEvents[t]
        /\ owed[t] # {} => kAlive \in fEvents[t]

\* When a thread deletes a task, no queue, no heap and no other thread has it and
\* no call is about to schedule it, and none ever will, whatever Run deletes itself
\* for: only a call of Signal that had passed Valid() before the deletion can put
\* the dead task in a place again.
DeletedIsUnreachable ==
    \A t \in deleted \ dangling, p \in Places : ~ Holds(p, t)

\* A task that asked for its thread is with no other thread until it runs there.
\* The task may hold mutexes of that thread (Task.h:112-118).
BoundTaskStays ==
    \A t \in Tasks \ deleted, th \in Threads :
        Holds(<<"queue", th>>, t) \/ Holds(<<"heap", th>>, t) \/ Holds(<<"thread", th>>, t)
            => boundTo[t] \in {None, th}

InRun(th) == state[th] \in {"run: events read", "run"}

\* A Run that has the global lock to write runs alone, until LockWrite, which
\* waits for readers only, lets a second such Run in beside it.
LockedRunIsAlone ==
    ~ overlapped =>
        \A th, other \in Threads :
            InRun(th) /\ InRun(other) /\ lockPc[Writer(th)] = "in" => other = th

\* The events that GetEvents has read and not yet subtracted.
BeingTaken(t) ==
    UNION {got[th] : th \in {x \in Threads : state[x] = "run: events read" /\ theTask[x] = t}}

PendingEvents == [t \in Tasks |-> owed[t] \ BeingTaken(t)]
RunningTasks  == {t \in Tasks : \E th \in Threads : InRun(th) /\ theTask[th] = t}
LeavingTasks  == {t \in Tasks : \E th \in Threads : timeout[th] = "delete" /\ theTask[th] = t}

service == INSTANCE TaskService
           WITH pending <- PendingEvents, running <- RunningTasks,
                leaving <- LeavingTasks, gone <- deleted

\* The scheduler keeps the promise of TaskService.  The two steps of GetEvents are
\* one step of the promise, the first: an event that is signalled again between
\* them is one with the event that this Run gets (Task.cpp:84-90).
KeepsPromise == service!Spec

\* A signalled event reaches Run, unless the task was deleted, the server is
\* stopping, or a thread may have met a dead task and ended.  A task that is
\* signalled again at every Run keeps its thread, and the tasks behind it in the
\* queue wait: the others must rest now and then.
EventsDelivered ==
    \A t \in Tasks :
        (\A u \in Tasks \ {t} : []<>(\A th \in Threads : theTask[th] # u)) =>
            \A e \in Events :
                e \in owed[t] ~> \/ e \notin owed[t] \/ t \in deleted
                                 \/ stopRequested # {} \/ dangling # {}
=============================================================================
