------------------------------ MODULE OSMutexRW ------------------------------
(***************************************************************************)
(* The readers/writer lock of CommonUtilitiesLib/OSMutexRW.cpp.            *)
(*                                                                         *)
(* Every member function runs under the recursive fInternalLock, and       *)
(* releases it only inside OSCond::Wait, so one call is one action up to   *)
(* its first wait and one action from each wake-up to the next wait.  A    *)
(* condition variable is the set of the threads asleep on it: Signal takes *)
(* one of them out, Broadcast all, and a wait may also end by itself       *)
(* (eMaxWait milliseconds, or a spurious wake-up of pthread_cond_timedwait).*)
(* A thread that has left the set re-tests the condition of its loop.      *)
(***************************************************************************)
EXTENDS Integers, FiniteSets

CONSTANTS
    Readers,   \* threads that take the lock to read
    Writers    \* threads that take the lock to write

Threads == Readers \cup Writers

ASSUME ThreadsAssumption == /\ IsFiniteSet(Readers)
                            /\ IsFiniteSet(Writers)
                            /\ Readers \cap Writers = {}

VARIABLES
    fState,         \* -1: a writer, 0: free, n > 0: n readers
    fWriteWaiters,  \* writers between the first and the last line of LockWrite
    fReadWaiters,   \* readers between the first and the last line of LockRead
    fReadersCond,   \* readers asleep in fReadersCond.Wait
    fWritersCond,   \* writers asleep in fWritersCond.Wait
    pc,             \* where each thread is: "out", "waiting" in a Lock call, "in"
    overlapped      \* history: a writer has joined another one, and the lock has
                    \* not been empty since

vars == <<fState, fWriteWaiters, fReadWaiters, fReadersCond, fWritersCond, pc,
          overlapped>>

eActiveWriterState == -1
eNoWriterState == 0

WaitingWriters == fWriteWaiters > 0
Active         == fState # 0
ActiveReaders  == fState > 0
ActiveWriter   == fState < 0

Reading == {t \in Readers : pc[t] = "in"}
Writing == {t \in Writers : pc[t] = "in"}
Inside  == Reading \cup Writing

Init ==
    /\ fState = eNoWriterState
    /\ fWriteWaiters = 0
    /\ fReadWaiters = 0
    /\ fReadersCond = {}
    /\ fWritersCond = {}
    /\ pc = [t \in Threads |-> "out"]
    /\ overlapped = FALSE

-----------------------------------------------------------------------------
\* OSCond::Signal: wakes one sleeper, if there is one.
SignalWriters ==
    IF fWritersCond = {} THEN UNCHANGED fWritersCond
    ELSE \E w \in fWritersCond : fWritersCond' = fWritersCond \ {w}

\* Mutants of MustWaitToRead: a condition of the loop is forgotten.
MustWaitForActiveWriter == ActiveWriter
MustWaitForWaitingWriters == WaitingWriters

MustWaitToRead == ActiveWriter \/ WaitingWriters

\* LockRead, up to its return or its first wait.
LockRead(t) ==
    /\ pc[t] = "out"
    /\ IF MustWaitToRead
       THEN /\ fReadWaiters' = fReadWaiters + 1
            /\ fReadersCond' = fReadersCond \cup {t}
            /\ pc' = [pc EXCEPT ![t] = "waiting"]
            /\ UNCHANGED fState
       ELSE /\ fState' = fState + 1
            /\ pc' = [pc EXCEPT ![t] = "in"]
            /\ UNCHANGED <<fReadWaiters, fReadersCond>>
    /\ UNCHANGED <<fWriteWaiters, fWritersCond, overlapped>>

\* LockRead, from a wake-up to its return or its next wait.
LockReadResume(t) ==
    /\ pc[t] = "waiting"
    /\ t \notin fReadersCond
    /\ IF MustWaitToRead
       THEN /\ fReadersCond' = fReadersCond \cup {t}
            /\ UNCHANGED <<fReadWaiters, fState, pc>>
       ELSE /\ fReadWaiters' = fReadWaiters - 1
            /\ fState' = fState + 1
            /\ pc' = [pc EXCEPT ![t] = "in"]
            /\ UNCHANGED fReadersCond
    /\ UNCHANGED <<fWriteWaiters, fWritersCond, overlapped>>

\* A writer gets in, beside the one that is in already if there is one.
WriterEnters(t) ==
    /\ fState' = eActiveWriterState
    /\ pc' = [pc EXCEPT ![t] = "in"]
    /\ overlapped' = (overlapped \/ Writing # {})

\* LockWrite, up to its return or its first wait.  The loop tests the readers
\* only: a writer that holds the lock keeps no other writer out.
LockWrite(t) ==
    /\ pc[t] = "out"
    /\ IF ActiveReaders
       THEN /\ fWriteWaiters' = fWriteWaiters + 1
            /\ fWritersCond' = fWritersCond \cup {t}
            /\ pc' = [pc EXCEPT ![t] = "waiting"]
            /\ UNCHANGED <<fState, overlapped>>
       ELSE /\ WriterEnters(t)
            /\ UNCHANGED <<fWriteWaiters, fWritersCond>>
    /\ UNCHANGED <<fReadWaiters, fReadersCond>>

\* LockWrite, from a wake-up to its return or its next wait.
LockWriteResume(t) ==
    /\ pc[t] = "waiting"
    /\ t \notin fWritersCond
    /\ IF ActiveReaders
       THEN /\ fWritersCond' = fWritersCond \cup {t}
            /\ UNCHANGED <<fWriteWaiters, fState, pc, overlapped>>
       ELSE /\ fWriteWaiters' = fWriteWaiters - 1
            /\ WriterEnters(t)
            /\ UNCHANGED fWritersCond
    /\ UNCHANGED <<fReadWaiters, fReadersCond>>

\* TryLockRead and TryLockWrite test and lock in one hold of fInternalLock; a
\* refused attempt changes nothing and is no action.
TryLockRead(t) ==
    /\ pc[t] = "out"
    /\ ~ MustWaitToRead
    /\ fState' = fState + 1
    /\ pc' = [pc EXCEPT ![t] = "in"]
    /\ UNCHANGED <<fWriteWaiters, fReadWaiters, fReadersCond, fWritersCond>>
    /\ UNCHANGED overlapped

TryLockWrite(t) ==
    /\ pc[t] = "out"
    /\ ~ Active
    /\ ~ WaitingWriters
    /\ WriterEnters(t)
    /\ UNCHANGED <<fWriteWaiters, fReadWaiters, fReadersCond, fWritersCond>>

\* Mutant of WakeAfterWriter: Signal where the code says Broadcast.
WakeOneReaderAfterWriter ==
    IF WaitingWriters
    THEN SignalWriters /\ UNCHANGED fReadersCond
    ELSE /\ UNCHANGED fWritersCond
         /\ IF fReadersCond = {} THEN UNCHANGED fReadersCond
            ELSE \E r \in fReadersCond : fReadersCond' = fReadersCond \ {r}

\* The wake-up a leaving writer gives: the next writer, or all the readers.
WakeAfterWriter ==
    IF WaitingWriters
    THEN SignalWriters /\ UNCHANGED fReadersCond
    ELSE fReadersCond' = {} /\ UNCHANGED fWritersCond

\* Mutant of WakeAfterLastReader: the signal is forgotten.
WakeNobody == UNCHANGED <<fReadersCond, fWritersCond>>

\* The wake-up the last leaving reader gives.
WakeAfterLastReader == SignalWriters /\ UNCHANGED fReadersCond

\* Mutant of LeaveReading: the test of fState == 1 is missing, and the count of
\* a reader that came in between two writers is taken down twice.
LeaveReadingAlways ==
    /\ fState' = fState - 1
    /\ IF fState > 1 THEN UNCHANGED <<fReadersCond, fWritersCond>>
       ELSE WakeAfterLastReader

\* The branch of Unlock for a lock that no writer holds.
LeaveReading ==
    IF fState > 1
    THEN fState' = fState - 1 /\ UNCHANGED <<fReadersCond, fWritersCond>>
    ELSE fState' = eNoWriterState /\ WakeAfterLastReader

\* Unlock decides from fState, not from who calls, which side is being left.
Unlock(t) ==
    /\ pc[t] = "in"
    /\ pc' = [pc EXCEPT ![t] = "out"]
    /\ IF ActiveWriter
       THEN fState' = eNoWriterState /\ WakeAfterWriter
       ELSE LeaveReading
    /\ overlapped' = (overlapped /\ Inside # {t})
    /\ UNCHANGED <<fWriteWaiters, fReadWaiters>>

\* A wait that ends without a signal.
WakeByItself(t) ==
    /\ t \in fReadersCond \cup fWritersCond
    /\ fReadersCond' = fReadersCond \ {t}
    /\ fWritersCond' = fWritersCond \ {t}
    /\ UNCHANGED <<fState, fWriteWaiters, fReadWaiters, pc, overlapped>>

Next ==
    \/ \E t \in Readers : LockRead(t) \/ LockReadResume(t) \/ TryLockRead(t)
    \/ \E t \in Writers : LockWrite(t) \/ LockWriteResume(t) \/ TryLockWrite(t)
    \/ \E t \in Threads : Unlock(t) \/ WakeByItself(t)

Spec == Init /\ [][Next]_vars

\* A thread that was woken runs again, and a holder leaves: the tasks of the
\* server return from Run, and the locker object unlocks in its destructor.
\* Nothing is assumed of WakeByItself, nor of new Lock calls.
Fairness ==
    /\ \A t \in Readers : WF_vars(LockReadResume(t))
    /\ \A t \in Writers : WF_vars(LockWriteResume(t))
    /\ \A t \in Threads : WF_vars(Unlock(t))

FairSpec == Spec /\ Fairness

-----------------------------------------------------------------------------
WaitingToRead  == {t \in Readers : pc[t] = "waiting"}
WaitingToWrite == {t \in Writers : pc[t] = "waiting"}

TypeOK ==
    /\ fState \in Int
    /\ fState >= -1
    /\ fWriteWaiters \in Nat
    /\ fReadWaiters \in Nat
    /\ fReadersCond \subseteq Readers
    /\ fWritersCond \subseteq Writers
    /\ pc \in [Threads -> {"out", "waiting", "in"}]
    /\ overlapped \in BOOLEAN

\* The waiter counters are exactly the threads inside the two Lock calls, and
\* only those threads sleep: no wake-up path leaks or loses a waiter.
WaitersCounted ==
    /\ fReadWaiters = Cardinality(WaitingToRead)
    /\ fWriteWaiters = Cardinality(WaitingToWrite)
    /\ fReadersCond \subseteq WaitingToRead
    /\ fWritersCond \subseteq WaitingToWrite

\* What the lock is for: nobody reads while somebody writes, and fState tells
\* who is in.  OSMutexRW.h:94 says of ActiveWriter "only one", but LockWrite waits
\* for readers only: the lock keeps this promise from the moment it is empty until
\* a writer joins another one.
ReadersExcludeWriters ==
    ~ overlapped =>
        /\ Writing # {} => Reading = {} /\ fState = eActiveWriterState
        /\ Writing = {} => fState = Cardinality(Reading)

\* However the writers have overlapped, with readers let in between them, the
\* lock is free again when the last one is out: fState never counts more threads
\* than are inside, so the error does not last.
FreeWhenEmpty ==
    /\ Inside = {} => fState = eNoWriterState
    /\ fState <= Cardinality(Inside)

\* No lost wake-up: a reader left asleep has a writer inside or a writer
\* waiting that will wake it, and a writer left asleep has a reader inside, a
\* writer inside, or another writer already awake in front of it.
NobodyStranded ==
    /\ fReadersCond # {} => ActiveWriter \/ WaitingWriters
    /\ fWritersCond # {} => Active \/ fWritersCond # WaitingToWrite

\* A queued writer gets its turn: readers that come later wait behind it.
WriterGetsIn == \A t \in Writers : pc[t] = "waiting" ~> pc[t] = "in"

\* Once the writers leave the lock alone, every waiting reader gets in.
ReaderGetsInWhenWritersStop ==
    \A t \in Readers :
        <>[](\A w \in Writers : pc[w] = "out")
            => (pc[t] = "waiting" ~> pc[t] = "in")
=============================================================================
