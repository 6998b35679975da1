-------------------------- MODULE OSMutexRW_proofs --------------------------
(***************************************************************************)
(* Theorems about OSMutexRW for any finite sets of readers and writers.    *)
(* Accounting is the inductive invariant: the counters and fState stay     *)
(* typed because every waiting thread is counted, and counted because      *)
(* every action moves one thread and one counter together.                 *)
(***************************************************************************)
EXTENDS OSMutexRW, FiniteSetTheorems, TLAPS

Accounting == TypeOK /\ WaitersCounted

\* The facts about counts that the steps below use, for one thread t whose pc
\* becomes v.
LEMMA WaitersAfterMove ==
    ASSUME TypeOK, NEW t \in Threads, NEW v \in {"out", "waiting", "in"},
           pc' = [pc EXCEPT ![t] = v]
    PROVE  /\ pc' \in [Threads -> {"out", "waiting", "in"}]
           /\ Cardinality(WaitingToRead) \in Nat
           /\ Cardinality(WaitingToWrite) \in Nat
           /\ Cardinality(WaitingToRead) = 0 <=> WaitingToRead = {}
           /\ Cardinality(WaitingToWrite) = 0 <=> WaitingToWrite = {}
           /\ t \in Readers => WaitingToWrite' = WaitingToWrite
           /\ t \in Writers => WaitingToRead' = WaitingToRead
           /\ v # "waiting" /\ pc[t] # "waiting" =>
                  /\ WaitingToWrite' = WaitingToWrite
                  /\ WaitingToRead' = WaitingToRead
           /\ t \in Readers /\ v = "waiting" /\ pc[t] # "waiting" =>
                  /\ Cardinality(WaitingToRead') = Cardinality(WaitingToRead) + 1
                  /\ WaitingToRead' = WaitingToRead \cup {t}
           /\ t \in Readers /\ v # "waiting" /\ pc[t] = "waiting" =>
                  /\ Cardinality(WaitingToRead') = Cardinality(WaitingToRead) - 1
                  /\ WaitingToRead' = WaitingToRead \ {t}
           /\ t \in Writers /\ v = "waiting" /\ pc[t] # "waiting" =>
                  /\ Cardinality(WaitingToWrite') = Cardinality(WaitingToWrite) + 1
                  /\ WaitingToWrite' = WaitingToWrite \cup {t}
           /\ t \in Writers /\ v # "waiting" /\ pc[t] = "waiting" =>
                  /\ Cardinality(WaitingToWrite') = Cardinality(WaitingToWrite) - 1
                  /\ WaitingToWrite' = WaitingToWrite \ {t}
<1> DEFINE St == {"out", "waiting", "in"}
           Move(S) == {x \in S : [pc EXCEPT ![t] = v][x] = "waiting"}
<1>1. pc \in [Threads -> St] /\ pc' \in [Threads -> St]
    BY DEF TypeOK
<1>2. /\ Readers \in SUBSET Threads /\ Writers \in SUBSET Threads
      /\ IsFiniteSet(Readers) /\ IsFiniteSet(Writers)
      /\ Readers \cap Writers = {}
    BY ThreadsAssumption DEF Threads
<1>3. WaitingToRead' = Move(Readers) /\ WaitingToWrite' = Move(Writers)
    BY DEF WaitingToRead, WaitingToWrite
<1>4. IsFiniteSet(WaitingToRead) /\ IsFiniteSet(WaitingToWrite)
    BY <1>2, FS_Subset DEF WaitingToRead, WaitingToWrite
<1>5. /\ Cardinality(WaitingToRead) \in Nat
      /\ Cardinality(WaitingToRead) = 0 <=> WaitingToRead = {}
      /\ Cardinality(WaitingToWrite) \in Nat
      /\ Cardinality(WaitingToWrite) = 0 <=> WaitingToWrite = {}
    BY <1>4, FS_CardinalityType, FS_EmptySet
<1>6. /\ t \in Readers => Move(Writers) = WaitingToWrite
      /\ t \in Writers => Move(Readers) = WaitingToRead
      /\ v # "waiting" /\ pc[t] # "waiting" =>
             Move(Writers) = WaitingToWrite /\ Move(Readers) = WaitingToRead
    BY <1>1, <1>2 DEF WaitingToRead, WaitingToWrite
<1>7. /\ t \in Readers /\ v = "waiting" => Move(Readers) = WaitingToRead \cup {t}
      /\ t \in Readers /\ v # "waiting" => Move(Readers) = WaitingToRead \ {t}
      /\ t \in Writers /\ v = "waiting" => Move(Writers) = WaitingToWrite \cup {t}
      /\ t \in Writers /\ v # "waiting" => Move(Writers) = WaitingToWrite \ {t}
    BY <1>1, <1>2 DEF WaitingToRead, WaitingToWrite
<1>8. /\ t \in WaitingToRead <=> t \in Readers /\ pc[t] = "waiting"
      /\ t \in WaitingToWrite <=> t \in Writers /\ pc[t] = "waiting"
    BY DEF WaitingToRead, WaitingToWrite
<1>9. \A S \in {WaitingToRead, WaitingToWrite} :
          /\ t \notin S => Cardinality(S \cup {t}) = Cardinality(S) + 1
          /\ t \in S => Cardinality(S \ {t}) = Cardinality(S) - 1
    <2> TAKE S \in {WaitingToRead, WaitingToWrite}
    <2>1. IsFiniteSet(S)
        BY <1>4
    <2>2. t \notin S => Cardinality(S \cup {t}) = Cardinality(S) + 1
        BY <2>1, FS_AddElement
    <2>3. t \in S => Cardinality(S \ {t}) = Cardinality(S) - 1
        BY <2>1, FS_RemoveElement
    <2> QED BY <2>2, <2>3
<1> HIDE DEF Move
<1> QED BY <1>1, <1>3, <1>5, <1>6, <1>7, <1>8, <1>9

LEMMA AccountingInit == Init => Accounting
<1> SUFFICES ASSUME Init PROVE Accounting
    OBVIOUS
<1>1. WaitingToRead = {} /\ WaitingToWrite = {}
    BY DEF Init, WaitingToRead, WaitingToWrite, Threads
<1>2. overlapped \in BOOLEAN
    BY Zenon DEF Init
<1> QED BY <1>1, <1>2, FS_EmptySet
        DEF Init, Accounting, TypeOK, WaitersCounted, eNoWriterState

LEMMA AccountingStep == Accounting /\ [Next]_vars => Accounting'
<1> SUFFICES ASSUME Accounting, [Next]_vars PROVE Accounting'
    OBVIOUS
<1> USE DEF Accounting, TypeOK
<1>r. ASSUME NEW t \in Readers PROVE t \in Threads
    BY DEF Threads
<1>w. ASSUME NEW t \in Writers PROVE t \in Threads
    BY DEF Threads
<1>1. ASSUME NEW t \in Readers, LockRead(t) PROVE Accounting'
    <2>1. CASE MustWaitToRead
        BY <1>1, <1>r, <2>1, WaitersAfterMove DEF LockRead, WaitersCounted
    <2>2. CASE ~ MustWaitToRead
        BY <1>1, <1>r, <2>2, WaitersAfterMove DEF LockRead, WaitersCounted
    <2> QED BY <2>1, <2>2
<1>2. ASSUME NEW t \in Readers, LockReadResume(t) PROVE Accounting'
    <2>1. CASE MustWaitToRead
        BY <1>2, <2>1 DEF LockReadResume, WaitersCounted, WaitingToRead, WaitingToWrite
    <2>2. CASE ~ MustWaitToRead
        <3>1. t \in WaitingToRead
            BY <1>2 DEF LockReadResume, WaitingToRead
        <3> QED BY <1>2, <1>r, <2>2, <3>1, WaitersAfterMove
                DEF LockReadResume, WaitersCounted
    <2> QED BY <2>1, <2>2
<1>3. ASSUME NEW t \in Readers, TryLockRead(t) PROVE Accounting'
    <2>1. pc' = [pc EXCEPT ![t] = "in"] /\ pc[t] = "out"
        BY <1>3 DEF TryLockRead
    <2>2. WaitingToRead' = WaitingToRead /\ WaitingToWrite' = WaitingToWrite
        BY <2>1, <1>r, WaitersAfterMove
    <2> QED BY <1>3, <1>r, <2>1, <2>2 DEF TryLockRead, WaitersCounted
<1>4. ASSUME NEW t \in Writers, LockWrite(t) PROVE Accounting'
    <2>1. CASE ActiveReaders
        BY <1>4, <1>w, <2>1, WaitersAfterMove DEF LockWrite, WriterEnters, WaitersCounted
    <2>2. CASE ~ ActiveReaders
        BY <1>4, <1>w, <2>2, WaitersAfterMove
        DEF LockWrite, WriterEnters, WaitersCounted, eActiveWriterState
    <2> QED BY <2>1, <2>2
<1>5. ASSUME NEW t \in Writers, LockWriteResume(t) PROVE Accounting'
    <2>1. CASE ActiveReaders
        BY <1>5, <2>1 DEF LockWriteResume, WriterEnters, WaitersCounted, WaitingToRead, WaitingToWrite
    <2>2. CASE ~ ActiveReaders
        <3>1. t \in WaitingToWrite
            BY <1>5 DEF LockWriteResume, WriterEnters, WaitingToWrite
        <3> QED BY <1>5, <1>w, <2>2, <3>1, WaitersAfterMove
                DEF LockWriteResume, WriterEnters, WaitersCounted, eActiveWriterState
    <2> QED BY <2>1, <2>2
<1>6. ASSUME NEW t \in Writers, TryLockWrite(t) PROVE Accounting'
    <2>1. pc' = [pc EXCEPT ![t] = "in"] /\ pc[t] = "out"
        BY <1>6 DEF TryLockWrite, WriterEnters
    <2>2. WaitingToRead' = WaitingToRead /\ WaitingToWrite' = WaitingToWrite
        BY <2>1, <1>w, WaitersAfterMove
    <2> QED BY <1>6, <1>w, <2>1, <2>2
            DEF TryLockWrite, WriterEnters, WaitersCounted, eActiveWriterState
<1>7. ASSUME NEW t \in Threads, Unlock(t) PROVE Accounting'
    <2>1. /\ fState' \in Int /\ fState' >= -1
          /\ fReadersCond' \subseteq fReadersCond
          /\ fWritersCond' \subseteq fWritersCond
        BY <1>7 DEF Unlock, WakeAfterWriter, WakeAfterLastReader, LeaveReading, SignalWriters, eNoWriterState, ActiveWriter
    <2> QED BY <1>7, <2>1, WaitersAfterMove DEF Unlock, WakeAfterWriter, WakeAfterLastReader, LeaveReading, WaitersCounted
<1>8. ASSUME NEW t \in Threads, WakeByItself(t) PROVE Accounting'
    BY <1>8 DEF WakeByItself, WaitersCounted, WaitingToRead, WaitingToWrite
<1>9. CASE UNCHANGED vars
    BY <1>9 DEF vars, WaitersCounted, WaitingToRead, WaitingToWrite
<1> QED BY <1>1, <1>2, <1>3, <1>4, <1>5, <1>6, <1>7, <1>8, <1>9 DEF Next

\* Type correctness: in particular fState never falls below -1 and no waiter
\* counter below 0, whatever the threads do (OSMutexRW.h:68-71).
THEOREM TypeCorrect == Spec => []TypeOK
<1>1. Accounting => TypeOK
    BY DEF Accounting
<1> QED BY AccountingInit, AccountingStep, <1>1, PTL DEF Spec

\* The waiter counters that decide who waits and who is signalled are exact.
THEOREM WaitersAreCounted == Spec => []WaitersCounted
<1>1. Accounting => WaitersCounted
    BY DEF Accounting
<1> QED BY AccountingInit, AccountingStep, <1>1, PTL DEF Spec

-----------------------------------------------------------------------------
LEMMA NobodyStrandedInit == Init => NobodyStranded
    BY DEF Init, NobodyStranded

LEMMA NobodyStrandedStep ==
    Accounting /\ NobodyStranded /\ [Next]_vars => NobodyStranded'
<1> SUFFICES ASSUME Accounting, NobodyStranded, [Next]_vars
             PROVE  NobodyStranded'
    OBVIOUS
<1> USE DEF Active, ActiveWriter, WaitingWriters, ActiveReaders, MustWaitToRead
<1>t. TypeOK /\ WaitersCounted
    BY DEF Accounting
<1>c. TypeOK' /\ WaitersCounted'
    BY AccountingStep DEF Accounting
<1>n. /\ Cardinality(WaitingToWrite) = fWriteWaiters /\ fWriteWaiters \in Nat
      /\ fState \in Int /\ fState >= -1
      /\ fWritersCond \subseteq WaitingToWrite
    BY <1>t DEF TypeOK, WaitersCounted
<1>e. fWriteWaiters = 0 => fWritersCond = {}
    <2>1. WaitingToWrite \in SUBSET Writers
        BY DEF WaitingToWrite
    <2> QED BY <1>n, <2>1, FS_EmptySet, FS_Subset, ThreadsAssumption
<1>1. ASSUME NEW t \in Readers, LockRead(t) PROVE NobodyStranded'
    <2>1. WaitingToWrite' = WaitingToWrite
        BY <1>1, <1>t, ThreadsAssumption
        DEF LockRead, WaitingToWrite, TypeOK, Threads
    <2> QED BY <1>1, <1>n, <2>1 DEF LockRead, NobodyStranded
<1>2. ASSUME NEW t \in Readers, LockReadResume(t) PROVE NobodyStranded'
    <2>1. WaitingToWrite' = WaitingToWrite
        BY <1>2, <1>t, ThreadsAssumption
        DEF LockReadResume, WaitingToWrite, TypeOK, Threads
    <2> QED BY <1>2, <1>n, <2>1 DEF LockReadResume, NobodyStranded
<1>3. ASSUME NEW t \in Readers, TryLockRead(t) PROVE NobodyStranded'
    <2>1. WaitingToWrite' = WaitingToWrite
        BY <1>3, <1>t, ThreadsAssumption
        DEF TryLockRead, WaitingToWrite, TypeOK, Threads
    <2> QED BY <1>3, <1>n, <2>1 DEF TryLockRead, NobodyStranded
<1>4. ASSUME NEW t \in Writers, LockWrite(t) PROVE NobodyStranded'
    BY <1>4, <1>n DEF LockWrite, WriterEnters, NobodyStranded, eActiveWriterState
<1>5. ASSUME NEW t \in Writers, LockWriteResume(t) PROVE NobodyStranded'
    BY <1>5, <1>n DEF LockWriteResume, WriterEnters, NobodyStranded, eActiveWriterState
<1>6. ASSUME NEW t \in Writers, TryLockWrite(t) PROVE NobodyStranded'
    BY <1>6, <1>n DEF TryLockWrite, WriterEnters, NobodyStranded, eActiveWriterState
<1>7. ASSUME NEW t \in Threads, Unlock(t) PROVE NobodyStranded'
    <2>1. WaitingToWrite' = WaitingToWrite
        BY <1>7, <1>t DEF Unlock, WakeAfterWriter, WakeAfterLastReader, LeaveReading, WaitingToWrite, TypeOK, Threads
    <2>2. SignalWriters => fWritersCond' = {} \/ fWritersCond' # WaitingToWrite'
        BY <1>n, <2>1 DEF SignalWriters
    <2>3. CASE ActiveWriter
        BY <1>7, <1>n, <1>e, <2>2, <2>3 DEF Unlock, WakeAfterWriter, WakeAfterLastReader, LeaveReading, NobodyStranded
    <2>4. CASE ~ ActiveWriter
        BY <1>7, <1>n, <2>2, <2>4 DEF Unlock, WakeAfterWriter, WakeAfterLastReader, LeaveReading, NobodyStranded
    <2> QED BY <2>3, <2>4
<1>8. ASSUME NEW t \in Threads, WakeByItself(t) PROVE NobodyStranded'
    <2>1. WaitingToWrite' = WaitingToWrite
        BY <1>8 DEF WakeByItself, WaitingToWrite
    <2> QED BY <1>8, <1>n, <2>1 DEF WakeByItself, NobodyStranded
<1>9. CASE UNCHANGED vars
    BY <1>9 DEF vars, NobodyStranded, WaitingToWrite
<1> QED BY <1>1, <1>2, <1>3, <1>4, <1>5, <1>6, <1>7, <1>8, <1>9 DEF Next

\* No lost wake-up, with any number of readers and writers and although two
\* writers may be in at once: the signals of OSMutexRW.cpp:128-144 suffice.
THEOREM NobodyIsStranded == Spec => []NobodyStranded
<1>1. Init => Accounting /\ NobodyStranded
    BY AccountingInit, NobodyStrandedInit
<1>2. Accounting /\ NobodyStranded /\ [Next]_vars
          => (Accounting /\ NobodyStranded)'
    BY AccountingStep, NobodyStrandedStep
<1> QED BY <1>1, <1>2, PTL DEF Spec

-----------------------------------------------------------------------------
\* While no writer has joined another one, one writer at most is inside.
OneWriting == ~ overlapped => \A v, w \in Writing : v = w

\* Exclusion is the inductive invariant of the lock: what the history promises
\* holds again after the lock was empty because fState is 0 then.
Exclusion == OneWriting /\ ReadersExcludeWriters /\ FreeWhenEmpty

LEMMA ExclusionInit == Init => Exclusion
<1>1. Init => Reading = {} /\ Writing = {} /\ Inside = {}
    BY DEF Init, Reading, Writing, Inside, Threads
<1> QED BY <1>1, FS_EmptySet
        DEF Init, Exclusion, OneWriting, ReadersExcludeWriters, FreeWhenEmpty,
            eNoWriterState

LEMMA ExclusionStep ==
    ASSUME Accounting, Exclusion, [Next]_vars
    PROVE  Exclusion'
<1> USE DEF Active, ActiveWriter, WaitingWriters, ActiveReaders, MustWaitToRead,
            eActiveWriterState, eNoWriterState
<1>t. TypeOK
    BY DEF Accounting
<1>e. OneWriting /\ ReadersExcludeWriters /\ FreeWhenEmpty
    BY DEF Exclusion
<1>s. \A S \in {Reading, Inside} :
          /\ Cardinality(S) \in Nat
          /\ Cardinality(S) = 0 <=> S = {}
          /\ \A t : /\ t \notin S => Cardinality(S \cup {t}) = Cardinality(S) + 1
                    /\ t \in S => Cardinality(S \ {t}) = Cardinality(S) - 1
    <2> TAKE S \in {Reading, Inside}
    <2>1. IsFiniteSet(Threads) /\ Reading \in SUBSET Threads /\ Inside \in SUBSET Threads
        BY FS_Union, ThreadsAssumption DEF Reading, Writing, Inside, Threads
    <2>2. IsFiniteSet(S)
        BY <2>1, FS_Subset
    <2> QED BY <2>2, FS_CardinalityType, FS_EmptySet, FS_AddElement, FS_RemoveElement
<1>c. /\ Cardinality(Reading) \in Nat
      /\ Cardinality(Reading) = 0 <=> Reading = {}
      /\ Cardinality(Inside) \in Nat
      /\ Cardinality(Inside) = 0 <=> Inside = {}
    BY <1>s
<1>v. fState \in Int /\ fState >= -1
    BY <1>t DEF TypeOK
<1>g. \* A reader that gets in.
      ASSUME NEW t \in Readers, pc[t] # "in", ~ MustWaitToRead, UNCHANGED overlapped,
             fState' = fState + 1, pc' = [pc EXCEPT ![t] = "in"]
      PROVE  Exclusion'
    <2>1. /\ Writing' = Writing /\ Reading' = Reading \cup {t} /\ t \notin Reading
          /\ Inside' = Inside \cup {t} /\ t \notin Inside
        BY <1>t, <1>g, ThreadsAssumption
        DEF Reading, Writing, Inside, TypeOK, Threads
    <2>2. /\ Cardinality(Reading') = Cardinality(Reading) + 1
          /\ Cardinality(Inside') = Cardinality(Inside) + 1
        BY <2>1, <1>s
    <2>3. OneWriting'
        BY <2>1, <1>g, <1>e DEF OneWriting
    <2>4. ReadersExcludeWriters'
        BY <1>v, <1>c, <1>e, <1>g, <2>1, <2>2 DEF ReadersExcludeWriters
    <2>5. FreeWhenEmpty'
        BY <1>v, <1>c, <1>e, <1>g, <2>1, <2>2 DEF FreeWhenEmpty
    <2> QED BY <2>3, <2>4, <2>5 DEF Exclusion
<1>h. \* A writer gets in.
      ASSUME NEW t \in Writers, pc[t] # "in", ~ ActiveReaders, WriterEnters(t)
      PROVE  Exclusion'
    <2>1. /\ Reading' = Reading /\ Writing' = Writing \cup {t}
          /\ Inside' = Inside \cup {t} /\ t \notin Inside
        BY <1>t, <1>h, ThreadsAssumption
        DEF WriterEnters, Reading, Writing, Inside, TypeOK, Threads
    <2>2. Cardinality(Inside') = Cardinality(Inside) + 1 /\ fState' = -1
        BY <1>h, <2>1, <1>s DEF WriterEnters
    <2>3. ~ overlapped' => ~ overlapped /\ Writing = {}
        BY <1>h, <1>t DEF WriterEnters, TypeOK
    <2>4. OneWriting'
        BY <2>1, <2>3 DEF OneWriting
    <2>5. ReadersExcludeWriters'
        BY <1>v, <1>c, <1>e, <1>h, <2>1, <2>2, <2>3 DEF ReadersExcludeWriters
    <2>6. FreeWhenEmpty'
        BY <1>c, <2>1, <2>2 DEF FreeWhenEmpty
    <2> QED BY <2>4, <2>5, <2>6 DEF Exclusion
<1>k. ASSUME UNCHANGED <<fState, overlapped>>,
             \A t \in Threads : pc'[t] = "in" <=> pc[t] = "in"
      PROVE  Exclusion'
    <2>1. Reading' = Reading /\ Writing' = Writing /\ Inside' = Inside
        BY <1>k DEF Reading, Writing, Inside, Threads
    <2> QED BY <1>k, <1>e, <2>1
            DEF Exclusion, OneWriting, ReadersExcludeWriters, FreeWhenEmpty
<1>1. ASSUME NEW t \in Readers, LockRead(t) PROVE Exclusion'
    <2>1. CASE MustWaitToRead
        BY <1>1, <1>k, <1>t, <2>1 DEF LockRead, TypeOK
    <2>2. CASE ~ MustWaitToRead
        BY <1>1, <1>g, <2>2 DEF LockRead
    <2> QED BY <2>1, <2>2
<1>2. ASSUME NEW t \in Readers, LockReadResume(t) PROVE Exclusion'
    <2>1. CASE MustWaitToRead
        BY <1>2, <1>k, <2>1 DEF LockReadResume
    <2>2. CASE ~ MustWaitToRead
        BY <1>2, <1>g, <2>2 DEF LockReadResume
    <2> QED BY <2>1, <2>2
<1>3. ASSUME NEW t \in Readers, TryLockRead(t) PROVE Exclusion'
    BY <1>3, <1>g DEF TryLockRead
<1>4. ASSUME NEW t \in Writers, LockWrite(t) PROVE Exclusion'
    <2>1. CASE ActiveReaders
        BY <1>4, <1>k, <1>t, <2>1 DEF LockWrite, WriterEnters, TypeOK
    <2>2. CASE ~ ActiveReaders
        BY <1>4, <1>h, <2>2 DEF LockWrite
    <2> QED BY <2>1, <2>2
<1>5. ASSUME NEW t \in Writers, LockWriteResume(t) PROVE Exclusion'
    <2>1. CASE ActiveReaders
        BY <1>5, <1>k, <2>1 DEF LockWriteResume
    <2>2. CASE ~ ActiveReaders
        BY <1>5, <1>h, <2>2 DEF LockWriteResume
    <2> QED BY <2>1, <2>2
<1>6. ASSUME NEW t \in Writers, TryLockWrite(t) PROVE Exclusion'
    <2>1. pc[t] # "in" /\ ~ ActiveReaders /\ WriterEnters(t)
        BY <1>6 DEF TryLockWrite
    <2> QED BY <1>6, <1>h, <2>1
<1>7. ASSUME NEW t \in Threads, Unlock(t) PROVE Exclusion'
    <2>1. /\ Reading' = Reading \ {t} /\ Writing' = Writing \ {t}
          /\ Inside' = Inside \ {t} /\ t \in Inside
          /\ t \in Reading <=> t \notin Writing
        BY <1>7, <1>t, ThreadsAssumption
        DEF Unlock, Reading, Writing, Inside, TypeOK, Threads
    <2>2. /\ Cardinality(Inside') = Cardinality(Inside) - 1
          /\ t \in Reading => Cardinality(Reading') = Cardinality(Reading) - 1
          /\ t \notin Reading => Reading' = Reading
        BY <2>1, <1>s
    <2>3. fState' = IF fState > 1 THEN fState - 1 ELSE 0
        BY <1>7, <1>v DEF Unlock, LeaveReading
    <2>4. ~ overlapped' => ~ overlapped \/ Inside' = {}
        BY <1>7, <2>1 DEF Unlock
    <2>5. Cardinality(Inside') \in Nat /\ (Cardinality(Inside') = 0 => Inside' = {})
        <3>1. IsFiniteSet(Inside')
            BY <2>1, FS_Union, FS_Subset, ThreadsAssumption
            DEF Reading, Writing, Inside, Threads
        <3> QED BY <3>1, FS_CardinalityType, FS_EmptySet
    <2>6. FreeWhenEmpty'
        <3>1. Inside' = {} => Cardinality(Inside') = 0
            BY FS_EmptySet
        <3> QED BY <1>v, <1>c, <1>e, <2>2, <2>3, <2>5, <3>1 DEF FreeWhenEmpty
    <2>7. OneWriting'
        BY <1>e, <2>1, <2>4 DEF OneWriting, Inside
    <2>8. ReadersExcludeWriters'
        <3>1. CASE Inside' = {}
            <4>1. Reading' = {} /\ Writing' = {} /\ Cardinality(Reading') = 0
                BY <3>1, FS_EmptySet DEF Inside
            <4> QED BY <2>6, <3>1, <4>1 DEF ReadersExcludeWriters, FreeWhenEmpty
        <3>2. CASE ~ overlapped /\ t \in Writing
            <4>1. Writing' = {} /\ Reading' = Reading
                BY <1>e, <2>1, <2>2, <3>2 DEF OneWriting
            <4> QED BY <1>c, <1>e, <2>3, <3>2, <4>1 DEF ReadersExcludeWriters
        <3>3. CASE ~ overlapped /\ t \in Reading
            <4>1. Writing = {} /\ fState = Cardinality(Reading) /\ fState > 0
                BY <1>c, <1>e, <3>3 DEF ReadersExcludeWriters
            <4>2. Writing' = {}
                BY <2>1, <4>1
            <4> QED BY <1>c, <2>2, <2>3, <3>3, <4>1, <4>2 DEF ReadersExcludeWriters
        <3>4. CASE overlapped'
            BY <3>4 DEF ReadersExcludeWriters
        <3> QED BY <2>1, <2>4, <3>1, <3>2, <3>3, <3>4
    <2> QED BY <2>6, <2>7, <2>8 DEF Exclusion
<1>8. ASSUME NEW t \in Threads, WakeByItself(t) PROVE Exclusion'
    BY <1>8, <1>k DEF WakeByItself
<1>9. CASE UNCHANGED vars
    BY <1>9, <1>k DEF vars
<1> QED BY <1>1, <1>2, <1>3, <1>4, <1>5, <1>6, <1>7, <1>8, <1>9 DEF Next

LEMMA ExclusionHolds == Spec => [](Accounting /\ Exclusion)
<1>1. Init => Accounting /\ Exclusion
    BY AccountingInit, ExclusionInit
<1>2. Accounting /\ Exclusion /\ [Next]_vars => (Accounting /\ Exclusion)'
    BY AccountingStep, ExclusionStep
<1> QED BY <1>1, <1>2, PTL DEF Spec

\* For any readers and writers: until a writer joins another one, which
\* OSMutexRW.cpp:102 does not prevent, nobody reads while a writer is inside and
\* fState tells who is; and the lock keeps that promise again once it was empty.
THEOREM ExclusionUntilWritersOverlap == Spec => []ReadersExcludeWriters
<1>1. Exclusion => ReadersExcludeWriters
    BY DEF Exclusion
<1> QED BY ExclusionHolds, <1>1, PTL

\* However many writers are in at once, with readers let in between them, the
\* lock is free when the last thread is out (OSMutexRW.cpp:117-148).
THEOREM FreeWhenLeft == Spec => []FreeWhenEmpty
<1>1. Exclusion => FreeWhenEmpty
    BY DEF Exclusion
<1> QED BY ExclusionHolds, <1>1, PTL
=============================================================================
