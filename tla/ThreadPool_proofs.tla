-------------------------- MODULE ThreadPool_proofs --------------------------
(***************************************************************************)
(* threadpool_destroy frees a drained pool, for every number of threads,   *)
(* callers, jobs and places in the queue.                                  *)
(***************************************************************************)
EXTENDS ThreadPool, TLAPS

\* A job in the queue was accepted, is there once and has not been taken.
QueueSound ==
    \A i \in 1..Len(queue) :
        /\ queue[i] \in accepted
        /\ done[queue[i]] = 0
        /\ \A w \in Workers : pjob[w] # queue[i]
        /\ \A k \in 1..Len(queue) : queue[i] = queue[k] => i = k

\* A thread that runs has a job of its own, which has not run before.
TakenSound ==
    /\ \A w \in Workers : worker[w] = "running" <=> pjob[w] # NoJob
    /\ \A w \in Workers : pjob[w] # NoJob => pjob[w] \in accepted /\ done[pjob[w]] = 0
    /\ \A v, w \in Workers : pjob[v] = pjob[w] /\ pjob[w] # NoJob => v = w

\* An accepted job is in the queue, with a thread, or done, once.
Accounted ==
    \A j \in Jobs :
        /\ done[j] \in {0, 1}
        /\ done[j] = 1 => j \in accepted
        /\ j \in accepted => \/ done[j] = 1
                             \/ \E i \in 1..Len(queue) : queue[i] = j
                             \/ \E w \in Workers : pjob[w] = j

\* A job that is handed in has not been accepted, and nobody else hands it in.
HandedSound ==
    /\ accepted \subseteq handed
    /\ \A c \in Callers : caller[c] # "out" => job[c] # NoJob
    /\ \A c \in Callers : job[c] # NoJob => job[c] \in handed \ accepted
    /\ \A b, c \in Callers : job[b] = job[c] /\ job[c] # NoJob => b = c

\* A pool that closes takes no job; one that has closed has none to take.
ClosingSound ==
    /\ pool_close => queue = <<>> /\ queue_close
    /\ \A d \in Destroyers :
          /\ destroyer[d] # "out" => queue_close
          /\ destroyer[d] \notin {"out", "testing", "waiting"} => pool_close
          /\ destroyer[d] = "freed" => \A w \in Workers : worker[w] = "exited"

IInv == TypeOK /\ QueueSound /\ TakenSound /\ Accounted /\ HandedSound /\ ClosingSound

-----------------------------------------------------------------------------
\* Those who are woken were waiting and go on testing.
LEMMA WorkersWoken ==
    ASSUME TypeOK
    PROVE  /\ Woken(worker) \in [Workers -> {"testing", "waiting", "running", "exited"}]
           /\ \A w \in Workers : \/ Woken(worker)[w] = worker[w]
                                 \/ worker[w] = "waiting" /\ Woken(worker)[w] = "testing"
BY DEF TypeOK, Woken

LEMMA CallersWoken ==
    ASSUME TypeOK
    PROVE  /\ Woken(caller) \in [Callers -> {"out", "testing", "waiting"}]
           /\ \A c \in Callers : \/ Woken(caller)[c] = caller[c]
                                 \/ caller[c] = "waiting" /\ Woken(caller)[c] = "testing"
BY DEF TypeOK, Woken

\* The elements of a queue after a job is appended.
LEMMA Appended ==
    ASSUME NEW q \in Seq(Jobs), NEW j \in Jobs
    PROVE  /\ Append(q, j) \in Seq(Jobs)
           /\ Len(Append(q, j)) = Len(q) + 1
           /\ Len(q) \in Nat
           /\ \A i \in 1..Len(q) : Append(q, j)[i] = q[i]
           /\ Append(q, j)[Len(q) + 1] = j
OBVIOUS

\* The elements of a queue after the first is taken.
LEMMA Taken ==
    ASSUME NEW q \in Seq(Jobs), q # <<>>
    PROVE  /\ Tail(q) \in Seq(Jobs)
           /\ Len(q) \in Nat \ {0}
           /\ Len(Tail(q)) = Len(q) - 1
           /\ \A i \in 1..Len(q) - 1 : Tail(q)[i] = q[i + 1]
           /\ Head(q) = q[1]
           /\ Head(q) \in Jobs
OBVIOUS

LEMMA Initially == Init => IInv
<1> SUFFICES ASSUME Init
             PROVE  IInv
  OBVIOUS
<1>1. queue = <<>> /\ queue \in Seq(Jobs) /\ Len(queue) = 0
  BY DEF Init
<1>2. TypeOK
  BY <1>1 DEF Init, TypeOK
<1>3. QueueSound
  BY <1>1 DEF QueueSound
<1>4. TakenSound /\ HandedSound /\ ClosingSound
  BY DEF Init, TakenSound, HandedSound, ClosingSound
<1>5. Accounted
  BY DEF Init, Accounted
<1>6. QED
  BY <1>2, <1>3, <1>4, <1>5 DEF IInv

-----------------------------------------------------------------------------
\* A job is appended.
LEMMA AcceptKeeps ==
    ASSUME IInv, NEW c \in Callers, Accept(c)
    PROVE  IInv'
<1> USE ConstantsAssumption
<1> DEFINE j == job[c]
<1>1. /\ TypeOK /\ QueueSound /\ TakenSound /\ Accounted /\ HandedSound /\ ClosingSound
  BY DEF IInv
<1>2. /\ caller[c] = "testing" /\ ~queue_close /\ ~pool_close /\ ~Freed
      /\ queue' = Append(queue, j) /\ NotifyNotEmpty /\ accepted' = accepted \cup {j}
      /\ caller' = [caller EXCEPT ![c] = "out"] /\ job' = [job EXCEPT ![c] = NoJob]
      /\ UNCHANGED <<queue_close, pool_close, pjob, destroyer, handed, done>>
  BY DEF Accept, Return
<1>3. j \in Jobs /\ j \in handed /\ j \notin accepted
  BY <1>1, <1>2 DEF HandedSound, TypeOK
<1>4. /\ queue' \in Seq(Jobs)
      /\ Len(queue') = Len(queue) + 1
      /\ Len(queue) \in Nat
      /\ \A i \in 1..Len(queue) : queue'[i] = queue[i]
      /\ queue'[Len(queue) + 1] = j
  <2>1. queue \in Seq(Jobs) /\ queue' = Append(queue, j)
    BY <1>1, <1>2 DEF TypeOK
  <2>2. QED
    BY <1>3, <2>1, Appended
<1>5. /\ worker' \in [Workers -> {"testing", "waiting", "running", "exited"}]
      /\ \A w \in Workers : \/ worker'[w] = worker[w]
                            \/ worker[w] = "waiting" /\ worker'[w] = "testing"
  <2>1. CASE worker' = worker
    BY <1>1, <2>1 DEF TypeOK
  <2>2. CASE worker' = Woken(worker)
    BY <1>1, <2>2, WorkersWoken
  <2>3. QED
    BY <1>2, <2>1, <2>2 DEF NotifyNotEmpty
<1>6. TypeOK'
  BY <1>1, <1>2, <1>3, <1>4, <1>5 DEF TypeOK
<1>7. QueueSound'
  <2>1. done[j] = 0
    BY <1>1, <1>3 DEF Accounted
  <2>2. \A w \in Workers : pjob[w] # j
    BY <1>1, <1>3 DEF TakenSound
  <2>3. \A i \in 1..Len(queue) : queue[i] # j
    BY <1>1, <1>3 DEF QueueSound
  <2>4. \A i \in 1..Len(queue') : i \in 1..Len(queue) \/ i = Len(queue) + 1
    BY <1>4
  <2>5. QED
    <3> SUFFICES ASSUME NEW i \in 1..Len(queue')
                 PROVE  /\ queue'[i] \in accepted' /\ done[queue'[i]] = 0
                        /\ \A w \in Workers : pjob[w] # queue'[i]
                        /\ \A k \in 1..Len(queue') : queue'[i] = queue'[k] => i = k
      BY <1>2 DEF QueueSound
    <3>1. CASE i = Len(queue) + 1
      BY <1>2, <1>4, <2>1, <2>2, <2>3, <2>4, <3>1
    <3>2. CASE i \in 1..Len(queue)
      <4>1. queue'[i] = queue[i]
        BY <1>4, <3>2
      <4>2. queue[i] \in accepted' /\ done[queue[i]] = 0 /\ \A w \in Workers : pjob[w] # queue[i]
        BY <1>1, <1>2, <3>2 DEF QueueSound
      <4>3. ASSUME NEW k \in 1..Len(queue'), queue'[i] = queue'[k]
            PROVE  i = k
        <5>1. k # Len(queue) + 1
          BY <1>4, <2>3, <3>2, <4>1, <4>3
        <5>2. k \in 1..Len(queue) /\ queue'[k] = queue[k]
          BY <1>4, <2>4, <5>1
        <5>3. QED
          BY <1>1, <3>2, <4>1, <4>3, <5>2 DEF QueueSound
      <4>4. QED
        BY <4>1, <4>2, <4>3
    <3>3. QED
      BY <2>4, <3>1, <3>2
<1>8. TakenSound'
  <2>1. \A w \in Workers : worker'[w] = "running" <=> worker[w] = "running"
    BY <1>5
  <2>2. accepted \subseteq accepted' /\ pjob' = pjob /\ done' = done
    BY <1>2
  <2>3. QED
    BY <1>1, <2>1, <2>2 DEF TakenSound
<1>9. Accounted'
  <2>1. \A i \in 1..Len(queue) : i \in 1..Len(queue') /\ queue'[i] = queue[i]
    BY <1>4
  <2>2. Len(queue) + 1 \in 1..Len(queue') /\ queue'[Len(queue) + 1] = j
    BY <1>4
  <2>3. QED
    BY <1>1, <1>2, <2>1, <2>2 DEF Accounted
<1>10. HandedSound'
  BY <1>1, <1>2, <1>3 DEF HandedSound, TypeOK
<1>11. ClosingSound'
  BY <1>1, <1>2, <1>5 DEF ClosingSound, Freed
<1>12. QED
  BY <1>6, <1>7, <1>8, <1>9, <1>10, <1>11 DEF IInv

\* The first job is taken.
LEMMA TakeKeeps ==
    ASSUME IInv, NEW w \in Workers, Take(w)
    PROVE  IInv'
<1> USE ConstantsAssumption
<1> DEFINE j == Head(queue)
<1>1. /\ TypeOK /\ QueueSound /\ TakenSound /\ Accounted /\ HandedSound /\ ClosingSound
  BY DEF IInv
<1>2. /\ worker[w] = "testing" /\ queue # <<>> /\ ~pool_close
      /\ pjob' = [pjob EXCEPT ![w] = j] /\ queue' = Tail(queue)
      /\ worker' = [worker EXCEPT ![w] = "running"]
      /\ NotifyEmpty /\ NotifyNotFull
      /\ UNCHANGED <<queue_close, pool_close, job, accepted, handed, done>>
  BY DEF Take
<1>3. /\ queue' \in Seq(Jobs)
      /\ Len(queue) \in Nat \ {0}
      /\ Len(queue') = Len(queue) - 1
      /\ \A i \in 1..Len(queue) - 1 : queue'[i] = queue[i + 1]
      /\ j = queue[1]
      /\ j \in Jobs
  BY <1>1, <1>2, Taken DEF TypeOK
<1>4. /\ caller' \in [Callers -> {"out", "testing", "waiting"}]
      /\ \A c \in Callers : \/ caller'[c] = caller[c]
                            \/ caller[c] = "waiting" /\ caller'[c] = "testing"
  <2>1. CASE caller' = caller
    BY <1>1, <2>1 DEF TypeOK
  <2>2. CASE caller' = Woken(caller)
    BY <1>1, <2>2, CallersWoken
  <2>3. QED
    BY <1>2, <2>1, <2>2 DEF NotifyNotFull
<1>5. /\ destroyer' \in [Destroyers -> {"out", "testing", "waiting", "broadcast not empty",
                                        "broadcast not full", "joining", "freed"}]
      /\ \A d \in Destroyers : \/ destroyer'[d] = destroyer[d]
                               \/ destroyer[d] = "waiting" /\ destroyer'[d] = "testing"
  BY <1>1, <1>2 DEF NotifyEmpty, TypeOK
<1>6. /\ j \in accepted /\ done[j] = 0
      /\ \A v \in Workers : pjob[v] # j
      /\ \A i \in 2..Len(queue) : queue[i] # j
  <2>1. 1 \in 1..Len(queue) /\ \A i \in 2..Len(queue) : i \in 1..Len(queue) /\ i # 1
    BY <1>3
  <2>2. QED
    BY <1>1, <1>3, <2>1 DEF QueueSound
<1>7. \A i \in 1..Len(queue') : /\ i + 1 \in 2..Len(queue)
                                /\ i + 1 \in 1..Len(queue)
                                /\ queue'[i] = queue[i + 1]
  BY <1>3
<1>8. TypeOK'
  BY <1>1, <1>2, <1>3, <1>4, <1>5 DEF TypeOK
<1>9. QueueSound'
  <2> SUFFICES ASSUME NEW i \in 1..Len(queue')
               PROVE  /\ queue'[i] \in accepted /\ done[queue'[i]] = 0
                      /\ \A v \in Workers : pjob'[v] # queue'[i]
                      /\ \A k \in 1..Len(queue') : queue'[i] = queue'[k] => i = k
    BY <1>2 DEF QueueSound
  <2>1. queue[i + 1] \in accepted /\ done[queue[i + 1]] = 0
    BY <1>1, <1>7 DEF QueueSound
  <2>2. \A v \in Workers : pjob'[v] # queue'[i]
    <3>1. \A v \in Workers : pjob'[v] = IF v = w THEN j ELSE pjob[v]
      BY <1>1, <1>2 DEF TypeOK
    <3>2. queue[i + 1] # j /\ \A v \in Workers : pjob[v] # queue[i + 1]
      BY <1>1, <1>6, <1>7 DEF QueueSound
    <3>3. QED
      BY <1>7, <3>1, <3>2
  <2>3. ASSUME NEW k \in 1..Len(queue'), queue'[i] = queue'[k]
        PROVE  i = k
    <3>1. i + 1 = k + 1
      BY <1>1, <1>7, <2>3 DEF QueueSound
    <3>2. QED
      BY <3>1, <1>3
  <2>4. QED
    BY <1>7, <2>1, <2>2, <2>3
<1>10. TakenSound'
  <2>1. \A v \in Workers : /\ pjob'[v] = IF v = w THEN j ELSE pjob[v]
                           /\ worker'[v] = IF v = w THEN "running" ELSE worker[v]
    BY <1>1, <1>2 DEF TypeOK
  <2>2. j # NoJob
    BY <1>3
  <2>3. QED
    BY <1>1, <1>2, <1>6, <2>1, <2>2 DEF TakenSound
<1>11. Accounted'
  <2> SUFFICES ASSUME NEW a \in Jobs, a \in accepted, done[a] # 1
               PROVE  \/ \E i \in 1..Len(queue') : queue'[i] = a
                      \/ \E v \in Workers : pjob'[v] = a
    BY <1>1, <1>2 DEF Accounted
  <2>1. CASE \E v \in Workers : pjob[v] = a
    <3>1. PICK v \in Workers : pjob[v] = a
      BY <2>1
    <3>2. v # w
      BY <1>1, <1>2, <3>1 DEF TakenSound
    <3>3. QED
      BY <1>1, <1>2, <3>1, <3>2 DEF TypeOK
  <2>2. CASE \E i \in 1..Len(queue) : queue[i] = a
    <3>1. PICK i \in 1..Len(queue) : queue[i] = a
      BY <2>2
    <3>2. CASE i = 1
      BY <1>1, <1>2, <1>3, <3>1, <3>2 DEF TypeOK
    <3>3. CASE i # 1
      <4>1. i - 1 \in 1..Len(queue') /\ queue'[i - 1] = queue[i]
        BY <1>3, <3>3
      <4>2. QED
        BY <3>1, <4>1
    <3>4. QED
      BY <3>2, <3>3
  <2>3. QED
    BY <1>1, <2>1, <2>2 DEF Accounted
<1>12. HandedSound'
  BY <1>1, <1>2, <1>4 DEF HandedSound
<1>13. ClosingSound'
  BY <1>1, <1>2, <1>3, <1>5 DEF ClosingSound
<1>14. QED
  BY <1>8, <1>9, <1>10, <1>11, <1>12, <1>13 DEF IInv

\* A job is done.
LEMMA FinishKeeps ==
    ASSUME IInv, NEW w \in Workers, Finish(w)
    PROVE  IInv'
<1> USE ConstantsAssumption
<1> DEFINE j == pjob[w]
<1>1. /\ TypeOK /\ QueueSound /\ TakenSound /\ Accounted /\ HandedSound /\ ClosingSound
  BY DEF IInv
<1>2. /\ worker[w] = "running"
      /\ done' = [done EXCEPT ![j] = @ + 1]
      /\ worker' = [worker EXCEPT ![w] = "testing"]
      /\ pjob' = [pjob EXCEPT ![w] = NoJob]
      /\ UNCHANGED <<queue, queue_close, pool_close, caller, job, destroyer, accepted, handed>>
  BY DEF Finish
<1>3. /\ j \in Jobs /\ j \in accepted /\ done[j] = 0
      /\ \A v \in Workers \ {w} : pjob[v] # j
      /\ \A i \in 1..Len(queue) : queue[i] # j
  BY <1>1, <1>2 DEF TakenSound, TypeOK, QueueSound
<1>4. done' \in [Jobs -> Nat] /\ done'[j] = 1 /\ \A a \in Jobs \ {j} : done'[a] = done[a]
  <2>1. done \in [Jobs -> Nat]
    BY <1>1 DEF TypeOK
  <2>2. done' = [done EXCEPT ![j] = 1]
    BY <1>2, <1>3
  <2>3. QED
    BY <1>3, <2>1, <2>2
<1>5. TypeOK'
  BY <1>1, <1>2, <1>4 DEF TypeOK
<1>6. QueueSound'
  <2>1. \A i \in 1..Len(queue) : queue[i] \in Jobs
    <3>1. queue \in Seq(Jobs)
      BY <1>1 DEF TypeOK
    <3>2. QED
      BY <3>1
  <2>2. \A i \in 1..Len(queue) : NoJob # queue[i] /\ done'[queue[i]] = done[queue[i]]
    BY <1>3, <1>4, <2>1
  <2>3. \A v \in Workers : pjob'[v] = IF v = w THEN NoJob ELSE pjob[v]
    BY <1>1, <1>2 DEF TypeOK
  <2>4. QED
    BY <1>1, <1>2, <2>2, <2>3 DEF QueueSound
<1>7. TakenSound'
  <2>1. \A v \in Workers : /\ pjob'[v] = IF v = w THEN NoJob ELSE pjob[v]
                           /\ worker'[v] = IF v = w THEN "testing" ELSE worker[v]
    BY <1>1, <1>2 DEF TypeOK
  <2>2. \A v \in Workers : pjob'[v] # NoJob =>
            /\ v # w /\ pjob[v] # NoJob
            /\ pjob[v] \in Jobs \ {j}
            /\ done'[pjob[v]] = done[pjob[v]]
    <3>1. \A v \in Workers : pjob[v] \in Jobs \cup {NoJob}
      BY <1>1 DEF TypeOK
    <3>2. \A v \in Workers : pjob'[v] # NoJob => v # w /\ pjob[v] # NoJob
      BY <2>1
    <3>3. QED
      BY <1>3, <1>4, <3>1, <3>2
  <2>3. QED
    BY <1>1, <1>2, <2>1, <2>2 DEF TakenSound
<1>8. Accounted'
  <2> SUFFICES ASSUME NEW a \in Jobs
               PROVE  /\ done'[a] \in {0, 1}
                      /\ done'[a] = 1 => a \in accepted
                      /\ a \in accepted => \/ done'[a] = 1
                                           \/ \E i \in 1..Len(queue) : queue[i] = a
                                           \/ \E v \in Workers : pjob'[v] = a
    BY <1>2 DEF Accounted
  <2>1. CASE a = j
    BY <1>3, <1>4, <2>1
  <2>2. CASE a # j
    <3>1. \A v \in Workers : pjob[v] = a => pjob'[v] = a
      BY <1>1, <1>2, <2>2 DEF TypeOK
    <3>2. QED
      BY <1>1, <1>4, <2>2, <3>1 DEF Accounted
  <2>3. QED
    BY <2>1, <2>2
<1>9. HandedSound'
  BY <1>1, <1>2 DEF HandedSound
<1>10. ClosingSound'
  BY <1>1, <1>2 DEF ClosingSound
<1>11. QED
  BY <1>5, <1>6, <1>7, <1>8, <1>9, <1>10 DEF IInv

-----------------------------------------------------------------------------
\* Nothing happens to the jobs of the queue and the threads.
JobsAtRest == UNCHANGED <<queue, pjob, accepted, done>>

LEMMA AtRestKeeps ==
    ASSUME IInv, JobsAtRest,
           \A w \in Workers : worker'[w] = "running" <=> worker[w] = "running"
    PROVE  QueueSound' /\ TakenSound' /\ Accounted'
BY DEF IInv, JobsAtRest, QueueSound, TakenSound, Accounted

\* The steps of a caller but for Accept.
LEMMA CallersKeep ==
    ASSUME IInv, NEW c \in Callers,
           WaitNotFull(c) \/ Refuse(c) \/ \E j \in Jobs : CallAddJob(c, j)
    PROVE  IInv'
<1> USE ConstantsAssumption
<1>1. JobsAtRest /\ UNCHANGED <<worker, destroyer, queue_close, pool_close>>
  BY DEF WaitNotFull, Refuse, CallAddJob, JobsAtRest
<1>2. QueueSound' /\ TakenSound' /\ Accounted'
  BY <1>1, AtRestKeeps
<1>3. ClosingSound'
  BY <1>1 DEF IInv, ClosingSound, JobsAtRest
<1>4. TypeOK' /\ HandedSound'
  <2>1. CASE WaitNotFull(c)
    BY <2>1 DEF WaitNotFull, IInv, TypeOK, HandedSound
  <2>2. CASE Refuse(c)
    BY <2>2 DEF Refuse, Return, IInv, TypeOK, HandedSound
  <2>3. ASSUME NEW j \in Jobs, CallAddJob(c, j)
        PROVE  TypeOK' /\ HandedSound'
    <3>1. TypeOK'
      BY <2>3 DEF CallAddJob, IInv, TypeOK
    <3>2. /\ j \notin handed /\ j # NoJob /\ handed' = handed \cup {j} /\ accepted' = accepted
          /\ \A b \in Callers : /\ job'[b] = (IF b = c THEN j ELSE job[b])
                                /\ caller'[b] = (IF b = c THEN "testing" ELSE caller[b])
      BY <2>3 DEF CallAddJob, IInv, TypeOK
    <3>3. HandedSound'
      BY <3>2 DEF IInv, HandedSound
    <3>4. QED
      BY <3>1, <3>3
  <2>4. QED
    BY <2>1, <2>2, <2>3
<1>5. QED
  BY <1>2, <1>3, <1>4 DEF IInv

\* The steps of a thread that has no job.
LEMMA IdleKeeps ==
    ASSUME IInv, NEW w \in Workers, WaitNotEmpty(w) \/ Exit(w)
    PROVE  IInv'
<1>1. /\ JobsAtRest /\ worker[w] = "testing"
      /\ worker' \in {[worker EXCEPT ![w] = "waiting"], [worker EXCEPT ![w] = "exited"]}
      /\ UNCHANGED <<queue_close, pool_close, caller, job, destroyer, handed>>
  BY DEF WaitNotEmpty, Exit, JobsAtRest
<1>2. QueueSound' /\ TakenSound' /\ Accounted'
  BY <1>1, AtRestKeeps DEF IInv, TypeOK
<1>3. TypeOK' /\ HandedSound' /\ ClosingSound'
  BY <1>1 DEF IInv, TypeOK, HandedSound, ClosingSound, JobsAtRest
<1>4. QED
  BY <1>2, <1>3 DEF IInv

\* The steps of threadpool_destroy, and of a thread that wakes by itself.
LEMMA DestroyersKeep ==
    ASSUME IInv, NEW d \in Destroyers, Destroy(d) \/ DestroyerStep(d)
    PROVE  IInv'
<1>1. /\ JobsAtRest /\ UNCHANGED <<job, handed>>
  BY DEF Destroy, DestroyerStep, WaitEmpty, ClosePool, BroadcastNotEmpty, BroadcastNotFull,
         Free, JobsAtRest
<1>2. /\ worker' \in [Workers -> {"testing", "waiting", "running", "exited"}]
      /\ \A w \in Workers : \/ worker'[w] = worker[w]
                            \/ worker[w] = "waiting" /\ worker'[w] = "testing"
  <2>1. worker' = worker \/ worker' = Woken(worker)
    BY DEF Destroy, DestroyerStep, WaitEmpty, ClosePool, BroadcastNotEmpty, BroadcastNotFull, Free
  <2>2. CASE worker' = worker
    BY <2>2 DEF IInv, TypeOK
  <2>3. CASE worker' = Woken(worker)
    BY <2>3, WorkersWoken DEF IInv
  <2>4. QED
    BY <2>1, <2>2, <2>3
<1>3. /\ caller' \in [Callers -> {"out", "testing", "waiting"}]
      /\ \A c \in Callers : \/ caller'[c] = caller[c]
                            \/ caller[c] = "waiting" /\ caller'[c] = "testing"
  <2>1. caller' = caller \/ caller' = Woken(caller)
    BY DEF Destroy, DestroyerStep, WaitEmpty, ClosePool, BroadcastNotEmpty, BroadcastNotFull, Free
  <2>2. CASE caller' = caller
    BY <2>2 DEF IInv, TypeOK
  <2>3. CASE caller' = Woken(caller)
    BY <2>3, CallersWoken DEF IInv
  <2>4. QED
    BY <2>1, <2>2, <2>3
<1>4. QueueSound' /\ TakenSound' /\ Accounted'
  BY <1>1, <1>2, AtRestKeeps
<1>5. HandedSound'
  BY <1>1, <1>3 DEF IInv, HandedSound, JobsAtRest
<1>6. TypeOK' /\ ClosingSound'
  <2>1. CASE Destroy(d)
    BY <2>1 DEF Destroy, IInv, TypeOK, ClosingSound
  <2>2. CASE WaitEmpty(d)
    BY <2>2 DEF WaitEmpty, IInv, TypeOK, ClosingSound
  <2>3. CASE ClosePool(d)
    BY <2>3 DEF ClosePool, IInv, TypeOK, ClosingSound
  <2>4. CASE BroadcastNotEmpty(d)
    BY <1>2, <2>4 DEF BroadcastNotEmpty, IInv, TypeOK, ClosingSound
  <2>5. CASE BroadcastNotFull(d)
    BY <1>3, <2>5 DEF BroadcastNotFull, IInv, TypeOK, ClosingSound
  <2>6. CASE Free(d)
    BY <2>6 DEF Free, IInv, TypeOK, ClosingSound
  <2>7. QED
    BY <2>1, <2>2, <2>3, <2>4, <2>5, <2>6 DEF DestroyerStep
<1>7. QED
  BY <1>4, <1>5, <1>6 DEF IInv

LEMMA WakingKeeps ==
    ASSUME IInv, WakeByItself
    PROVE  IInv'
<1>1. /\ JobsAtRest /\ UNCHANGED <<queue_close, pool_close, job, handed>>
  BY DEF WakeByItself, JobsAtRest
<1>2. TypeOK'
  BY DEF WakeByItself, IInv, TypeOK
<1>3. /\ \A w \in Workers : \/ worker'[w] = worker[w]
                            \/ worker[w] = "waiting" /\ worker'[w] = "testing"
      /\ \A c \in Callers : \/ caller'[c] = caller[c]
                            \/ caller[c] = "waiting" /\ caller'[c] = "testing"
      /\ \A d \in Destroyers : \/ destroyer'[d] = destroyer[d]
                               \/ destroyer[d] = "waiting" /\ destroyer'[d] = "testing"
  BY DEF WakeByItself, IInv, TypeOK
<1>4. QueueSound' /\ TakenSound' /\ Accounted'
  BY <1>1, <1>3, AtRestKeeps
<1>5. HandedSound' /\ ClosingSound'
  BY <1>1, <1>3 DEF IInv, HandedSound, ClosingSound, JobsAtRest
<1>6. QED
  BY <1>2, <1>4, <1>5 DEF IInv

-----------------------------------------------------------------------------
LEMMA NextKeeps == IInv /\ [Next]_vars => IInv'
<1> SUFFICES ASSUME IInv, [Next]_vars
             PROVE  IInv'
  OBVIOUS
<1>1. CASE \E c \in Callers : CallerStep(c) \/ \E j \in Jobs : CallAddJob(c, j)
  BY <1>1, AcceptKeeps, CallersKeep DEF CallerStep
<1>2. CASE \E w \in Workers : WorkerStep(w)
  BY <1>2, TakeKeeps, FinishKeeps, IdleKeeps DEF WorkerStep
<1>3. CASE \E d \in Destroyers : Destroy(d) \/ DestroyerStep(d)
  BY <1>3, DestroyersKeep
<1>4. CASE WakeByItself
  BY <1>4, WakingKeeps
<1>5. CASE UNCHANGED vars
  <2>1. UNCHANGED <<queue, queue_close, pool_close, worker, pjob, caller, job, destroyer,
                    accepted, handed, done>>
    BY <1>5 DEF vars
  <2>2. TypeOK' /\ HandedSound' /\ ClosingSound'
    BY <2>1 DEF IInv, TypeOK, HandedSound, ClosingSound
  <2>3. QueueSound' /\ TakenSound' /\ Accounted'
    BY <2>1, AtRestKeeps DEF JobsAtRest
  <2>4. QED
    BY <2>2, <2>3 DEF IInv
<1>6. QED
  BY <1>1, <1>2, <1>3, <1>4, <1>5 DEF Next

\* In a freed pool no job is queued and no thread runs one.
LEMMA DrainedWhenFreed == IInv => FreedIsDrained
<1> SUFFICES ASSUME IInv, NEW d \in Destroyers, destroyer[d] = "freed", NEW j \in Jobs
             PROVE  done[j] = (IF j \in accepted THEN 1 ELSE 0)
  BY DEF FreedIsDrained, Freed
<1>1. queue = <<>> /\ \A w \in Workers : worker[w] = "exited"
  BY DEF IInv, ClosingSound
<1>2. \A w \in Workers : pjob[w] = NoJob
  BY <1>1 DEF IInv, TakenSound
<1>3. ~ \E i \in 1..Len(queue) : queue[i] = j
  BY <1>1
<1>4. j # NoJob
  BY ConstantsAssumption
<1>5. QED
  BY <1>2, <1>3, <1>4 DEF IInv, Accounted

(* The variables keep their types. *)
THEOREM TypeCorrect == Spec => []TypeOK
<1>1. IInv => TypeOK
  BY DEF IInv
<1>2. QED
  BY <1>1, Initially, NextKeeps, PTL DEF Spec

(* Every job that threadpool_add_job accepted has run exactly once when      *)
(* threadpool_destroy frees the pool, whatever the numbers of threads and    *)
(* jobs, and whenever threads wake by themselves.                            *)
THEOREM FreedPoolIsDrained == Spec => []FreedIsDrained
BY Initially, NextKeeps, DrainedWhenFreed, PTL DEF Spec
=============================================================================
