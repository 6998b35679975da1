----------------------------- MODULE ThreadPool -----------------------------
(***************************************************************************)
(* The camera client's pool of threads and its bounded queue of jobs       *)
(* (src/src/threadpool.cpp).                                               *)
(*                                                                         *)
(* Every function holds the pool's mutex from its pthread_mutex_lock to    *)
(* its unlock or its wait, so a critical section is one action.  All waits *)
(* are in while loops: a thread that was woken, or wakes by itself, tests  *)
(* its condition as if it had just come in.  A caller hands one job in at  *)
(* a time; callers do not use a pool that threadpool_destroy has freed.    *)
(* Two jobs add a job (talkingthread.cpp:33, streamclient.cpp:299) and     *)
(* never return: each is a job of Endless, and adds as a caller of its own.*)
(***************************************************************************)
EXTENDS Integers, Sequences, FiniteSets

CONSTANTS
    Workers,        \* the threads of the pool
    Callers,        \* threads that call threadpool_add_job
    Destroyers,     \* threads that call threadpool_destroy
    Jobs,           \* the jobs, each handed in once
    Endless,        \* jobs whose callback never returns
    queue_max_num,  \* the most jobs the queue holds
    NoJob

ASSUME ConstantsAssumption ==
    /\ queue_max_num \in Nat \ {0}
    /\ Endless \subseteq Jobs
    /\ NoJob \notin Jobs

VARIABLES
    queue,        \* the jobs from head to tail
    queue_close,  \* no more jobs are accepted
    pool_close,   \* the threads are to exit
    worker,       \* "testing", "waiting", "running" or "exited"
    pjob,         \* the job a thread has taken, or NoJob
    caller,       \* "out", "testing" or "waiting"
    job,          \* the job a caller hands in, or NoJob
    destroyer,    \* where a threadpool_destroy is
    accepted,     \* history: the jobs whose threadpool_add_job returned 0
    handed,       \* history: the jobs handed in
    done          \* history: how often each job ran to its end

vars == <<queue, queue_close, pool_close, worker, pjob, caller, job, destroyer,
          accepted, handed, done>>

Init ==
    /\ queue = <<>>
    /\ queue_close = FALSE /\ pool_close = FALSE
    /\ worker = [w \in Workers |-> "testing"]
    /\ pjob = [w \in Workers |-> NoJob]
    /\ caller = [c \in Callers |-> "out"]
    /\ job = [c \in Callers |-> NoJob]
    /\ destroyer = [d \in Destroyers |-> "out"]
    /\ accepted = {} /\ handed = {}
    /\ done = [j \in Jobs |-> 0]

Freed == \E d \in Destroyers : destroyer[d] = "freed"

\* Those who wait test their condition again.
Woken(state) == [t \in DOMAIN state |-> IF state[t] = "waiting" THEN "testing" ELSE state[t]]

-----------------------------------------------------------------------------
(* threadpool_add_job *)

CallAddJob(c, j) ==
    /\ ~Freed
    /\ caller[c] = "out" /\ j \in Jobs \ handed
    /\ caller' = [caller EXCEPT ![c] = "testing"]
    /\ job' = [job EXCEPT ![c] = j]
    /\ handed' = handed \cup {j}
    /\ UNCHANGED <<queue, queue_close, pool_close, worker, pjob, destroyer, accepted, done>>

Return(c) ==
    /\ caller' = [caller EXCEPT ![c] = "out"]
    /\ job' = [job EXCEPT ![c] = NoJob]

IsFull == Len(queue) = queue_max_num

WaitNotFull(c) ==
    /\ ~Freed /\ caller[c] = "testing"
    /\ IsFull /\ ~(queue_close \/ pool_close)
    /\ caller' = [caller EXCEPT ![c] = "waiting"]
    /\ UNCHANGED <<queue, queue_close, pool_close, worker, pjob, job, destroyer,
                   accepted, handed, done>>

\* The pool closes, or there is no memory: -1.
Refuse(c) ==
    /\ ~Freed /\ caller[c] = "testing"
    /\ queue_close \/ pool_close \/ ~IsFull
    /\ Return(c)
    /\ UNCHANGED <<queue, queue_close, pool_close, worker, pjob, destroyer, accepted,
                   handed, done>>

\* Mutant of NotifyNotEmpty: a job is announced when it is not the first.
NotifyIfMore == IF queue = <<>> THEN UNCHANGED worker ELSE worker' = Woken(worker)

\* The threads are told when the queue was empty.
NotifyNotEmpty == IF queue = <<>> THEN worker' = Woken(worker) ELSE UNCHANGED worker

Accept(c) ==
    /\ ~Freed /\ caller[c] = "testing"
    /\ ~(queue_close \/ pool_close) /\ ~IsFull
    /\ queue' = Append(queue, job[c])
    /\ NotifyNotEmpty
    /\ accepted' = accepted \cup {job[c]}
    /\ Return(c)
    /\ UNCHANGED <<queue_close, pool_close, pjob, destroyer, handed, done>>

-----------------------------------------------------------------------------
(* threadpool_function *)

WaitNotEmpty(w) ==
    /\ worker[w] = "testing" /\ queue = <<>> /\ ~pool_close
    /\ worker' = [worker EXCEPT ![w] = "waiting"]
    /\ UNCHANGED <<queue, queue_close, pool_close, pjob, caller, job, destroyer,
                   accepted, handed, done>>

Exit(w) ==
    /\ worker[w] = "testing" /\ pool_close
    /\ worker' = [worker EXCEPT ![w] = "exited"]
    /\ UNCHANGED <<queue, queue_close, pool_close, pjob, caller, job, destroyer,
                   accepted, handed, done>>

\* Mutant of NotifyEmpty: the number is compared before it is counted down.
NotifyTooEarly ==
    IF Len(queue) = 0 /\ \E d \in Destroyers : destroyer[d] = "waiting"
    THEN \E d \in Destroyers : /\ destroyer[d] = "waiting"
                               /\ destroyer' = [destroyer EXCEPT ![d] = "testing"]
    ELSE UNCHANGED destroyer

\* queue_empty: threadpool_destroy is told that the queue is empty.
NotifyEmpty ==
    IF Len(queue) = 1 /\ \E d \in Destroyers : destroyer[d] = "waiting"
    THEN \E d \in Destroyers : /\ destroyer[d] = "waiting"
                               /\ destroyer' = [destroyer EXCEPT ![d] = "testing"]
    ELSE UNCHANGED destroyer

\* Mutant of NotifyNotFull: nobody is told.
NotifyNobody == UNCHANGED caller

\* The callers are told when the queue was full.
NotifyNotFull == IF IsFull THEN caller' = Woken(caller) ELSE UNCHANGED caller

Take(w) ==
    /\ worker[w] = "testing" /\ queue # <<>> /\ ~pool_close
    /\ pjob' = [pjob EXCEPT ![w] = Head(queue)]
    /\ queue' = Tail(queue)
    /\ worker' = [worker EXCEPT ![w] = "running"]
    /\ NotifyEmpty
    /\ NotifyNotFull
    /\ UNCHANGED <<queue_close, pool_close, job, accepted, handed, done>>

\* The callback returns, without the mutex.
Finish(w) ==
    /\ worker[w] = "running" /\ pjob[w] \notin Endless
    /\ done' = [done EXCEPT ![pjob[w]] = @ + 1]
    /\ worker' = [worker EXCEPT ![w] = "testing"]
    /\ pjob' = [pjob EXCEPT ![w] = NoJob]
    /\ UNCHANGED <<queue, queue_close, pool_close, caller, job, destroyer, accepted, handed>>

-----------------------------------------------------------------------------
(* threadpool_destroy *)

\* A pool that closes already is left alone: -1.
Destroy(d) ==
    /\ ~Freed /\ destroyer[d] = "out"
    /\ ~(queue_close \/ pool_close)
    /\ queue_close' = TRUE
    /\ destroyer' = [destroyer EXCEPT ![d] = "testing"]
    /\ UNCHANGED <<queue, pool_close, worker, pjob, caller, job, accepted, handed, done>>

WaitEmpty(d) ==
    /\ destroyer[d] = "testing" /\ queue # <<>>
    /\ destroyer' = [destroyer EXCEPT ![d] = "waiting"]
    /\ UNCHANGED <<queue, queue_close, pool_close, worker, pjob, caller, job,
                   accepted, handed, done>>

\* Mutant of ClosePool: the queue is not waited for.
CloseAtOnce(d) ==
    /\ destroyer[d] = "testing"
    /\ pool_close' = TRUE
    /\ destroyer' = [destroyer EXCEPT ![d] = "broadcast not empty"]
    /\ UNCHANGED <<queue, queue_close, worker, pjob, caller, job, accepted, handed, done>>

ClosePool(d) ==
    /\ destroyer[d] = "testing" /\ queue = <<>>
    /\ pool_close' = TRUE
    /\ destroyer' = [destroyer EXCEPT ![d] = "broadcast not empty"]
    /\ UNCHANGED <<queue, queue_close, worker, pjob, caller, job, accepted, handed, done>>

\* The two broadcasts come after the unlock.
BroadcastNotEmpty(d) ==
    /\ destroyer[d] = "broadcast not empty"
    /\ worker' = Woken(worker)
    /\ destroyer' = [destroyer EXCEPT ![d] = "broadcast not full"]
    /\ UNCHANGED <<queue, queue_close, pool_close, pjob, caller, job, accepted, handed, done>>

BroadcastNotFull(d) ==
    /\ destroyer[d] = "broadcast not full"
    /\ caller' = Woken(caller)
    /\ destroyer' = [destroyer EXCEPT ![d] = "joining"]
    /\ UNCHANGED <<queue, queue_close, pool_close, worker, pjob, job, accepted, handed, done>>

\* The threads are joined and the pool is freed, whoever is still in
\* threadpool_add_job.
Free(d) ==
    /\ destroyer[d] = "joining"
    /\ \A w \in Workers : worker[w] = "exited"
    /\ destroyer' = [destroyer EXCEPT ![d] = "freed"]
    /\ UNCHANGED <<queue, queue_close, pool_close, worker, pjob, caller, job,
                   accepted, handed, done>>

-----------------------------------------------------------------------------
\* pthread_cond_wait may return by itself.
WakeByItself ==
    /\ \/ /\ \E w \in Workers : /\ worker[w] = "waiting"
                                /\ worker' = [worker EXCEPT ![w] = "testing"]
          /\ UNCHANGED <<caller, destroyer>>
       \/ /\ \E c \in Callers : /\ ~Freed /\ caller[c] = "waiting"
                                /\ caller' = [caller EXCEPT ![c] = "testing"]
          /\ UNCHANGED <<worker, destroyer>>
       \/ /\ \E d \in Destroyers : /\ destroyer[d] = "waiting"
                                   /\ destroyer' = [destroyer EXCEPT ![d] = "testing"]
          /\ UNCHANGED <<worker, caller>>
    /\ UNCHANGED <<queue, queue_close, pool_close, pjob, job, accepted, handed, done>>

CallerStep(c) == WaitNotFull(c) \/ Refuse(c) \/ Accept(c)
WorkerStep(w) == WaitNotEmpty(w) \/ Exit(w) \/ Take(w) \/ Finish(w)
DestroyerStep(d) ==
    \/ WaitEmpty(d) \/ ClosePool(d) \/ BroadcastNotEmpty(d) \/ BroadcastNotFull(d)
    \/ Free(d)

Next ==
    \/ \E c \in Callers : CallerStep(c) \/ \E j \in Jobs : CallAddJob(c, j)
    \/ \E w \in Workers : WorkerStep(w)
    \/ \E d \in Destroyers : Destroy(d) \/ DestroyerStep(d)
    \/ WakeByItself

Spec == Init /\ [][Next]_vars

\* The threads of the system are scheduled and get the mutex.
Fairness ==
    /\ \A c \in Callers : WF_vars(CallerStep(c))
    /\ \A w \in Workers : WF_vars(WorkerStep(w))
    /\ \A d \in Destroyers : WF_vars(DestroyerStep(d))

FairSpec == Spec /\ Fairness

-----------------------------------------------------------------------------
TypeOK ==
    /\ queue \in Seq(Jobs)
    /\ queue_close \in BOOLEAN /\ pool_close \in BOOLEAN
    /\ worker \in [Workers -> {"testing", "waiting", "running", "exited"}]
    /\ pjob \in [Workers -> Jobs \cup {NoJob}]
    /\ caller \in [Callers -> {"out", "testing", "waiting"}]
    /\ job \in [Callers -> Jobs \cup {NoJob}]
    /\ destroyer \in [Destroyers -> {"out", "testing", "waiting", "broadcast not empty",
                                     "broadcast not full", "joining", "freed"}]
    /\ accepted \in SUBSET Jobs /\ handed \in SUBSET Jobs
    /\ done \in [Jobs -> Nat]

(* When threadpool_destroy frees the pool, every job that was accepted has *)
(* run exactly once: it waits for the queue and joins the threads.         *)
FreedIsDrained == Freed => \A j \in Jobs : done[j] = (IF j \in accepted THEN 1 ELSE 0)

(* A job that was accepted is taken by a thread, although the threads are  *)
(* only told of a job that finds the queue empty.                          *)
AcceptedRuns ==
    Cardinality(Endless) < Cardinality(Workers) =>
        \A j \in Jobs : j \in accepted ~> \E w \in Workers : pjob[w] = j \/ done[j] > 0

(* threadpool_add_job returns, although the callers are only told of a     *)
(* queue that was full, unless the pool is freed meanwhile.                *)
CallersReturn ==
    Cardinality(Endless) < Cardinality(Workers) =>
        \A c \in Callers : caller[c] # "out" ~> caller[c] = "out" \/ Freed

(* threadpool_destroy returns when all jobs do.                            *)
DestroyReturns ==
    [](accepted \cap Endless = {}) =>
        \A d \in Destroyers : destroyer[d] # "out" ~> destroyer[d] = "freed"
=============================================================================
