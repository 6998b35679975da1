# TLA+ models and proofs of EasyDarwin and the camera client

EasyDarwin (`src/EasyDarwin-master/EasyDarwin-master`) is a C++ RTSP/RTP/HLS streaming
server descended from the Darwin Streaming Server. `src/src` holds sonia1, a camera client
that pushes streams to it. The modules in this directory are translated from the C++
source. TLC checks them on small instances; TLAPS proves theorems about them for every
value of the constants. `PROJECT.json` lists the components, the runs, the mutants of the
code that the properties must notice, the source lines each definition stands for, the
findings, the hazards and the theorems.

Paths below are relative to `EasyDarwin-master/EasyDarwin-master` in `src/` unless they
start with `src/`.

## 1. The system

### Components

| component | state | operations | what makes it correct |
|---|---|---|---|
| readers/writer lock, `CommonUtilitiesLib/OSMutexRW.cpp` | `fState`, two waiter counters, two conditions | LockRead, LockWrite, TryLockRead, TryLockWrite, Unlock | a writer is alone, no wake-up is lost |
| task scheduler, `Task.cpp`, `Task.h`, `OSQueue.cpp`, `OSHeap.cpp` | one word of event bits per task, a queue and a timer heap per thread | Signal, GetEvents, the threads' loop, CallLocked, ForceSameThread, RemoveThreads | one Run of a task at a time, every event reaches a Run, nothing refers to a deleted task |
| reference table, `OSRef.cpp`, `OSHashTable.h` | refs by name, a count per ref | Register, RegisterOrResolve, Resolve, Release, UnRegister, TryUnRegister, Swap | a resolved object is not removed, a removed one has no user |
| event thread, `EventContext.cpp`, `ev.cpp` | the select sets, cookies, descriptors to close, the table of contexts | RequestEvent, Cleanup, SnarfEventContext, select and the dispatch | no context goes deaf, no descriptor is closed for its next owner |
| client sessions, `Server.tproj/RTSPSession*.cpp`, `RTPSession*.cpp` | the connection's state machine, the session map, `fObjectHolders`, `fRTSPSession` | requests, interleaved data, TEARDOWN, timeouts, loss, deletion | neither object is deleted under the other, each is deleted in the end |
| HLS sessions, `APIModules/EasyHLSModule` | the HLS map, the handles of a session | EasyHLSOpen, EasyHLSClose, GetHLSUrl, Run, the destructor | as for the reference table, handles are closed once |
| timers, `TimeoutTask.cpp`, `IdleTask.cpp` | a list of timeouts, a heap of idle timers | refresh, scan, set and cancel | a timer fires once it is due, never after it was cancelled |
| sockets, `Socket.cpp`, `TCPListenerSocket.cpp`, `UDPSocketPool.cpp`, `UDPDemuxer.cpp` | port pairs, the listener's session in hand | accept, get and release a pair | a port pair is used by one owner per source |
| RTP streams and flow control, `RTPStream.cpp`, `RTPPacketResender.cpp`, `RTPBandwidthTracker.cpp`, `RTPOverbufferWindow.cpp`, `RTCPTask.cpp` | the resender's window, congestion and overbuffer windows | send, ack, resend, adjust | the bytes in flight are accounted for, arrays stay in bounds |
| RTSP and HTTP requests, `RTSPRequestStream.cpp`, `RTSPResponseStream.cpp`, `HTTPSession.cpp` | partial input, output not yet sent | read a request, flush a response | input is split where it should be, whatever way it arrives |
| module API, `QTSSModule.cpp`, `QTSSDictionary.cpp` | roles, attribute dictionaries | dispatch, get and set | a session is manipulated under its mutex |
| reflector, `APIModules/QTSSReflectorModule` | broadcaster and outputs of a session, packet queues, bookmarks | set up, play, describe, kill; receive, reflect, pause | no session is deleted under its users; a packet a bookmark points at stays in its queue, none is passed over |
| relay, `APIModules/EasyRelayModule`; RTSP client, `RTSPClientLib` | a table of relays; a client's request state machine | start and stop a relay; DESCRIBE to TEARDOWN | as for HLS sessions; one request at a time |
| EasyCMS | device sessions over HTTP | registration, messages | a copy of the server's core |
| camera client, `src/src/*.cpp` | a pool of threads, lists of pushes and talks | add a job, run it, destroy the pool; start and stop a push | an accepted job runs once, nobody waits for ever on the queue; lists are not changed under their readers |

The server's start-up and its statistics, the access, log, admin and authorization modules,
RTCP packets, preferences, the camera maker's SDK and the vendored libraries complete the
inventory; they hold little shared state or none, and `PROJECT.json` says for each why it
is not modelled.

### How they interact

Everything that lives is a *task*: a connection, an RTP session, an HLS session, the
listener, RTCPTask. Any thread may `Signal` a task; one of a fixed set of task threads then
calls its `Run`, inside the global readers/writer lock, and does what the return value
says: delete the task, let it rest, or run it again after a time. The event thread turns a
readable or writable socket into a Signal; `TimeoutTask` turns an expired timer into one.
Objects find each other by name in reference tables. A connection resolves its RTP session
in the session map for the length of a request; the RTP session points back at the
connection that last used it and is counted in `fObjectHolders`. Modules are called from
both Runs, under the session mutex.

### What is hard about it

* No mutex guards the event word of a task; the protocol is four atomic operations.
* Between two statements of a Run another thread may signal, resolve or tear down the same
  object; the two counters above are all that keeps memory alive.
* A descriptor number is given out again by the kernel as soon as it is closed, while
  another thread may be inside `select` with it.
* Destructors of task objects run outside every lock, while the tables still list them.
* Retries (`TryUnRegister` every 10 ms), timers and losses of connections meet requests that
  are under way.
* Lost wake-ups: condition variables with a single Signal, waits of years, a pipe that
  has to interrupt `select`, a queue signalled at its edges only, a socket that gets one
  event for each request.
* References that one client session takes and another gives back, in as many pieces as the
  stream has parts (the reflector).

`PROJECT.json` has the hazards with their lines, and the properties that would notice each.

## 2. The modules and the code

### OSMutexRW

Every member function of `OSMutexRW` runs under the recursive `fInternalLock` and lets go of
it only in `OSCond::Wait`. So a call is one action up to its first wait (`LockRead`,
`LockWrite`), and one action from each wake-up to the next wait (`LockReadResume`,
`LockWriteResume`). A condition is the set of threads asleep on it; `WakeByItself` is the
wait that ends without a signal. `Unlock` has the code's order of choices: a waiting writer
first, else all readers. Threads that take the lock to write are several: the server's one lock has a
writer for every task that returned CallLocked(). `LockWrite` waits for readers only, so a second
writer may join the first; `overlapped` is history and marks this, from the moment it happens until the lock is
empty again.

### TaskThreads, with the lock inside, and TaskService

`fEvents` is the word of bits, a set. Each atomic operation is an action: `SignalSetEvents`
(the atomic_or) and `SignalEnQueue` are the two halves of Signal; `RunReadEvents` and
`RunSubtractEvents` those of GetEvents; `CompareAndStore` is what the thread does after a
Run returned 0. `TakeTimer` and `TakeSignalled` are the two exits of
`WaitForTask`, `InsertTimer` and `DeleteTask` the other outcomes of a Run, `Quit` and
`RemoveThreads` the end of the server. The threads' queues are sequences, a timer heap is the
set of the tasks in it, since the model has no clock: a timer may be due whenever it is in
the heap. How `Signal` picks a thread is a free choice among the short or the blocking
threads, since `sShortTaskThreadPicker` is a shared counter.

The module INSTANCEs OSMutexRW as `sMutexRW`: every Run enters with `LockRead`, or with
`LockWrite` after CallLocked, and a task thread may sleep in it. What a concrete task does in Run is
open: it takes its events, may ask for its thread or, if it is any task, for the global lock, and returns a timeout, or -1
to be deleted, for whatever reason (`RTSPSession.cpp:300` and `:1121` do so without kKillEvent,
`EasyHLSSession.cpp:127` on a timeout). Anybody may call Signal of any task at any moment (`RTPSession.cpp:564` signals a
task that was killed, `RTSPSessionInterface.cpp:165` may signal one that was deleted). A call tests `Valid()` first
(`SignalFindsValid`) and writes the word in a later step, so the task may be deleted in between; the task threads test
`Valid()` of what they take from a queue. `Valid()` reads a mark in the freed object: the model takes freed memory to keep
that mark, and to lose at most its event word. `dangling` is history: the deleted tasks that such a late call has
written to. `GlobalUnlock` and `SetDefaultThread` have no caller in the server and are not modelled.

`TaskService` is the same scheduler as its users see it: a set of pending events per task, the
tasks that run, asked for their deletion, are gone, and four actions. `KeepsPromise` is the refinement:
pending are the events that were signalled and that no GetEvents has read; the two steps of
GetEvents are one Begin, at the first of them, because an event signalled between the two
is one with the event this Run gets.

### OSRefTable

One action per operation, since each holds the table's mutex; `UnRegister` is three (`UnRegister`,
`WaitForUsers` from a wake-up to the next wait, `Remove`). A user is one use of the table by a
thread. `limit` and `status` are history: what the owner was promised when UnRegister
returned. Hashing is left out; `fString` names a ref.

### EventThread

The contexts' side is RequestEvent in its steps (a new ID, registration, the mask under
`sMaxFDPosMutex`, the pipe), Cleanup in its two forms, and SnarfEventContext. The event
thread's side is the scan of `select_waitevent`, the wait, the emptying of the pipe, the
closing of descriptors, the resolve and ProcessEvent. The kernel opens the free descriptors,
makes them ready or not, and copies the sets when `select` begins. Each hold of the mutex is
an action, the copies of the sets included, so a removal may fall between any two steps of
the scan. This is the `select` build, which the makefiles of Linux and Windows use. `Masks`,
what is asked for the socket of each descriptor, is a constant: the
properties do not need every kind of every socket in one instance.

### ClientSessions

A connection's `fState` is the place of `RTSPSession::Run`, a coarser one than the enum of
the source: the roles before the modules that answer make no difference to the two counters.
One reference of the map is one RTP session, so the map is the set of the sessions whose
`life` is "active" or "tearing". `DecrementObjectHolderCount` and the signal after it are two
steps, as are the two halves of Teardown and of UpdateRTSPSession (`LetGo`, then the new
pointer); the session mutex is the guard `SessionMutexFree`. The end of Run
(`ResolveLast`, `DropSession`, `EndDrop`, `EndRun`) takes no mutex, as in the code.

Choices and abstractions:
* The connections belong to one client, which may name on any of them every session ID a
  response has carried. IDs are random, so nobody else knows them.
* Authorization, the module that answers and the errors of a request are free choices of
  where in Run the response is made.
* CreateNewRTPSession registers and resolves in one step: nobody knows the ID yet, and the
  timer, which Register arms, is minutes from expiring.
* A connection may be lost, or its timer expire, at any moment. An RTP session is killed at any moment by whoever
  likes (`Kill`); its own timer is the scan of TimeoutTask (`TimerScan`), which kills the session if nobody has refreshed it
  since the last scan. `Refresh` is what does: a request on any connection that names the session, and every RTCP packet
  of its client (`RTPStream.cpp:1561`), whether the connection lives or not.
* `raced` and `forgotten` are history variables that mark two flaws of section 5, so that
  the properties state exactly what holds beside them.
* The tunnel over HTTP, streams and their sockets, and 3GPP attributes are left out.
* `HolderModulus` is the size of the unsigned counter; the arithmetic wraps.

### EasyHLSSessions

The sessions of one stream name. A request holds the map's mutex from Resolve to Release
(`OpenFound`, `OpenNew`, `CloseBegin`, `GetHLSUrlBegin` and the steps that end them); Run
takes its events before it waits for the mutex; the destructor's steps (handles, name, a look
at the count, UnRegister) are separate and hold nothing but the table's own lock in the
last. The HLS writer and the RTSP client of a session are its `handles`.

### ReflectorSessions

The reflector's sessions of one path. The session map is an OSRefTable with one name, so
`sSessionMap` is the session registered, or None, and `fRefCount` its count. Every operation of
the module holds the map's mutex from beginning to end and is one action: a broadcaster's SETUP and
PLAY, a player's SETUP and DESCRIBE, the end of each, the kill from the admin module, and the
error returns, which leave some references taken. A broadcaster takes no reference in the SETUP
that makes the session, one in each other SETUP and one in PLAY, and gives back as many as the SDP file has
streams; a DESCRIBE after SETUP sets the player's `sOutputAttr` to `Cleared`.

Clients ask and end in any order, and the administrator kills a session that is in use, as the code lets them. So what is given
back may not be what was taken, and the model keeps an account: `held` has each reference that a broadcaster has taken and
not given back, and `overdrawn` the sessions in which an end or a kill gave back more than its own while others
were there. Both are history. What is done to the memory of a session that was deleted is undefined and not followed: a client
whose session is gone takes no further step, and its memory is not used again while somebody points at it.

### ReflectorSender

One stream of the reflector: a socket, its task, the sender's queue of packets and the outputs
of the players. `Run` of the socket takes its events, locks the demuxer's mutex, receives what is in the
socket (`ReceiveMedia`, `ReceiveOther`, `ReceiveNothing`, which asks for the next event), decides what to do and
when to come back, and serves the outputs one after the other; players pause and resume beside it. A
bookmark is the packet an output is blocked on; packets are objects that are used again after
they leave the queue.

Time passes in ticks, and the age of a packet is counted to one above `sMaxPacketAgeMSec`, which is
all the code asks of it. The numbers of packets are kept as the sets of queued packets before
them, so they need no bound. Left out are the buckets that delay one output against another, time
stamps within packets, the SSRC filter, the relay's outputs and the reports to a multicast source.
`due`, `served`, `started` and `astray` are history: what an output has still to be given, and
whether its bookmark was removed while it paused.

### ThreadPool

The camera client's pool. Every function of `threadpool.cpp` holds the pool's mutex from its lock to its
unlock or its wait, so each such part is an action: a caller's test of the full queue and its append, a
thread's test of the empty queue and its removal, the run of a job, and the steps of
`threadpool_destroy`. All waits stand in while loops, so a thread that was woken tests again; the queue's
conditions are signalled at the edges only, when it becomes empty, not empty or not full.
A pthread condition may wake by itself; here that is a test that leads back to the wait. Callers do
not use a pool that has been freed (`threadpool.cpp:178` frees it without asking). `Endless` are jobs that never return, such
as a push that runs until it is stopped. Two jobs add a job themselves (`src/src/talkingthread.cpp:33`, `src/src/streamclient.cpp:299`);
both never return, so each is a member of `Endless` and one of the `Callers`. A job that adds jobs and is to return
would not be covered: with the queue full, the thread that should make room is the one that waits.

## 3. The runs

All runs explore their whole state space. Symmetry is used in safety runs only, over
identities that no definition tells apart.

| run | instance | what it shows |
|---|---|---|
| `rw` | 3 readers, 2 writers, fair | a writer is without readers until another writer joins it, the lock is free whenever it is empty, no lost wake-up, a writer gets in past newcomers, readers get in once the writers stop |
| `tasks_safe` | 2 tasks, 2 short and 1 blocking thread, 2 Signals under way | one place per task, no reference to a deleted task but by a late Signal, a bound task stays, a locked Run is alone until a second is let in, and the refinement of TaskService |
| `tasks_live` | 2 tasks in the queue of 1 thread, fair | every event reaches a Run, provided the other task is not signalled at every Run |
| `refs` | 3 users, 2 refs competing for a name and 1 alone, counts 0 and 1, fair | exact counts, unique names, nobody uses what was unregistered, UnRegister returns |
| `event` | 2 contexts, 2 descriptors, one asked to read and one to write, fair | no context goes deaf, one owner per descriptor, events reach their owner, IDs are unique; a ready context is told without select's timeout, removed descriptors are closed |
| `hls_live` | 3 sessions of a name, one of which may time out, 1 request, fair | sessions ended by EasyHLSClose are found only while they live and close their handles once; every ended session is deleted |
| `clients` | 2 connections, 1 RTP session, fair | a session in use stays in the map, both counters are exact, a held connection is not deleted, killed sessions are deleted, and dead connections whose sessions nobody refreshes for ever |
| `pool` | 2 threads, a queue of 2, 4 jobs, one endless, 2 callers, 2 destroyers, fair | an accepted job runs once and before the pool is freed; no job, caller or threadpool_destroy waits for ever |
| `reflector` | 2 broadcasters of 2 streams, 3 players, 2 sessions, any order | the references cover all that was taken and no session is deleted under who holds one, until somebody gives back more than it took |
| `reflector_assert` | 2 broadcasters, 1 player, 1 session | *violation*: the end of a broadcaster releases references nobody has taken (section 5) |
| `sender` | 2 outputs, 2 packets, 1 datagram waiting | the packet a bookmark points at stays queued, no queued packet is passed over |
| `sender_deaf` | 1 output, 1 packet, 2 datagrams waiting, fair | *violation*: what is outstanding in the socket is not received (section 5) |

Why the bounds are enough to be worth running:

* `rw`: three readers let one be inside, one asleep and one on its way while a writer comes
  and goes, and a broadcast wakes more than one. Two writers are the least that overlap, and leave in either order with
  readers let in between. What the run checks of safety is proved for any number of both.
* `tasks_safe`: two callers of Signal race for the kAlive bit of one task while a thread is
  inside its Run and another returns it to rest; the third thread gives ForceSameThread a
  place to be wrong about. Both tasks may ask for the lock, be deleted at any return and be signalled when they are
  gone. The properties are proved for any instance.
* `refs`: one user waits in UnRegister, another resolves, a third swaps or registers the rival.
  Every caller leaves the count at its default 0; 1 is the smallest other value the parameter allows.
* `event`: a descriptor is closed by one context and given out again to the other, or is closed while the
  other has the higher or the lower one, so that `sMaxFDPos` falls and rises; both of the scan's sets find something. The invariants are
  proved for any number of contexts and descriptors and any masks. `kMaxUniqueID` is 9, which the two
  contexts, with two IDs each at most, do not reach: IDs start again in the server after ten
  million sockets, and uniqueness is then false of the code (a noted hazard).
* `clients`: the session moves from one connection to the other and back, is torn down by a
  third actor, its own module, is killed and refreshed by others, and the connection it leaves ends at the same time. Modulus 4
  is above the number of holders, and a wrong decrement shows as 3. Any number of connections and
  sessions is what the proofs are for.
* `hls_live`: each request holds the map's mutex, so two of them are never inside together and
  one that repeats is enough; three sessions let an old one be deleted, a second live under
  its name and a third replace it.
* `tasks_live`: two tasks share a queue, so that one can be in the way of the other; the third run
  state a starved task could be in, a timer that is due at every visit, is excluded by the fairness
  below and noted as a hazard (`Task.cpp:279`).
* `pool`: two callers and a queue of two meet "full" and "empty" with a caller and a thread waiting at
  each; four jobs fill the queue again after it was full, and one of them keeps a thread for ever. Two
  destroyers, because the second must find the pool closing.
* `reflector`: two streams are the least for which SETUP and PLAY take different numbers of
  references than the end gives back; three players outlast two broadcasts. `MaxRefs` is 9, the most
  references that all of them hold together, so that the bound stops only those that errors forget. The
  invariants are proved for any number.
* `sender`: two packets let one be bookmarked while the other comes, ages and is used again; two
  outputs let one be blocked and the other not. Ages are 0, 1 and above.

`CHECK_DEADLOCK FALSE` stands in the configurations of the modules whose finite objects are
used up (refs that are unregistered, contexts, jobs, sessions that were deleted) or whose server may be
stopped (the task threads end), and in `sender_deaf`, where stopping is the point. The reflector's sessions stop when every
client is left with a session that was deleted under it. The runs of the lock and of the reflector's sender check deadlock.

### Fairness

* Lock: a woken thread runs again and a holder unlocks (the locker object's destructor does).
  Nothing is assumed of waits that end by themselves.
* Scheduler: weak fairness of a thread that has a task. Strong fairness of its taking a queued
  task, because timers are looked at before the queue; this assumes that timers are not due at
  every visit. Strong fairness of a sleeper that finds the global lock free, because CallLocked
  keeps a "minimum of 10 milliseconds between locks" (`Task.h:127`).
* Reference table: a user releases "in a timely manner" (`OSRef.h:211`); a thread that waits to
  remove an object succeeds if it is unused again and again.
* Event thread: the thread and a context inside RequestEvent or Cleanup go on. `SelectEndsEmpty`,
  the timeout of 15 s, has no fairness: the pipe must do.
* HLS sessions: requests go on; a task thread gets the map's mutex although requests come and go.
* Client sessions: weak fairness of a connection's Run; strong fairness of an RTP session's Run,
  which tries TryUnRegister again every 10 ms; weak fairness of the scan of the timers. Nothing is assumed of clients: who goes
  on refreshing a session keeps it, and the dead connection it points at, so `DeadIsDeleted` is stated for the connections that
  no session refreshed again and again points at (`KeptByARefresher`). The timeouts of the preferences are taken not to be zero.
* Thread pool: weak fairness of each thread, caller and destroyer. A mutex is taken and a wake-up arrives
  in the end; a job that is not in `Endless` returns.
* Reflector's sender: the event thread tells of an event, the idle timer fires, time passes and the
  socket's Run goes on.

## 4. What is proved

TLAPS checks every proof. The assumptions are the named ASSUMEs of the modules: finite sets
of threads, users and sessions, constants that are distinct, a counter with more values than
there are holders.

* **Lock** (`OSMutexRW_proofs`). `Accounting` (types and exact waiter counters) is inductive
  and carries `NobodyStranded`: to know that somebody awake will wake the sleepers one has to
  know that a positive counter means a thread inside the Lock call. `Exclusion` is inductive with it: one writer inside until
  they overlap (`OneWriting`), readers excluded and `fState` right until then, and, whatever the writers did, never more counted
  than are inside. The last is what brings the lock back: when it is empty fState is 0, and exclusion holds again.
  `ExclusionUntilWritersOverlap` and `FreeWhenLeft` follow, for any number of readers and of writers.
* **Scheduler** (`TaskThreads_proofs`). `Custody` is the inductive invariant: one place per
  task (`Unique`, `NoRepeats`), kAlive exactly when there is one (`Alive`), a thread has a task exactly in the states that say so
  (`Busy`), no thread has a deleted task (`DeadAreIdle`), and nothing else refers to one unless a late Signal wrote to
  it. A thread deletes a task that it holds; by Unique nobody else has it, and that is all the deletion needs: nothing is
  assumed of why Run asked for it, or of who signals when. DeadAreIdle says that what a late Signal has put
  on a queue goes no further: the thread that takes it ends at Valid(). From Custody follow `OneHolderAlways`, `NoUseAfterDelete`, `EventsAreKept` and `BoundTaskDoesNotMove`, for
  any tasks, threads and callers.
* **The global lock of the scheduler** (`TaskThreads_proofs`). `LockIsUsedProperly`: what the task threads
  do to the lock are steps of OSMutexRW, so the scheduler's Spec implies the lock's, for any threads. The proof is compositional:
  the module INSTANCEs OSMutexRW_proofs and takes the lock's invariant from there, and `LockUse` says of the threads that
  each is at the lock only inside its locker and in one way at a time, and has it in a Run. `LockedRunStaysAlone` follows, with any
  number of tasks that ask for the lock, outside the times when LockWrite has let in a second writer.
* **The promise** (`TaskThreads_proofs`). `Kept` adds to Custody that every owed event is in the
  word (`WordOwes`), so a GetEvents gets all that is pending.
  `SchedulerKeepsPromise` is the refinement of TaskService step by step: each action is a step
  of the service or a stutter; what a late Signal does to a deleted task is a stutter.
* **Reference table** (`OSRefTable_proofs`). `Registry` joins exact counts, unique names and the
  promise to the owner, with two facts about where refs and users are; the theorems are
  `CountsAreRight`, `OneRefPerName` and `SafeToDelete`.
* **Client sessions** (`ClientSessions_proofs`). `Counted`: types, references equal users plus
  forgotten ones, a resolved session is in the map, a stage of Run that works on a session has one,
  and a session outside the map has no count. The last two are what makes it inductive: a release
  takes one off a positive count only because the stage shows a session. `NoSessionClosesUnderARequest`
  and `ReferencesAreAccountedFor` follow. `Held` adds, as long as `raced` is false, that one actor at
  a time handles the pointer of a session (`OneHandler`), that `fObjectHolders` is the number of
  sessions that point at the connection and are not being handled (`Exact`), and that a deleted
  connection has none. OneHandler is what an exact count needs: of two handlers each would take off
  the same holder. The number of holders is at most the number of sessions, so the counter never
  wraps. `HoldersAreCounted` and `HeldOutlivesHolders` follow, for any finite number of connections
  and sessions. The proofs take connections and sessions to be different objects.
* **Event thread** (`EventThread_proofs`). `Basic` (types, each context with a socket owns its
  descriptor, a descriptor waits to be closed once, one context takes the socket of one other) is
  inductive and gives `TypeCorrect` and `FDsHaveOneOwner`. The rest needs `IDsLast`, that the last ID given
  out is not the limit at which IDs start again, because beyond it two contexts may share an ID: the
  theorems have the form Spec /\ []IDsLast => []P. `Leads` adds that no ID or cookie is above the last
  one given out, that the table holds the contexts between Register and UnRegister, that a cookie, in
  the array or in the event under way, leads to the context with that descriptor, and that the context
  that is told has not gone. From it follow `NoIDIsGivenTwice`, `NoContextGoesDeaf` and `OwnerIsTold`,
  for any number of contexts and descriptors. The least and the greatest of a set of
  descriptors are found by the theorem that strict inclusion of finite sets is well founded, since
  the induction theorems are out of the provers' reach.
* **Reflector sessions** (`Reflector_proofs`). `Covered` is inductive: the count of a session that is not overdrawn is at least
  the players in it plus what its broadcasters have taken. An end that gives back no more than its own leaves the
  others covered; one that gives back more either finds nobody else there, or marks the session. `SessionsOutliveUsers` and
  `ReferencesCover` follow, without an assumption on what clients do, for any number of client sessions, streams and sessions.
* **HLS sessions** (`EasyHLSSessions_proofs`). `Inv`: the request under
  way holds the mutex and the one reference there is (`Locked`); a session that only EasyHLSClose ends has no timeout
  among its events, is out of the map and of every request once it is told to end, and has no handles left when its
  destructor is past them (`Reach`). FoundIsNotDying alone is not inductive: that Run says -1 only for a
  kKillEvent, which was signalled when the session had left the map, takes the event from the word through
  `theEvents` to the return of Run. `TypeCorrect`, `FoundSessionsLive` and `HandlesAreClosedOnce` follow for any number
  of sessions and requests.
* **Reflector's sender** (`Reflector_proofs`). The queue is reasoned about by the place of each packet: what
  `Append` and what the removal of some packets do to the places are lemmas of their own. In `Inv` an output that is not
  astray has one bookmark at most, in the queue, and marked as needed from the moment it is served until
  RemoveOldPackets has been through (`OneBookmark`); what was sent comes first in the queue (`SentFirst`), what is due comes
  from the bookmark on and was not sent (`DueAhead`). SentFirst is what a PLAY after a pause needs: the number of the last
  packet sent tells that all before it were sent, so an output that starts at the first packet not sent misses none
  after it. `BlockedPacketStays` and `InTurn` follow for any outputs, packets, ages and places for bookmarks. The
  model gives the queue that RemoveOldPackets leaves by what it holds and its order (`InOrder`) and not by a
  function that selects, which is a parameter the provers cannot reason about.
* **Thread pool** (`ThreadPool_proofs`). A job is in one place: in the queue, in the hands of a caller or of
  one thread, or done; a pool that is closing takes no more, and a thread exits only when
  the queue is empty. `FreedPoolIsDrained` follows: when the pool is freed, all that was accepted has run.

Only model-checked: all liveness (fairness and ENABLED are beyond the provers here). Every
invariant that a passing run checks is a theorem; those of the event thread have the hypothesis that IDs are not used up.

## 5. What the checks found

Two places where a run shows the code to do something else than a comment or an assertion says:

* `ReflectorSocket::GetIncomingData` reads until `ProcessPacket` says that it is done. An RTCP packet that
  is no sender report, and a packet that belongs to no sender, end the reading
  (`ReflectorStream.cpp:1758`, `:1781`) without the `RequestEvent` that an empty socket gets (`:1741`). The event
  thread has switched the socket off, so nothing that waits there or comes later is received until
  something else sets the socket's timer, against "get all the outstanding packets for this socket"
  (`:1904`). Run `sender_deaf`.
* The end of a broadcaster releases as many references as the stream has parts (`QTSSReflectorModule.cpp:2076`), whatever it has
  taken, against the assertion "this shouldn't happen" at `:2081`: a client lost after its first SETUP is enough. With players
  there it takes theirs, and the session is deleted under them; so does KillSession (`:1921`). Run
  `reflector_assert`; `overdrawn` marks these sessions. The state of the run, a broadcaster without a reference, also lets a player that comes and
  goes before the broadcaster's second request delete the session under it, against the fear at `:1383` that "we'll delete the
  session prematurely"; `SessionOutlivesUsers` takes a broadcaster for a user from its first reference on.

Other properties are limited to what holds beside a flaw of the code. Where a definition is named first, TLC shows the flaw
once it is changed to the value given:

* `LockWrite` waits while there are active readers (`OSMutexRW.cpp:102`), so a writer is let in beside another one, against
  "only one" of `ActiveWriter()` (`OSMutexRW.h:94`). Every RTSPSession may return CallLocked() (`RTSPSession.cpp:470` and its other
  roles), which an admin request makes it do (`QTSSAdminModule.cpp:1422`), so two sessions run locked together, and when the first
  returns readers join the second. `ReadersExcludeWriters` and `LockedRunIsAlone` without `~ overlapped =>` fail in the
  runs `rw` and `tasks_safe`; what they say beside it is that nothing else breaks the exclusion, and that it is back
  when the lock is empty.
* `Closed == Sessions` in `EasyHLSSessions`: a session that times out leaves the map in its destructor, without
  the map's mutex (`EasyHLSSession.cpp:127`); a request may resolve it after its Run has said -1, and it is freed
  under the request. `FoundIsNotDying` and `HandlesClosedOnce` therefore speak of the sessions that only
  EasyHLSClose ends.
* A connection that is lost during a request takes the session of its last ID over the one the
  request holds (`RTSPSession.cpp:1106`); the first reference is never released, and the RTP session
  tries to unregister for ever. `forgotten` counts these references: `RefsMatchUsers` and `DeadIsDeleted`
  state exactly what holds beside them.
* A connection that has died waits for the RTP sessions that point at it, and those live as long as somebody refreshes them. The
  client's RTCP packets do, "no matter what happens" (`RTPStream.cpp:1561`), without the connection, so a UDP client
  keeps both for ever. `DeadIsDeleted` without `~KeptByARefresher(c)` fails.

Other weaknesses are in the models as the code has them and are noted under the hazards rather
than claimed as properties: the end of a connection tears a session down without its mutex
(`RTSPSession.cpp:1110`, marked by `raced`); the last holder is counted off and the connection
signalled in two steps, so the signal may come after the deletion
(`RTSPSessionInterface.cpp:165`); the second CallLocked of a task is forgotten (`Task.cpp:229`); a timer that is
due at every visit keeps a queue waiting (`Task.cpp:279`); unique IDs start again without a look at those in
use (`EventContext.cpp:188`); the idle timer of a reflector's socket is lost when it fires during a Run
(`ReflectorStream.cpp:563`); a bookmark that was removed while its player paused is used again (`:1051`, marked
by `astray`); `threadpool_destroy` frees the pool under callers that wait (`src/src/threadpool.cpp:178`).

## 6. What is not modelled

The order of the work was: the lock, the scheduler over it, the reference table, the event thread,
the client sessions, the HLS sessions, the reflector's sessions, its sender, the camera client's thread
pool; TaskService as the abstract specification; and the proofs module by module. What a next step would
be, by importance, with what stands in its way:

1. RTP streams and RTCPTask: a session's streams are left out of ClientSessions, and RTCPTask finds them in the
   demuxer when the session is closing (`RTPSession.cpp:593`). The model would need them as objects of
   their own, with their sockets in the pool of port pairs.
2. The resender's array, the congestion window and the overbuffer window: arithmetic on clocks and byte
   counts of one thread. Bounded inputs of the size TLC can take do not reach the limits in question.
3. TimeoutTaskThread's scan and the heap of IdleTask with its removal from the middle (`OSHeap.cpp:119`): the
   modules take a timer to be due whenever it is set, which covers every order the heap may give.
4. The lists of pushes and talks that the camera client's threads share without a lock: undefined
   behaviour, about which every property would be false.
5. The relay, the RTSP client, the tunnel over HTTP, the HTTP service: state machines of one task, over the
   scheduler and the event thread modelled here.

Not worth a model: parsing and formatting of messages, preferences and packets, attribute dictionaries,
files, logging, and third-party code. They are functions of one thread without the behaviours that
make a model worthwhile. EasyCMS repeats the server's core, with the same scheduler, event thread
and reference table. Most of the repository's million lines are headers of boost, of the camera
maker's SDK and copies of these, which hold none of the system's behaviour, so the share of lines that a
definition stands for stays small however much of the system's own code is modelled.
