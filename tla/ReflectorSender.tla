--------------------------- MODULE ReflectorSender ---------------------------
(***************************************************************************)
(* How the reflector passes the packets of a broadcast on: a socket, the   *)
(* queue of packets of its sender, and the outputs, one for each player    *)
(* (APIModules/QTSSReflectorModule/ReflectorStream.cpp, ReflectorOutput.h, *)
(* RTPSessionOutput.cpp).                                                  *)
(*                                                                         *)
(* A packet stays in the queue for sMaxPacketAgeMSec, or longer for an     *)
(* output that is blocked on it.  Each output keeps its place with a       *)
(* bookmark, a pointer to a packet; the packets are used again.            *)
(*                                                                         *)
(* The socket's task holds the demuxer's mutex while it receives and       *)
(* reflects; players pause and resume beside it.  Time passes in ticks,    *)
(* and the age of a packet is counted up to one above the limit.  The      *)
(* numbers that packets are given are kept as the sets of the packets in   *)
(* the queue that come before them.  The buckets, which delay one output   *)
(* against another, are left out, and so are packets with a time of their  *)
(* own ("aktt"), relays and the report to a multicast source.              *)
(*                                                                         *)
(* The names differ from those of ReflectorSessions, the other part of the *)
(* reflector, so that a module can extend both.                            *)
(***************************************************************************)
EXTENDS Integers, Sequences, FiniteSets, FiniteSetsExt, SequencesExt

CONSTANTS
    Outputs,            \* the outputs of players
    Packets,            \* the packets, in the queue or free
    fNumBookmarks,      \* the places for bookmarks in an output
    sOverBufferInMsec,  \* the age up to which a new output gets packets
    sMaxPacketAgeMSec,  \* the age after which packets are removed
    MaxWaiting,         \* the most datagrams that wait in the socket
    NoPacket            \* no packet: a pointer that is NULL

ASSUME SenderAssumption ==
    /\ IsFiniteSet(Packets) /\ IsFiniteSet(Outputs)
    /\ fNumBookmarks \in Nat \ {0}
    /\ sOverBufferInMsec \in Nat
    /\ sMaxPacketAgeMSec \in Nat /\ sOverBufferInMsec <= sMaxPacketAgeMSec
    /\ MaxWaiting \in Nat
    /\ NoPacket \notin Packets

VARIABLES
    \* the socket
    datagrams,        \* what waits to be received: "media" or "other"
    armed,            \* the socket has asked for a read event
    events,           \* of its task
    idleTimer,        \* the idle timer of the task is set
    run,              \* where Run is: the task's thread
    \* the sender
    fPacketQueue,     \* from the oldest to the newest
    age,              \* of each packet since fTimeArrived
    fNeededByOutput,  \* the packets that are marked so
    fHasNewPackets,
    fNextTimeToRun,   \* "never", "later" or "now"
    fFirstPacketInQueueForNewOutput,
    toServe,          \* the outputs that ReflectPackets has still to come to
    \* the outputs
    plays,            \* qtssPlayingState of the player's session
    fBookmarks,       \* fBookmarkedPacketsElemsArray
    sent,             \* the packets up to sLastRTPPacketID
    \* history
    started,          \* a packet was written since the last PLAY
    due,              \* packets since then that are still to be written
    served,           \* the outputs that were written to in this ReflectPackets
    astray            \* the bookmark was removed while the player paused

socketVars  == <<datagrams, armed, events, idleTimer>>
queueVars   == <<fPacketQueue, age, fNeededByOutput>>
senderVars  == <<fHasNewPackets, fNextTimeToRun, fFirstPacketInQueueForNewOutput, toServe>>
historyVars == <<started, due, served, astray>>
streamVars == <<socketVars, run, queueVars, senderVars, plays, fBookmarks, sent, historyVars>>

Slots == 1..fNumBookmarks

StreamInit ==
    /\ datagrams = <<>>
    /\ armed = TRUE
    /\ events = {}
    /\ idleTimer = FALSE
    /\ run = "out"
    /\ fPacketQueue = <<>>
    /\ age = [p \in Packets |-> 0]
    /\ fNeededByOutput = {}
    /\ fHasNewPackets = FALSE
    /\ fNextTimeToRun = "never"
    /\ fFirstPacketInQueueForNewOutput = NoPacket
    /\ toServe = {}
    /\ plays = [o \in Outputs |-> FALSE]
    /\ fBookmarks = [o \in Outputs |-> [s \in Slots |-> NoPacket]]
    /\ sent = [o \in Outputs |-> {}]
    /\ started = [o \in Outputs |-> FALSE]
    /\ due = [o \in Outputs |-> {}]
    /\ served = {}
    /\ astray = [o \in Outputs |-> FALSE]

Queued == Range(fPacketQueue)
Place(p) == CHOOSE i \in DOMAIN fPacketQueue : fPacketQueue[i] = p

-----------------------------------------------------------------------------
(* The network, the event thread and the players. *)

\* A packet of the broadcast, or one that is not for a sender of this socket.
DatagramArrives(kind) ==
    /\ Len(datagrams) < MaxWaiting
    /\ datagrams' = Append(datagrams, kind)
    /\ UNCHANGED <<armed, events, idleTimer, run, queueVars, senderVars, plays, fBookmarks, sent>>
    /\ UNCHANGED historyVars

\* The event thread signals a socket once for each RequestEvent.
ReadEvent ==
    /\ armed /\ datagrams # <<>>
    /\ armed' = FALSE
    /\ events' = events \cup {"read"}
    /\ UNCHANGED <<datagrams, idleTimer, run, queueVars, senderVars, plays, fBookmarks, sent>>
    /\ UNCHANGED historyVars

TimePasses ==
    /\ age' = [p \in Packets |->
                  IF p \in Queued /\ age[p] <= sMaxPacketAgeMSec THEN age[p] + 1 ELSE age[p]]
    /\ UNCHANGED <<socketVars, run, fPacketQueue, fNeededByOutput, senderVars>>
    /\ UNCHANGED <<plays, fBookmarks, sent, historyVars>>

NextTimeComes ==
    /\ fNextTimeToRun = "later"
    /\ fNextTimeToRun' = "now"
    /\ UNCHANGED <<socketVars, run, queueVars, fHasNewPackets, fFirstPacketInQueueForNewOutput>>
    /\ UNCHANGED <<toServe, plays, fBookmarks, sent, historyVars>>

\* The idle timer is set for fNextTimeToRun.
IdleEvent ==
    /\ idleTimer /\ fNextTimeToRun = "now"
    /\ idleTimer' = FALSE
    /\ events' = events \cup {"idle"}
    /\ UNCHANGED <<datagrams, armed, run, queueVars, senderVars, plays, fBookmarks, sent>>
    /\ UNCHANGED historyVars

\* PLAY, the first or another: InitializeStreams has the first packets filtered again.
Play(o) ==
    /\ plays' = [plays EXCEPT ![o] = TRUE]
    /\ started' = [started EXCEPT ![o] = FALSE]
    /\ due' = [due EXCEPT ![o] = {}]
    /\ UNCHANGED <<socketVars, run, queueVars, senderVars, fBookmarks, sent, served, astray>>

Pause(o) ==
    /\ plays[o]
    /\ plays' = [plays EXCEPT ![o] = FALSE]
    /\ UNCHANGED <<socketVars, run, queueVars, senderVars, fBookmarks, sent, historyVars>>

-----------------------------------------------------------------------------
(* Packets come in. *)

\* ProcessPacket with a packet off the free queue or a new one.
ProcessPacket(p) ==
    /\ p \notin Queued
    /\ fPacketQueue' = Append(fPacketQueue, p)
    /\ age' = [age EXCEPT ![p] = 0]
    /\ fHasNewPackets' = TRUE
    /\ due' = [o \in Outputs |-> IF started[o] THEN due[o] \cup {p} ELSE due[o]]

\* A packet from the broadcaster's RTSP connection.
PushPacket(p) ==
    /\ run \in {"out", "lock to receive", "lock"}
    /\ ProcessPacket(p)
    /\ events' = events \cup {"idle"}
    /\ UNCHANGED <<datagrams, armed, idleTimer, run, fNeededByOutput, fNextTimeToRun>>
    /\ UNCHANGED <<fFirstPacketInQueueForNewOutput, toServe, plays, fBookmarks, sent>>
    /\ UNCHANGED <<started, served, astray>>

\* CancelTimeout and GetEvents.
RunBegin ==
    /\ run = "out" /\ events # {}
    /\ run' = IF "read" \in events THEN "lock to receive" ELSE "lock"
    /\ events' = {}
    /\ idleTimer' = FALSE
    /\ UNCHANGED <<datagrams, armed, queueVars, senderVars, plays, fBookmarks, sent, historyVars>>

LockDemuxer ==
    /\ \/ run = "lock to receive" /\ run' = "receive"
       \/ run = "lock" /\ run' = "decide"
    /\ UNCHANGED <<socketVars, queueVars, senderVars, plays, fBookmarks, sent, historyVars>>

\* GetIncomingData
ReceiveMedia(p) ==
    /\ run = "receive"
    /\ datagrams # <<>> /\ Head(datagrams) = "media"
    /\ datagrams' = Tail(datagrams)
    /\ ProcessPacket(p)
    /\ UNCHANGED <<armed, events, idleTimer, run, fNeededByOutput, fNextTimeToRun>>
    /\ UNCHANGED <<fFirstPacketInQueueForNewOutput, toServe, plays, fBookmarks, sent>>
    /\ UNCHANGED <<started, served, astray>>

\* No packet is left: RequestEvent(EV_RE).
ReceiveNothing ==
    /\ run = "receive"
    /\ datagrams = <<>>
    /\ armed' = TRUE
    /\ run' = "decide"
    /\ UNCHANGED <<datagrams, events, idleTimer, queueVars, senderVars, plays, fBookmarks, sent>>
    /\ UNCHANGED historyVars

\* An RTCP packet that is no sender report, or a packet without a sender, is put
\* back; GetIncomingData is left, without a RequestEvent.
ReceiveOther ==
    /\ run = "receive"
    /\ datagrams # <<>> /\ Head(datagrams) = "other"
    /\ datagrams' = Tail(datagrams)
    /\ run' = "decide"
    /\ UNCHANGED <<armed, events, idleTimer, queueVars, senderVars, plays, fBookmarks, sent>>
    /\ UNCHANGED historyVars

-----------------------------------------------------------------------------
(* ReflectPackets *)

ShouldReflectNow == fHasNewPackets \/ fNextTimeToRun = "now"

\* The wake-up time that is still to come is not passed on: it is compared with
\* the socket's, which is 0, and is not relative.  The idle timer stays cancelled.
NotNow ==
    /\ run = "decide"
    /\ ~ShouldReflectNow
    /\ run' = "out"
    /\ UNCHANGED <<socketVars, queueVars, senderVars, plays, fBookmarks, sent, historyVars>>

\* GetClientBufferStartPacketOffset: the oldest packet that is new enough, or, of
\* H.264 video, the first of those that begins a key frame.
ClientBufferStarts ==
    LET fresh == {p \in Queued : age[p] <= sOverBufferInMsec}
    IN  IF fresh = {} THEN {NoPacket} ELSE fresh

ReflectBegin ==
    /\ run = "decide"
    /\ ShouldReflectNow
    /\ run' = "reflect"
    /\ fHasNewPackets' = FALSE
    /\ fFirstPacketInQueueForNewOutput' \in ClientBufferStarts
    /\ toServe' = Outputs
    /\ served' = {}
    /\ UNCHANGED <<socketVars, queueVars, fNextTimeToRun, plays, fBookmarks, sent>>
    /\ UNCHANGED <<started, due, astray>>

\* An output that does not play is passed over.
PassOver(o) ==
    /\ run = "reflect" /\ o \in toServe
    /\ ~plays[o]
    /\ toServe' = toServe \ {o}
    /\ UNCHANGED <<socketVars, run, queueVars, fHasNewPackets, fNextTimeToRun>>
    /\ UNCHANGED <<fFirstPacketInQueueForNewOutput, plays, fBookmarks, sent, historyVars>>

\* GetBookMarkedPacket: the place of the first bookmark in this queue.
BookMarkSlots(o) == {s \in Slots : fBookmarks[o][s] \in Queued}

\* fAvailPosition: where that bookmark was, or the last place without one, or
\* none at all.
AvailSlots(o) ==
    IF BookMarkSlots(o) # {} THEN {Min(BookMarkSlots(o))}
    ELSE LET holes == {s \in Slots : fBookmarks[o][s] = NoPacket}
         IN  IF holes = {} THEN {} ELSE {Max(holes)}

StartPacket(o) ==
    IF BookMarkSlots(o) # {} THEN fBookmarks[o][Min(BookMarkSlots(o))]
    ELSE fFirstPacketInQueueForNewOutput

\* Mutant of LastPacket: the place after the packet that blocked.
PacketAfter(stop) == fPacketQueue[IF stop < Len(fPacketQueue) THEN stop + 1 ELSE Len(fPacketQueue)]

\* The packet that blocked, or the last one of the queue.
LastPacket(stop) == fPacketQueue[IF stop <= Len(fPacketQueue) THEN stop ELSE Len(fPacketQueue)]

\* SendPacketsToOutput writes the packets from StartPacket on until the packet at
\* stop blocks; a packet that was sent is not written again, and those before the
\* first sequence number since PLAY are filtered.
SendPacketsToOutput(o) ==
    /\ run = "reflect" /\ o \in toServe
    /\ plays[o]
    /\ StartPacket(o) # NoPacket
    /\ \E stop \in Place(StartPacket(o))..Len(fPacketQueue) + 1 :
       \E from \in Place(StartPacket(o))..stop :
          LET written == {i \in from..stop - 1 : fPacketQueue[i] \notin sent[o]}
          IN  /\ started[o] => from = Place(StartPacket(o))
              /\ sent' = [sent EXCEPT ![o] =
                             IF written = {} THEN @
                             ELSE @ \cup {fPacketQueue[i] : i \in 1..Max(written)}]
              /\ started' = [started EXCEPT ![o] = @ \/ written # {}]
              /\ due' = [due EXCEPT ![o] =
                            IF started[o] THEN @ \ {fPacketQueue[i] : i \in written}
                            ELSE IF written = {} THEN {}
                            ELSE {fPacketQueue[i] : i \in stop..Len(fPacketQueue)}]
              /\ fBookmarks' = [fBookmarks EXCEPT ![o] =
                    [s \in Slots |-> IF s \in AvailSlots(o) THEN LastPacket(stop) ELSE @[s]]]
              /\ fNeededByOutput' = fNeededByOutput \cup {LastPacket(stop)}
    /\ served' = served \cup {o}
    /\ toServe' = toServe \ {o}
    /\ UNCHANGED <<socketVars, run, fPacketQueue, age, fHasNewPackets, fNextTimeToRun>>
    /\ UNCHANGED <<fFirstPacketInQueueForNewOutput, plays, astray>>

\* There is nothing in the buffer for a new output.
SendNothing(o) ==
    /\ run = "reflect" /\ o \in toServe
    /\ plays[o]
    /\ StartPacket(o) = NoPacket
    /\ toServe' = toServe \ {o}
    /\ UNCHANGED <<socketVars, run, queueVars, fHasNewPackets, fNextTimeToRun>>
    /\ UNCHANGED <<fFirstPacketInQueueForNewOutput, plays, fBookmarks, sent, historyVars>>

\* Mutant of TooOld: whoever needs the packet.
TooOldForAnybody(p) == age[p] > sMaxPacketAgeMSec

TooOld(p) == p \notin fNeededByOutput /\ age[p] > sMaxPacketAgeMSec

\* The packets that RemoveOldPackets looks at: up to the first that is kept
\* because of its age.
LookedAt ==
    {p \in Queued : \A i \in 1..Place(p) - 1 : age[fPacketQueue[i]] > sMaxPacketAgeMSec}

\* The queue that is left when the others are removed.
InOrder(kept) ==
    {q \in [1..Cardinality(kept) -> kept] :
        /\ Range(q) = kept
        /\ \A i, j \in DOMAIN q : i < j => Place(q[i]) < Place(q[j])}

\* The rest of ReflectPackets and of Run: RemoveOldPackets, and the idle timer is
\* set.  A removed packet is free.
RemoveOldPackets ==
    LET removed == {p \in LookedAt : TooOld(p)}
    IN  /\ run = "reflect" /\ toServe = {}
        /\ fPacketQueue' \in InOrder(Queued \ removed)
        /\ age' = [p \in Packets |-> IF p \in removed THEN 0 ELSE age[p]]
        /\ fNeededByOutput' = fNeededByOutput \ LookedAt
        /\ sent' = [o \in Outputs |-> sent[o] \ removed]
        /\ due' = [o \in Outputs |-> due[o] \ removed]
        /\ astray' = [o \in Outputs |-> \/ astray[o]
                                        \/ /\ o \notin served
                                           /\ \E s \in Slots : fBookmarks[o][s] \in removed]
        /\ fFirstPacketInQueueForNewOutput' = NoPacket
        /\ fNextTimeToRun' = "later"
        /\ idleTimer' = TRUE
        /\ run' = "out"
        /\ UNCHANGED <<datagrams, armed, events, fHasNewPackets, toServe, plays, fBookmarks>>
        /\ UNCHANGED <<started, served>>

ReflectStep ==
    \/ RunBegin \/ LockDemuxer \/ ReceiveNothing \/ ReceiveOther
    \/ \E p \in Packets : ReceiveMedia(p)
    \/ NotNow \/ ReflectBegin \/ RemoveOldPackets
    \/ \E o \in Outputs : PassOver(o) \/ SendPacketsToOutput(o) \/ SendNothing(o)

StreamNext ==
    \/ \E kind \in {"media", "other"} : DatagramArrives(kind)
    \/ ReadEvent \/ TimePasses \/ NextTimeComes \/ IdleEvent
    \/ \E o \in Outputs : Play(o) \/ Pause(o)
    \/ \E p \in Packets : PushPacket(p)
    \/ ReflectStep

StreamSpec == StreamInit /\ [][StreamNext]_streamVars

\* The event thread, the idle timer's thread and the task's thread run.
FairStreamSpec ==
    /\ StreamSpec
    /\ WF_streamVars(ReadEvent) /\ WF_streamVars(NextTimeComes) /\ WF_streamVars(IdleEvent)
    /\ WF_streamVars(ReflectStep)

-----------------------------------------------------------------------------
StreamTypeOK ==
    /\ datagrams \in Seq({"media", "other"})
    /\ armed \in BOOLEAN /\ idleTimer \in BOOLEAN
    /\ events \subseteq {"read", "idle"}
    /\ run \in {"out", "lock to receive", "lock", "receive", "decide", "reflect"}
    /\ fPacketQueue \in Seq(Packets)
    /\ age \in [Packets -> 0..sMaxPacketAgeMSec + 1]
    /\ fNeededByOutput \subseteq Packets
    /\ fHasNewPackets \in BOOLEAN
    /\ fNextTimeToRun \in {"never", "later", "now"}
    /\ fFirstPacketInQueueForNewOutput \in Packets \cup {NoPacket}
    /\ toServe \subseteq Outputs /\ served \subseteq Outputs
    /\ plays \in [Outputs -> BOOLEAN]
    /\ fBookmarks \in [Outputs -> [Slots -> Packets \cup {NoPacket}]]
    /\ sent \in [Outputs -> SUBSET Packets] /\ due \in [Outputs -> SUBSET Packets]
    /\ started \in [Outputs -> BOOLEAN] /\ astray \in [Outputs -> BOOLEAN]

(* An output that plays finds its bookmark in the queue when its turn comes   *)
(* again: the packet it is blocked on is not removed, however old, while      *)
(* other outputs and the age of the packets around it change.                 *)
BookmarkIsKept ==
    run # "reflect" =>
        \A o \in served : astray[o] \/ BookMarkSlots(o) # {}

(* No packet that is still in the queue is skipped: what has arrived since an *)
(* output started and was not written to it comes after its bookmark and has  *)
(* a higher number than what was written last.  An output that paused until   *)
(* its bookmark was removed is no longer promised that.                       *)
NothingSkipped ==
    \A o \in Outputs : started[o] /\ ~astray[o] =>
        \A p \in due[o] :
            /\ p \in Queued \ sent[o]
            /\ \E s \in BookMarkSlots(o) : Place(fBookmarks[o][s]) <= Place(p)

(* "get all the outstanding packets for this socket" (ReflectorStream.cpp:    *)
(* 1901): a packet that waits in the socket is received.                      *)
OutstandingAreReceived == datagrams # <<>> ~> run = "receive"
=============================================================================
