----------------------------- MODULE EventThread -----------------------------
(***************************************************************************)
(* How a socket wakes its task: the event thread around select             *)
(* (CommonUtilitiesLib/ev.cpp) and the contexts that ask it for events     *)
(* (EventContext.cpp).                                                     *)
(*                                                                         *)
(* A context owns a file descriptor.  RequestEvent puts the descriptor in  *)
(* the sets that select watches, with a cookie, the unique ID of the       *)
(* context, and writes to a pipe so that a select under way returns.  An   *)
(* event takes the descriptor out of the sets again, until the next        *)
(* RequestEvent.  The event thread finds the context by the cookie in a    *)
(* reference table; here nobody else resolves a ref, so a ref is in use    *)
(* while the event thread has it.  Cleanup leaves closing the descriptor   *)
(* to the event thread.                                                    *)
(*                                                                         *)
(* sMaxFDPosMutex guards the sets; each hold of it is an action.           *)
(***************************************************************************)
EXTENDS Integers, Sequences, FiniteSets, FiniteSetsExt

CONSTANTS
    Contexts,      \* event contexts that may be made
    MaxFD,         \* descriptors are 1..MaxFD; 0 is the pipe's
    Masks,         \* what RequestEvent is called with for the socket of each
                   \* descriptor: sets of "read" and "write"
    kMaxUniqueID,  \* the ID after which they start again at 1 (10000000 in the code)
    None

FDs   == 1..MaxFD
Kinds == {"read", "write"}

ASSUME ConstantsAssumption ==
    /\ IsFiniteSet(Contexts)
    /\ MaxFD \in Nat \ {0}
    /\ Masks \in [FDs -> SUBSET (SUBSET Kinds \ {{}})]
    /\ kMaxUniqueID \in Nat \ {0, 1}
    /\ None \notin Contexts \cup Nat

VARIABLES
    \* the contexts
    step,        \* where each context is
    fFileDesc,   \* its descriptor, or None
    fUniqueID,   \* its ID, 0 before the first RequestEvent
    fTheMask,    \* what its RequestEvent under way asks for
    snarfed,     \* the context whose socket it is taking, or None
    sUniqueID,   \* the last ID given out
    fRefTable,   \* the contexts in the reference table, by ID
    \* ev.cpp, guarded by sMaxFDPosMutex
    watched,     \* <<descriptor, kind>> in sReadSet or sWriteSet
    returned,    \* the same for sReturnedReadSet and sReturnedWriteSet
    sCookieArray, sFDsToCloseArray, sMaxFDPos,
    \* ev.cpp, the event thread's own
    thread,      \* where the event thread is
    asked,       \* what the select under way was asked for
    sNumFDsBackFromSelect, sNumFDsProcessed, sCurrentFDPos, sInReadSet,
    req,         \* the event: a descriptor and its cookie
    resolved,    \* the context of the event, or None
    \* the kernel
    pipe,        \* there is data in the pipe
    openFDs, ready,
    \* history
    armed        \* what each context asked for since its last event

contextVars == <<step, fFileDesc, fUniqueID, fTheMask, snarfed, sUniqueID, fRefTable>>
maskVars    == <<watched, returned, sCookieArray, sFDsToCloseArray, sMaxFDPos>>
scanVars    == <<sNumFDsBackFromSelect, sNumFDsProcessed, sCurrentFDPos, sInReadSet>>
threadVars  == <<thread, asked, scanVars, req, resolved>>
kernelVars  == <<pipe, openFDs, ready>>
vars == <<contextVars, maskVars, threadVars, kernelVars, armed>>

NoEvent == [fd |-> 0, cookie |-> 0]

Init ==
    /\ step = [c \in Contexts |-> "unborn"]
    /\ fFileDesc = [c \in Contexts |-> None]
    /\ fUniqueID = [c \in Contexts |-> 0]
    /\ fTheMask = [c \in Contexts |-> {}]
    /\ snarfed = [c \in Contexts |-> None]
    /\ sUniqueID = 1
    /\ fRefTable = {}
    /\ watched = {} /\ returned = {}
    /\ sCookieArray = [fd \in FDs |-> 0]
    /\ sFDsToCloseArray = <<>>
    /\ sMaxFDPos = 0
    /\ thread = "scan"
    /\ asked = {}
    /\ sNumFDsBackFromSelect = 0 /\ sNumFDsProcessed = 0
    /\ sCurrentFDPos = 0 /\ sInReadSet = TRUE
    /\ req = NoEvent
    /\ resolved = None
    /\ pipe = FALSE
    /\ openFDs = {} /\ ready = {}
    /\ armed = [c \in Contexts |-> {}]

-----------------------------------------------------------------------------
(* The contexts, each used by one task at a time. *)

Step(c, from, to) == step[c] = from /\ step' = [step EXCEPT ![c] = to]

\* The kernel gives a new socket any descriptor that is not open.
OpenSocket(c, fd) ==
    /\ Step(c, "unborn", "open")
    /\ fd \in FDs \ openFDs
    /\ openFDs' = openFDs \cup {fd}
    /\ fFileDesc' = [fFileDesc EXCEPT ![c] = fd]
    /\ UNCHANGED <<fUniqueID, fTheMask, snarfed, sUniqueID, fRefTable, maskVars, threadVars>>
    /\ UNCHANGED <<pipe, ready, armed>>

\* The first RequestEvent gets an ID, the others go to select_modwatch at once.
RequestEvent(c, mask) ==
    /\ Step(c, "open", "new id") \/ Step(c, "watching", "modwatch")
    /\ fTheMask' = [fTheMask EXCEPT ![c] = mask]
    /\ UNCHANGED <<fFileDesc, fUniqueID, snarfed, sUniqueID, fRefTable, maskVars, threadVars>>
    /\ UNCHANGED <<kernelVars, armed>>

\* compare_and_store(kMaxUniqueID, 1, &sUniqueID)
WrapUniqueID(c) ==
    /\ IF sUniqueID = kMaxUniqueID
       THEN /\ Step(c, "new id", "register")
            /\ sUniqueID' = 1
            /\ fUniqueID' = [fUniqueID EXCEPT ![c] = 1]
       ELSE /\ Step(c, "new id", "next id")
            /\ UNCHANGED <<sUniqueID, fUniqueID>>
    /\ UNCHANGED <<fFileDesc, fTheMask, snarfed, fRefTable, maskVars, threadVars, kernelVars, armed>>

\* Mutant of NextUniqueID: the increment is not stored.
NextUniqueIDLost(c) ==
    /\ Step(c, "next id", "register")
    /\ fUniqueID' = [fUniqueID EXCEPT ![c] = sUniqueID + 1]
    /\ UNCHANGED <<sUniqueID, fFileDesc, fTheMask, snarfed, fRefTable>>
    /\ UNCHANGED <<maskVars, threadVars, kernelVars, armed>>

\* atomic_add(&sUniqueID, 1), which returns the new value.
NextUniqueID(c) ==
    /\ Step(c, "next id", "register")
    /\ sUniqueID' = sUniqueID + 1
    /\ fUniqueID' = [fUniqueID EXCEPT ![c] = sUniqueID']
    /\ UNCHANGED <<fFileDesc, fTheMask, snarfed, fRefTable, maskVars, threadVars, kernelVars, armed>>

\* An ID that is in the table already is refused, and nobody looks at the error.
Register(c) ==
    /\ Step(c, "register", "modwatch")
    /\ fRefTable' = IF \E d \in fRefTable : fUniqueID[d] = fUniqueID[c]
                    THEN fRefTable ELSE fRefTable \cup {c}
    /\ UNCHANGED <<fFileDesc, fUniqueID, fTheMask, snarfed, sUniqueID>>
    /\ UNCHANGED <<maskVars, threadVars, kernelVars, armed>>

Of(fd) == {fd} \X Kinds

\* Mutant of HighestFD: the highest descriptor is not raised again.
KeepHighestFD(fd) == sMaxFDPos

HighestFD(fd) == Max({fd, sMaxFDPos})

\* select_modwatch: the request replaces what was watched of this descriptor.
ModWatch(c) ==
    LET fd == fFileDesc[c]
    IN  /\ Step(c, "modwatch", "write pipe")
        /\ watched' = (watched \ Of(fd)) \cup ({fd} \X fTheMask[c])
        /\ sMaxFDPos' = HighestFD(fd)
        /\ sCookieArray' = [sCookieArray EXCEPT ![fd] = fUniqueID[c]]
        /\ armed' = [armed EXCEPT ![c] = fTheMask[c]]
        /\ UNCHANGED <<fFileDesc, fUniqueID, fTheMask, snarfed, sUniqueID, fRefTable>>
        /\ UNCHANGED <<returned, sFDsToCloseArray, threadVars, kernelVars>>

\* Mutant of WakeSelect: the pipe is not written to.
NoWake == pipe

\* "write to the pipe so that select wakes up and registers the new mask"
WakeSelect == TRUE

WritePipe(c) ==
    /\ Step(c, "write pipe", "watching") \/ Step(c, "write pipe at end", "closed")
    /\ pipe' = WakeSelect
    /\ UNCHANGED <<fFileDesc, fUniqueID, fTheMask, snarfed, sUniqueID, fRefTable>>
    /\ UNCHANGED <<maskVars, threadVars, openFDs, ready, armed>>

\* Cleanup of a socket that never asked for an event closes it right away.
CleanupUnwatched(c) ==
    /\ Step(c, "open", "closed")
    /\ openFDs' = openFDs \ {fFileDesc[c]}
    /\ ready' = ready \ Of(fFileDesc[c])
    /\ fFileDesc' = [fFileDesc EXCEPT ![c] = None]
    /\ UNCHANGED <<fUniqueID, fTheMask, snarfed, sUniqueID, fRefTable, maskVars, threadVars>>
    /\ UNCHANGED <<pipe, armed>>

\* Mutant of Unused: Cleanup does not wait for the event thread.
NotWaitedFor(c) == TRUE

\* OSRefTable::UnRegister waits until the event thread releases the ref.
Unused(c) == resolved # c

CleanupUnRegister(c) ==
    /\ Step(c, "watching", "removing")
    /\ Unused(c)
    /\ fRefTable' = fRefTable \ {c}
    /\ armed' = [armed EXCEPT ![c] = {}]
    /\ UNCHANGED <<fFileDesc, fUniqueID, fTheMask, snarfed, sUniqueID>>
    /\ UNCHANGED <<maskVars, threadVars, kernelVars>>

\* "recompute what the highest one is": the highest in the two sets.
Highest(set) == Max({0} \cup {w[1] : w \in set})

\* select_removeevent
RemoveEvent(c) ==
    LET fd == fFileDesc[c]
    IN  /\ Step(c, "removing", "write pipe at end")
        /\ watched' = watched \ Of(fd)
        /\ returned' = returned \ Of(fd)
        /\ sCookieArray' = [sCookieArray EXCEPT ![fd] = 0]
        /\ sMaxFDPos' = IF fd = sMaxFDPos THEN Highest(watched') ELSE sMaxFDPos
        /\ sFDsToCloseArray' = Append(sFDsToCloseArray, fd)
        /\ fFileDesc' = [fFileDesc EXCEPT ![c] = None]
        /\ UNCHANGED <<fUniqueID, fTheMask, snarfed, sUniqueID, fRefTable>>
        /\ UNCHANGED <<threadVars, kernelVars, armed>>

\* TCPSocket::SnarfSocket and SnarfEventContext: the descriptor, the ID and the
\* place in the table pass to c.  Events of the old context under way stay with
\* it: "this whole operation causes a race condition for Event posting".
SnarfEventContext(c, from) ==
    /\ step[c] = "unborn" /\ step[from] = "watching"
    /\ step' = [step EXCEPT ![c] = "snarfing", ![from] = "snarfed"]
    /\ fFileDesc' = [fFileDesc EXCEPT ![c] = fFileDesc[from], ![from] = None]
    /\ fUniqueID' = [fUniqueID EXCEPT ![c] = fUniqueID[from]]
    /\ snarfed' = [snarfed EXCEPT ![c] = from]
    /\ fRefTable' = IF from \in fRefTable THEN (fRefTable \ {from}) \cup {c} ELSE fRefTable
    /\ armed' = [armed EXCEPT ![from] = {}]
    /\ UNCHANGED <<fTheMask, sUniqueID, maskVars, threadVars, kernelVars>>

\* The UnRegister of the old ref, which waits for the event thread as well.
SnarfUnRegister(c) ==
    /\ step[c] = "snarfing"
    /\ Unused(snarfed[c])
    /\ step' = [step EXCEPT ![c] = "watching", ![snarfed[c]] = "closed"]
    /\ snarfed' = [snarfed EXCEPT ![c] = None]
    /\ UNCHANGED <<fFileDesc, fUniqueID, fTheMask, sUniqueID, fRefTable>>
    /\ UNCHANGED <<maskVars, threadVars, kernelVars, armed>>

ContextStep(c) ==
    \/ WrapUniqueID(c) \/ NextUniqueID(c) \/ Register(c) \/ ModWatch(c)
    \/ WritePipe(c) \/ RemoveEvent(c) \/ SnarfUnRegister(c)

-----------------------------------------------------------------------------
(* select_waitevent, select and EventThread::Entry. *)

Goto(from, to) ==
    /\ thread = from
    /\ thread' = to

\* The lowest descriptor of this kind from sCurrentFDPos on; the scan stops at
\* sMaxFDPos.
Found(kind) ==
    {fd \in FDs : /\ <<fd, kind>> \in returned
                  /\ fd >= sCurrentFDPos
                  /\ fd <= sMaxFDPos \/ fd = sCurrentFDPos}

\* "don't want events on this fd until modwatch is called"
Disarm(fd) == watched \ Of(fd)

\* constructeventreq
ConstructEventReq(kind) ==
    LET fd == Min(Found(kind))
    IN  /\ Found(kind) # {}
        /\ Goto("scan", "event")
        /\ returned' = returned \ {<<fd, kind>>}
        /\ watched' = Disarm(fd)
        /\ req' = [fd |-> fd, cookie |-> sCookieArray[fd]]
        /\ sCurrentFDPos' = fd + 1
        /\ sNumFDsProcessed' = sNumFDsProcessed + 1
        /\ UNCHANGED <<sInReadSet, sNumFDsBackFromSelect, asked, resolved>>
        /\ UNCHANGED <<contextVars, sCookieArray, sFDsToCloseArray, sMaxFDPos, kernelVars, armed>>

Scanning == thread = "scan" /\ sNumFDsProcessed < sNumFDsBackFromSelect

ScanReadSet ==
    /\ Scanning /\ sInReadSet
    /\ \/ ConstructEventReq("read")
       \/ /\ Found("read") = {}
          /\ sInReadSet' = FALSE
          /\ sCurrentFDPos' = 0
          /\ UNCHANGED <<thread, asked, sNumFDsBackFromSelect, sNumFDsProcessed, req, resolved>>
          /\ UNCHANGED <<contextVars, maskVars, kernelVars, armed>>

\* At the end of the write set the scan is over: descriptors it did not find were
\* removed meanwhile.
ScanWriteSet ==
    /\ Scanning /\ ~ sInReadSet
    /\ \/ ConstructEventReq("write")
       \/ /\ Found("write") = {}
          /\ sNumFDsProcessed' = sNumFDsBackFromSelect
          /\ UNCHANGED <<thread, asked, sNumFDsBackFromSelect, sCurrentFDPos, sInReadSet>>
          /\ UNCHANGED <<req, resolved, contextVars, maskVars, kernelVars, armed>>

\* Mutant of CopySets: the counting does not start again.
CopySetsOnly ==
    /\ thread = "scan" /\ ~ Scanning
    /\ thread' = "select"
    /\ sNumFDsBackFromSelect' = 0
    /\ returned' = watched
    /\ UNCHANGED <<sNumFDsProcessed, sCurrentFDPos, sInReadSet, asked, req, resolved, contextVars>>
    /\ UNCHANGED <<watched, sCookieArray, sFDsToCloseArray, sMaxFDPos, kernelVars, armed>>

\* The counting starts again, and the sets are copied for select.
CopySets ==
    /\ thread = "scan" /\ ~ Scanning
    /\ thread' = "select"
    /\ sNumFDsProcessed' = 0 /\ sNumFDsBackFromSelect' = 0
    /\ sCurrentFDPos' = 0 /\ sInReadSet' = TRUE
    /\ returned' = watched
    /\ UNCHANGED <<asked, req, resolved, contextVars>>
    /\ UNCHANGED <<watched, sCookieArray, sFDsToCloseArray, sMaxFDPos, kernelVars, armed>>

\* select is called with sMaxFDPos + 1, read without the mutex.
SelectBegin ==
    /\ Goto("select", "in select")
    /\ asked' = {w \in returned : w[1] <= sMaxFDPos}
    /\ UNCHANGED <<scanVars, req, resolved, contextVars, maskVars, kernelVars, armed>>

\* The pipe is always watched.
SomethingIsReady == pipe \/ asked \cap ready # {}

\* select returns when something is ready.
SelectReturns ==
    /\ thread = "in select"
    /\ SomethingIsReady
    /\ thread' = IF pipe THEN "read pipe" ELSE "scan"
    /\ returned' = asked \cap ready
    /\ sNumFDsBackFromSelect' = Cardinality(asked \cap ready)
    /\ asked' = {}
    /\ UNCHANGED <<sNumFDsProcessed, sCurrentFDPos, sInReadSet, req, resolved, contextVars>>
    /\ UNCHANGED <<watched, sCookieArray, sFDsToCloseArray, sMaxFDPos, kernelVars, armed>>

\* Nothing is ready, and 15 seconds are over or a signal came: select is called
\* again.
SelectEndsEmpty ==
    /\ Goto("in select", "scan")
    /\ ~ SomethingIsReady
    /\ asked' = {} /\ returned' = {}
    /\ UNCHANGED <<scanVars, req, resolved, contextVars>>
    /\ UNCHANGED <<watched, sCookieArray, sFDsToCloseArray, sMaxFDPos, kernelVars, armed>>

\* selecthasdata empties the pipe first and closes the descriptors after.
ReadPipe ==
    /\ Goto("read pipe", "close")
    /\ pipe' = FALSE
    /\ UNCHANGED <<asked, scanVars, req, resolved, contextVars, maskVars, openFDs, ready, armed>>

FDsToClose == {sFDsToCloseArray[i] : i \in DOMAIN sFDsToCloseArray}

\* Mutant of CloseFDs: the array is not emptied.
CloseFDsAgain ==
    /\ Goto("close", "scan")
    /\ openFDs' = openFDs \ FDsToClose
    /\ ready' = ready \ (FDsToClose \X Kinds)
    /\ UNCHANGED <<asked, scanVars, req, resolved, contextVars>>
    /\ UNCHANGED <<sFDsToCloseArray, watched, returned, sCookieArray, sMaxFDPos, pipe, armed>>

CloseFDs ==
    /\ Goto("close", "scan")
    /\ openFDs' = openFDs \ FDsToClose
    /\ ready' = ready \ (FDsToClose \X Kinds)
    /\ sFDsToCloseArray' = <<>>
    /\ UNCHANGED <<asked, scanVars, req, resolved, contextVars>>
    /\ UNCHANGED <<watched, returned, sCookieArray, sMaxFDPos, pipe, armed>>

\* The cookie leads to a context, or to none if it was removed.
ResolveEvent ==
    /\ thread = "event"
    /\ \/ \E c \in fRefTable :
              /\ fUniqueID[c] = req.cookie
              /\ resolved' = c
              /\ thread' = "process"
       \/ /\ \A c \in fRefTable : fUniqueID[c] # req.cookie
          /\ thread' = "scan"
          /\ UNCHANGED resolved
    /\ UNCHANGED <<asked, scanVars, req, contextVars, maskVars, kernelVars, armed>>

\* ProcessEvent signals the task of the context; then Release.
ProcessEvent ==
    /\ Goto("process", "scan")
    /\ armed' = [armed EXCEPT ![resolved] = {}]
    /\ resolved' = None
    /\ UNCHANGED <<asked, scanVars, req, contextVars, maskVars, kernelVars>>

ThreadStep ==
    \/ ScanReadSet \/ ScanWriteSet \/ CopySets \/ SelectBegin \/ SelectReturns
    \/ ReadPipe \/ CloseFDs \/ ResolveEvent \/ ProcessEvent

-----------------------------------------------------------------------------
\* Data comes in or leaves; the socket of a context is read.
SocketChanges(fd, kind) ==
    /\ fd \in openFDs
    /\ ready' = IF <<fd, kind>> \in ready THEN ready \ {<<fd, kind>>} ELSE ready \cup {<<fd, kind>>}
    /\ UNCHANGED <<contextVars, maskVars, threadVars, pipe, openFDs, armed>>

Next ==
    \/ \E c \in Contexts :
          \/ \E fd \in FDs : OpenSocket(c, fd)
          \/ \E fd \in FDs : fFileDesc[c] = fd /\ \E mask \in Masks[fd] : RequestEvent(c, mask)
          \/ CleanupUnwatched(c) \/ CleanupUnRegister(c)
          \/ \E from \in Contexts : SnarfEventContext(c, from)
          \/ ContextStep(c)
    \/ ThreadStep \/ SelectEndsEmpty
    \/ \E fd \in FDs : \E kind \in UNION Masks[fd] : SocketChanges(fd, kind)

Spec == Init /\ [][Next]_vars

\* The threads run.  select need not time out for events to arrive.
FairSpec ==
    /\ Spec
    /\ WF_vars(ThreadStep)
    /\ \A c \in Contexts : WF_vars(ContextStep(c))

-----------------------------------------------------------------------------
Steps == {"unborn", "open", "new id", "next id", "register", "modwatch", "write pipe",
          "watching", "removing", "write pipe at end", "snarfing", "snarfed", "closed"}

TypeOK ==
    /\ step \in [Contexts -> Steps]
    /\ fFileDesc \in [Contexts -> FDs \cup {None}]
    /\ fUniqueID \in [Contexts -> Nat]
    /\ fTheMask \in [Contexts -> SUBSET Kinds]
    /\ snarfed \in [Contexts -> Contexts \cup {None}]
    /\ sUniqueID \in Nat
    /\ fRefTable \subseteq Contexts
    /\ watched \subseteq FDs \X Kinds
    /\ returned \subseteq FDs \X Kinds
    /\ asked \subseteq FDs \X Kinds
    /\ sCookieArray \in [FDs -> Nat]
    /\ sFDsToCloseArray \in Seq(FDs)
    /\ sMaxFDPos \in FDs \cup {0}
    /\ thread \in {"scan", "select", "in select", "read pipe", "close", "event", "process"}
    /\ sNumFDsBackFromSelect \in 0..2 * MaxFD
    /\ sNumFDsProcessed \in 0..sNumFDsBackFromSelect
    /\ sCurrentFDPos \in 0..MaxFD + 1
    /\ sInReadSet \in BOOLEAN
    /\ req \in [fd : FDs \cup {0}, cookie : Nat]
    /\ resolved \in Contexts \cup {None}
    /\ pipe \in BOOLEAN
    /\ openFDs \subseteq FDs
    /\ ready \subseteq openFDs \X Kinds
    /\ armed \in [Contexts -> SUBSET Kinds]

\* An event for c is on its way from the scan to ProcessEvent.
EventUnderWay(c) ==
    \/ thread = "event" /\ req.cookie = fUniqueID[c] /\ c \in fRefTable
    \/ thread = "process" /\ resolved = c

\* A context that asked for events is watched, below sMaxFDPos and with its own
\* cookie, unless an event for it is under way: it never goes deaf.
ArmedIsWatched ==
    \A c \in Contexts : armed[c] # {} =>
        \/ EventUnderWay(c)
        \/ /\ {fFileDesc[c]} \X armed[c] \subseteq watched
           /\ sCookieArray[fFileDesc[c]] = fUniqueID[c]
           /\ fFileDesc[c] <= sMaxFDPos

\* A descriptor has one owner: a context or the array of those to be closed.  So
\* the event thread never closes a number the kernel has given out again.
OneOwnerPerFD ==
    /\ \A c, d \in Contexts : fFileDesc[c] # None /\ fFileDesc[c] = fFileDesc[d] => c = d
    /\ \A c \in Contexts : fFileDesc[c] \notin FDsToClose
    /\ \A i, j \in DOMAIN sFDsToCloseArray : sFDsToCloseArray[i] = sFDsToCloseArray[j] => i = j
    /\ FDsToClose \subseteq openFDs

\* The context that is told of an event owns the descriptor it came from, or has
\* just given it to another context; its memory is there while it is told.
EventReachesOwner ==
    resolved # None =>
        /\ fFileDesc[resolved] \in {req.fd, None}
        /\ step[resolved] \notin {"unborn", "removing", "write pipe at end", "closed"}

\* "allocate a Unique ID for this socket" (EventContext.cpp:179): no two contexts
\* with a socket have the same.
IDsAreUnique ==
    \A c, d \in Contexts :
        /\ fFileDesc[c] # None /\ fFileDesc[d] # None
        /\ fUniqueID[c] # 0 /\ fUniqueID[c] = fUniqueID[d]
        => c = d

\* A context that waits for data that is there is told, without a timeout of
\* select.
ReadyIsTold ==
    \A c \in Contexts, kind \in Kinds :
        kind \in armed[c] ~> \/ kind \notin armed[c]
                             \/ <<fFileDesc[c], kind>> \notin ready

\* A removed descriptor is closed.
RemovedIsClosed == sFDsToCloseArray # <<>> ~> sFDsToCloseArray = <<>>
=============================================================================
