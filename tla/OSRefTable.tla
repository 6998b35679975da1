----------------------------- MODULE OSRefTable -----------------------------
(***************************************************************************)
(* The tables by which the server finds an object by its name: sessions,   *)
(* streams, open files, HTTP tunnels, socket events                        *)
(* (CommonUtilitiesLib/OSRef.cpp, OSRef.h, OSHashTable.h).                 *)
(*                                                                         *)
(* A ref names an object.  Resolve finds a ref by name and counts one more *)
(* user of it, Release counts one less, UnRegister waits until nobody else *)
(* uses the ref and takes it out of the table.  The owner of the object    *)
(* deletes it when UnRegister has returned.                                *)
(*                                                                         *)
(* Every operation holds the mutex of the table from beginning to end, so  *)
(* it is one action, except UnRegister, which lets go of the mutex in      *)
(* OSCond::Wait.  A user is one use of the table by a thread: it has at    *)
(* most one ref resolved, and a thread with two refs is two users.         *)
(***************************************************************************)
EXTENDS Integers, FiniteSets

CONSTANTS
    Refs,       \* the refs that exist
    Names,      \* the strings they are named by
    fString,    \* the name of each ref, set before it is registered
    Users,      \* the uses of the table that may be under way at once
    RefCounts,  \* the counts that UnRegister is called with
    None

ASSUME ConstantsAssumption ==
    /\ fString \in [Refs -> Names]
    /\ IsFiniteSet(Users)
    /\ RefCounts \subseteq Nat
    /\ None \notin Refs

VARIABLES
    fTable,      \* the refs in the hash table
    fRefCount,   \* how many users each ref counts
    pc,          \* each user: outside, or where it is in UnRegister
    ref,         \* the ref a user has resolved, or unregisters, or None
    refCount,    \* the count UnRegister was called with
    status,      \* history: "new", "registered" or "unregistered"
    limit        \* history: the users it had when it was unregistered, at most

vars == <<fTable, fRefCount, pc, ref, refCount, status, limit>>

Init ==
    /\ fTable = {}
    /\ fRefCount = [r \in Refs |-> 0]
    /\ pc = [u \in Users |-> "outside"]
    /\ ref = [u \in Users |-> None]
    /\ refCount = [u \in Users |-> 0]
    /\ status = [r \in Refs |-> "new"]
    /\ limit = [r \in Refs |-> 0]

Idle(u) == pc[u] = "outside" /\ ref[u] = None

\* OSHashTable::Map: the refs in the table with this name.
Map(name) == {r \in fTable : fString[r] = name}

-----------------------------------------------------------------------------
(* A duplicate name is refused, with EPERM: the table does not change. *)
\* Mutant of CanRegister: the duplicate is not looked for.
AddWithoutCheck(r) == TRUE

CanRegister(r) == Map(fString[r]) = {}

Register(u, r) ==
    /\ Idle(u)
    /\ status[r] = "new"
    /\ CanRegister(r)
    /\ fTable' = fTable \cup {r}
    /\ status' = [status EXCEPT ![r] = "registered"]
    /\ UNCHANGED <<fRefCount, pc, ref, refCount, limit>>

\* "If there is a duplicate ID already in the map, ... resolves it"
RegisterOrResolve(u, r) ==
    /\ Idle(u)
    /\ status[r] = "new"
    /\ IF CanRegister(r)
       THEN /\ fTable' = fTable \cup {r}
            /\ status' = [status EXCEPT ![r] = "registered"]
            /\ UNCHANGED <<fRefCount, ref>>
       ELSE /\ \E duplicate \in Map(fString[r]) :
                  /\ fRefCount' = [fRefCount EXCEPT ![duplicate] = @ + 1]
                  /\ ref' = [ref EXCEPT ![u] = duplicate]
            /\ UNCHANGED <<fTable, status>>
    /\ UNCHANGED <<pc, refCount, limit>>

\* Mutant of Resolve: the new user is not counted.
ResolveUncounted(u, name) ==
    /\ Idle(u)
    /\ \E r \in Map(name) : ref' = [ref EXCEPT ![u] = r]
    /\ UNCHANGED <<fTable, fRefCount, pc, refCount, status, limit>>

Resolve(u, name) ==
    /\ Idle(u)
    /\ \E r \in Map(name) :
           /\ fRefCount' = [fRefCount EXCEPT ![r] = @ + 1]
           /\ ref' = [ref EXCEPT ![u] = r]
    /\ UNCHANGED <<fTable, pc, refCount, status, limit>>

Waiters(r) == {w \in Users : pc[w] = "waiting" /\ ref[w] = r}

\* Mutant of SignalWaiter: nobody is woken.
NoSignal(r) == UNCHANGED pc

\* fCond.Signal wakes one thread that waits for this ref, if there is one.
SignalWaiter(r) ==
    IF Waiters(r) = {} THEN UNCHANGED pc
    ELSE \E w \in Waiters(r) : pc' = [pc EXCEPT ![w] = "checking"]

Release(u) ==
    /\ pc[u] = "outside"
    /\ ref[u] # None
    /\ fRefCount' = [fRefCount EXCEPT ![ref[u]] = @ - 1]
    /\ SignalWaiter(ref[u])
    /\ ref' = [ref EXCEPT ![u] = None]
    /\ UNCHANGED <<fTable, refCount, status, limit>>

\* The old ref of this name leaves the table and the new one takes its place.
\* The old one "must STILL be UnRegistered normally" (OSRef.h:226).
Swap(u, newRef) ==
    /\ Idle(u)
    /\ status[newRef] = "new"
    /\ \E oldRef \in Map(fString[newRef]) : fTable' = (fTable \ {oldRef}) \cup {newRef}
    /\ status' = [status EXCEPT ![newRef] = "registered"]
    /\ UNCHANGED <<fRefCount, pc, ref, refCount, limit>>

-----------------------------------------------------------------------------
(* UnRegister.  One thread at a time unregisters a ref, its object or who  *)
(* deletes the object, but the other may do so again afterwards            *)
(* (EasyHLSModule.cpp:201, EasyHLSSession.cpp:112).                        *)
NotBeingUnRegistered(r) == \A w \in Users : pc[w] # "outside" => ref[w] # r

UnRegister(u, r, count) ==
    /\ Idle(u)
    /\ status[r] # "new"
    /\ NotBeingUnRegistered(r)
    /\ pc' = [pc EXCEPT ![u] = "checking"]
    /\ ref' = [ref EXCEPT ![u] = r]
    /\ refCount' = [refCount EXCEPT ![u] = count]
    /\ UNCHANGED <<fTable, fRefCount, status, limit>>

\* Mutant of InUse: the users that are counted may be one more.
InUseByMore(r, count) == fRefCount[r] > count + 1

InUse(r, count) == fRefCount[r] > count

\* fRefCount > refCount: OSCond::Wait gives the mutex back.
WaitForUsers(u) ==
    /\ pc[u] = "checking"
    /\ InUse(ref[u], refCount[u])
    /\ pc' = [pc EXCEPT ![u] = "waiting"]
    /\ UNCHANGED <<fTable, fRefCount, ref, refCount, status, limit>>

\* POSIX lets a wait on a condition end without a signal.
WakeByItself(u) ==
    /\ pc[u] = "waiting"
    /\ pc' = [pc EXCEPT ![u] = "checking"]
    /\ UNCHANGED <<fTable, fRefCount, ref, refCount, status, limit>>

\* OSHashTable::Remove, which does nothing to a ref that is not there any more.
Remove(u) ==
    /\ pc[u] = "checking"
    /\ ~ InUse(ref[u], refCount[u])
    /\ fTable' = fTable \ {ref[u]}
    /\ status' = [status EXCEPT ![ref[u]] = "unregistered"]
    /\ limit' = [limit EXCEPT ![ref[u]] = refCount[u]]
    /\ pc' = [pc EXCEPT ![u] = "outside"]
    /\ ref' = [ref EXCEPT ![u] = None]
    /\ UNCHANGED <<fRefCount, refCount>>

\* "Same as UnRegister, but guaranteed not to block"
TryUnRegister(u, r, count) ==
    /\ Idle(u)
    /\ status[r] # "new"
    /\ NotBeingUnRegistered(r)
    /\ ~ InUse(r, count)
    /\ fTable' = fTable \ {r}
    /\ status' = [status EXCEPT ![r] = "unregistered"]
    /\ limit' = [limit EXCEPT ![r] = count]
    /\ UNCHANGED <<fRefCount, pc, ref, refCount>>

Next ==
    \E u \in Users :
        \/ \E r \in Refs :
              \/ Register(u, r) \/ RegisterOrResolve(u, r) \/ Swap(u, r)
              \/ \E count \in RefCounts : UnRegister(u, r, count) \/ TryUnRegister(u, r, count)
        \/ \E name \in Names : Resolve(u, name)
        \/ Release(u)
        \/ WaitForUsers(u) \/ WakeByItself(u) \/ Remove(u)

Spec == Init /\ [][Next]_vars

\* A thread that is woken gets the mutex, again and again if it must, and finds
\* the ref unused if it is unused again and again.  Every resolved ref is released
\* "in a timely manner" (OSRef.h:211).  No wait needs to end by itself.
Fairness ==
    \A u \in Users : WF_vars(Release(u)) /\ WF_vars(WaitForUsers(u)) /\ SF_vars(Remove(u))

FairSpec == Spec /\ Fairness

-----------------------------------------------------------------------------
TypeOK ==
    /\ fTable \subseteq Refs
    /\ fRefCount \in [Refs -> Nat]
    /\ pc \in [Users -> {"outside", "checking", "waiting"}]
    /\ ref \in [Users -> Refs \cup {None}]
    /\ refCount \in [Users -> RefCounts \cup {0}]
    /\ status \in [Refs -> {"new", "registered", "unregistered"}]
    /\ limit \in [Refs -> RefCounts \cup {0}]

\* The users that have resolved r and not released it yet.
UsersOf(r) == {u \in Users : pc[u] = "outside" /\ ref[u] = r}

\* The count of a ref, an unsigned number, is the number of its users: it is
\* never decremented below zero (OSRef.cpp:168-171).
RefsAreCounted == \A r \in Refs : fRefCount[r] = Cardinality(UsersOf(r))

\* Two refs in the table never have one name: Register, RegisterOrResolve and
\* Swap add to the same table in any order.
NamesAreUnique == \A r, s \in fTable : fString[r] = fString[s] => r = s

\* "Once the Ref is resolved, it is safe to use" (OSRef.h:210): the owner that
\* unregistered with count n finds n users at most, and nobody can come after,
\* whatever happened to the ref in between.  Called with 0, the way the server
\* calls it, nobody uses the object that the owner now deletes.
UnregisteredIsUnused ==
    \A r \in Refs : status[r] = "unregistered" =>
        /\ r \notin fTable
        /\ Cardinality(UsersOf(r)) <= limit[r]

\* An UnRegister returns unless the users of the ref take turns for ever: no
\* Release leaves a thread asleep that could go on.
UnRegisterReturns ==
    \A r \in Refs : []<>(UsersOf(r) = {}) =>
        \A u \in Users : pc[u] # "outside" /\ ref[u] = r ~> pc[u] = "outside"
=============================================================================
