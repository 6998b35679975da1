-------------------------- MODULE OSRefTable_proofs --------------------------
(***************************************************************************)
(* Theorems about OSRefTable for any refs, names and finite set of users.  *)
(* Registry is the inductive invariant: the counts are right because every *)
(* action moves one user and one count together; a ref in the table is     *)
(* registered, so that nobody resolves a ref after its UnRegister.         *)
(***************************************************************************)
EXTENDS OSRefTable, FiniteSetTheorems, TLAPS

Registry ==
    /\ TypeOK
    /\ RefsAreCounted
    /\ NamesAreUnique
    /\ UnregisteredIsUnused
    /\ \A r \in fTable : status[r] = "registered"
    /\ \A u \in Users : pc[u] # "outside" => ref[u] # None

\* The argument of UnRegister is a number.
LEMMA CountsAreNumbers == \A count \in RefCounts \cup {0} : count \in Int
BY ConstantsAssumption

\* The count of a set of users is a number, and follows one user in or out.
LEMMA UsersOfCount ==
    ASSUME NEW r
    PROVE  /\ IsFiniteSet(UsersOf(r))
           /\ Cardinality(UsersOf(r)) \in Nat
           /\ \A u : u \notin UsersOf(r) =>
                  Cardinality(UsersOf(r) \cup {u}) = Cardinality(UsersOf(r)) + 1
           /\ \A u \in UsersOf(r) :
                  Cardinality(UsersOf(r) \ {u}) = Cardinality(UsersOf(r)) - 1
<1>1. IsFiniteSet(UsersOf(r))
    BY FS_Subset, ConstantsAssumption DEF UsersOf
<1>2. Cardinality(UsersOf(r)) \in Nat
    BY <1>1, FS_CardinalityType
<1> QED BY <1>1, <1>2, FS_AddElement, FS_RemoveElement

\* An idle user that resolves a ref of the table is one more user of this ref and
\* of no other.
LEMMA ResolveCounts ==
    ASSUME Registry, NEW u \in Users, Idle(u), NEW r \in fTable,
           fRefCount' = [fRefCount EXCEPT ![r] = @ + 1],
           ref' = [ref EXCEPT ![u] = r],
           UNCHANGED <<fTable, pc, refCount, status, limit>>
    PROVE  Registry'
<1>1. r \in Refs /\ r # None /\ status[r] = "registered"
    BY ConstantsAssumption DEF Registry, TypeOK
<1>2. UsersOf(r)' = UsersOf(r) \cup {u} /\ u \notin UsersOf(r)
    BY <1>1 DEF Registry, TypeOK, UsersOf, Idle
<1>3. \A s \in Refs : s # r => UsersOf(s)' = UsersOf(s)
    BY <1>1, ConstantsAssumption DEF Registry, TypeOK, UsersOf, Idle
<1>4. TypeOK'
    BY <1>1 DEF Registry, TypeOK
<1>5. RefsAreCounted'
  <2>1. SUFFICES ASSUME NEW s \in Refs PROVE fRefCount'[s] = Cardinality(UsersOf(s)')
      BY DEF RefsAreCounted
  <2>2. CASE s = r
      BY <2>2, <1>1, <1>2, UsersOfCount DEF Registry, TypeOK, RefsAreCounted
  <2>3. CASE s # r
      BY <2>3, <1>3 DEF Registry, TypeOK, RefsAreCounted
  <2> QED BY <2>2, <2>3
<1>6. UnregisteredIsUnused'
    BY <1>1, <1>3 DEF Registry, UnregisteredIsUnused
<1>7. NamesAreUnique'
    BY DEF Registry, NamesAreUnique
<1> QED
    BY <1>1, <1>4, <1>5, <1>6, <1>7 DEF Registry, TypeOK, Idle

\* An action that changes neither who uses a ref nor a count leaves the counts
\* right.
LEMMA SameUsers ==
    ASSUME RefsAreCounted, fRefCount' = fRefCount,
           \A r \in Refs : UsersOf(r)' = UsersOf(r)
    PROVE  RefsAreCounted'
BY DEF RefsAreCounted

\* A new ref that takes its place in the table, instead of the refs of removed.
LEMMA AddKeepsRegistry ==
    ASSUME Registry, NEW r \in Refs, NEW removed,
           status[r] = "new",
           \A s \in fTable \ removed : fString[s] # fString[r],
           fTable' = (fTable \ removed) \cup {r},
           status' = [status EXCEPT ![r] = "registered"],
           UNCHANGED <<fRefCount, pc, ref, refCount, limit>>
    PROVE  Registry'
<1>1. \A s \in Refs : UsersOf(s)' = UsersOf(s)
    BY DEF UsersOf
<1>2. TypeOK'
    BY DEF Registry, TypeOK
<1>3. RefsAreCounted'
    BY <1>1, SameUsers DEF Registry
<1>4. NamesAreUnique'
    BY DEF Registry, NamesAreUnique
<1>5. UnregisteredIsUnused'
    BY <1>1 DEF Registry, TypeOK, UnregisteredIsUnused
<1>6. \A s \in fTable' : status'[s] = "registered"
    BY DEF Registry, TypeOK
<1> QED
    BY <1>2, <1>3, <1>4, <1>5, <1>6 DEF Registry

\* A ref that is taken out of the table when the counted users allow it.
LEMMA RemoveKeepsRegistry ==
    ASSUME Registry, NEW r \in Refs, NEW count \in RefCounts \cup {0},
           fRefCount[r] <= count,
           \A s \in Refs : UsersOf(s)' = UsersOf(s),
           fTable' = fTable \ {r},
           status' = [status EXCEPT ![r] = "unregistered"],
           limit' = [limit EXCEPT ![r] = count],
           fRefCount' = fRefCount, TypeOK',
           \A u \in Users : pc'[u] # "outside" => ref'[u] # None
    PROVE  Registry'
<1>1. RefsAreCounted'
    BY SameUsers DEF Registry
<1>2. NamesAreUnique'
    BY DEF Registry, NamesAreUnique
<1>3. UnregisteredIsUnused'
    BY DEF Registry, TypeOK, UnregisteredIsUnused, RefsAreCounted
<1>4. \A s \in fTable' : status'[s] = "registered"
    BY DEF Registry, TypeOK
<1> QED
    BY <1>1, <1>2, <1>3, <1>4 DEF Registry

LEMMA InitRegistry == Init => Registry
<1>1. SUFFICES ASSUME Init PROVE Registry
    OBVIOUS
<1>2. TypeOK
    BY <1>1 DEF Init, TypeOK
<1>3. \A r \in Refs : UsersOf(r) = {}
    BY <1>1, ConstantsAssumption DEF Init, UsersOf
<1>4. RefsAreCounted
    BY <1>1, <1>3, FS_EmptySet DEF Init, RefsAreCounted
<1> QED
    BY <1>1, <1>2, <1>4 DEF Registry, Init, NamesAreUnique, UnregisteredIsUnused

LEMMA NextRegistry == Registry /\ [Next]_vars => Registry'
<1>1. SUFFICES ASSUME Registry, [Next]_vars PROVE Registry'
    OBVIOUS
<1>2. ASSUME NEW u \in Users, NEW r \in Refs, Register(u, r) PROVE Registry'
  <2>1. /\ \A s \in fTable \ {} : fString[s] # fString[r]
        /\ fTable' = (fTable \ {}) \cup {r}
      BY <1>2 DEF Register, CanRegister, Map
  <2> QED
      BY <1>1, <1>2, <2>1, AddKeepsRegistry DEF Register
<1>3. ASSUME NEW u \in Users, NEW r \in Refs, RegisterOrResolve(u, r) PROVE Registry'
  <2>1. CASE CanRegister(r)
    <3>1. /\ \A s \in fTable \ {} : fString[s] # fString[r]
          /\ fTable' = (fTable \ {}) \cup {r}
        BY <1>3, <2>1 DEF RegisterOrResolve, CanRegister, Map
    <3> QED
        BY <1>1, <1>3, <2>1, <3>1, AddKeepsRegistry DEF RegisterOrResolve
  <2>2. CASE ~ CanRegister(r)
    <3>1. PICK duplicate \in fTable :
              /\ fRefCount' = [fRefCount EXCEPT ![duplicate] = @ + 1]
              /\ ref' = [ref EXCEPT ![u] = duplicate]
        BY <1>3, <2>2 DEF RegisterOrResolve, Map
    <3> QED
        BY <1>1, <1>3, <2>2, <3>1, ResolveCounts DEF RegisterOrResolve
  <2> QED BY <2>1, <2>2
<1>4. ASSUME NEW u \in Users, NEW name \in Names, Resolve(u, name) PROVE Registry'
  <2>1. PICK r \in fTable :
            /\ fRefCount' = [fRefCount EXCEPT ![r] = @ + 1]
            /\ ref' = [ref EXCEPT ![u] = r]
      BY <1>4 DEF Resolve, Map
  <2> QED
      BY <1>1, <1>4, <2>1, ResolveCounts DEF Resolve
<1>5. ASSUME NEW u \in Users, Release(u) PROVE Registry'
  <2>12. PICK r \in Refs : r = ref[u]
      BY <1>1, <1>5 DEF Release, Registry, TypeOK
  <2>1. r = ref[u] /\ u \in UsersOf(r) /\ r # None
      BY <2>12, <1>5 DEF Release, UsersOf
  <2>2. /\ pc' \in [Users -> {"outside", "checking", "waiting"}]
        /\ \A w \in Users : pc'[w] = pc[w] \/ (pc[w] = "waiting" /\ pc'[w] = "checking")
      BY <1>1, <1>5 DEF Release, SignalWaiter, Waiters, Registry, TypeOK
  <2>3. /\ ref \in [Users -> Refs \cup {None}]
        /\ ref' = [ref EXCEPT ![u] = None]
        /\ pc[u] = "outside" /\ pc'[u] = "outside"
      BY <1>1, <1>5, <2>2 DEF Release, Registry, TypeOK
  <2>11. UsersOf(r)' = UsersOf(r) \ {u}
      BY <2>1, <2>2, <2>3, <2>12 DEF UsersOf
  <2>4. \A s \in Refs : s # r => UsersOf(s)' = UsersOf(s)
      BY <2>1, <2>2, <2>3, ConstantsAssumption DEF UsersOf
  <2>5. /\ Cardinality(UsersOf(r)') = Cardinality(UsersOf(r)) - 1
        /\ Cardinality(UsersOf(r)) \in Nat
        /\ IsFiniteSet(UsersOf(r) \ {u})
      BY <2>1, <2>11, UsersOfCount, FS_RemoveElement
  <2>6. TypeOK'
    <3>2. /\ fRefCount \in [Refs -> Nat] /\ fRefCount[r] = Cardinality(UsersOf(r))
          /\ fRefCount' = [fRefCount EXCEPT ![r] = fRefCount[r] - 1]
        BY <1>1, <1>5, <2>12 DEF Release, Registry, TypeOK, RefsAreCounted
    <3>3. Cardinality(UsersOf(r)) - 1 \in Nat
        BY <2>11, <2>5, FS_CardinalityType
    <3>1. fRefCount' \in [Refs -> Nat] /\ ref' \in [Users -> Refs \cup {None}]
        BY <2>3, <3>2, <3>3
    <3>4. UNCHANGED <<fTable, refCount, status, limit>>
        BY <1>5 DEF Release
    <3>5. /\ fTable' \subseteq Refs
          /\ refCount' \in [Users -> RefCounts \cup {0}]
          /\ status' \in [Refs -> {"new", "registered", "unregistered"}]
          /\ limit' \in [Refs -> RefCounts \cup {0}]
        BY <1>1, <3>4 DEF Registry, TypeOK
    <3>6. pc' \in [Users -> {"outside", "checking", "waiting"}]
        BY <2>2
    <3> QED
        BY ONLY <3>1, <3>5, <3>6 DEF TypeOK
  <2>7. RefsAreCounted'
    <3>1. SUFFICES ASSUME NEW s \in Refs PROVE fRefCount'[s] = Cardinality(UsersOf(s)')
        BY DEF RefsAreCounted
    <3>2. CASE s = r
      <4>1. fRefCount \in [Refs -> Nat] /\ fRefCount[r] = Cardinality(UsersOf(r))
          BY <1>1, <2>12 DEF Registry, TypeOK, RefsAreCounted
      <4>2. fRefCount' = [fRefCount EXCEPT ![r] = fRefCount[r] - 1]
          BY <1>5, <2>12 DEF Release
      <4> QED BY <3>2, <4>1, <4>2, <2>1, <2>5
    <3>3. CASE s # r
      <4>1. fRefCount \in [Refs -> Nat] /\ fRefCount[s] = Cardinality(UsersOf(s))
          BY <1>1 DEF Registry, TypeOK, RefsAreCounted
      <4>2. fRefCount' = [fRefCount EXCEPT ![r] = fRefCount[r] - 1]
          BY <1>5, <2>12 DEF Release
      <4> QED BY <3>3, <4>1, <4>2, <2>4
    <3> QED BY <3>2, <3>3
  <2>8. UnregisteredIsUnused'
    <3>1. SUFFICES ASSUME NEW s \in Refs, status[s] = "unregistered"
                   PROVE  s \notin fTable /\ Cardinality(UsersOf(s)') <= limit[s]
        BY <1>5 DEF Release, UnregisteredIsUnused
    <3>2. s \notin fTable /\ Cardinality(UsersOf(s)) <= limit[s] /\ limit[s] \in Int
      <4>1. limit[s] \in RefCounts \cup {0}
          BY <1>1 DEF Registry, TypeOK
      <4> QED BY <1>1, <3>1, <4>1, CountsAreNumbers DEF Registry, UnregisteredIsUnused
    <3>3. CASE s = r
        BY <3>2, <3>3, <2>5
    <3>4. CASE s # r
        BY <3>2, <3>4, <2>4
    <3> QED BY <3>3, <3>4
  <2>9. \A w \in Users : pc'[w] # "outside" => ref'[w] # None
      BY <1>1, <1>5, <2>2 DEF Release, Registry, TypeOK
  <2>10. NamesAreUnique' /\ \A s \in fTable' : status'[s] = "registered"
      BY <1>1, <1>5 DEF Release, Registry, NamesAreUnique
  <2> QED
      BY <2>6, <2>7, <2>8, <2>9, <2>10 DEF Registry
<1>6. ASSUME NEW u \in Users, NEW r \in Refs, Swap(u, r) PROVE Registry'
  <2>1. PICK oldRef \in fTable :
            fString[oldRef] = fString[r] /\ fTable' = (fTable \ {oldRef}) \cup {r}
      BY <1>6 DEF Swap, Map
  <2>2. \A s \in fTable \ {oldRef} : fString[s] # fString[r]
      BY <1>1, <2>1 DEF Registry, NamesAreUnique
  <2> QED
      BY <1>1, <1>6, <2>1, <2>2, AddKeepsRegistry DEF Swap
<1>7. ASSUME NEW u \in Users, NEW r \in Refs, NEW count \in RefCounts, UnRegister(u, r, count)
      PROVE  Registry'
  <2>1. \A s \in Refs : UsersOf(s)' = UsersOf(s)
      BY <1>1, <1>7, ConstantsAssumption DEF UnRegister, Idle, UsersOf, Registry, TypeOK
  <2>2. TypeOK'
      BY <1>1, <1>7 DEF UnRegister, Registry, TypeOK
  <2>3. RefsAreCounted'
      BY <1>1, <1>7, <2>1, SameUsers DEF UnRegister, Registry
  <2>4. UnregisteredIsUnused' /\ NamesAreUnique'
      BY <1>1, <1>7, <2>1 DEF UnRegister, Registry, UnregisteredIsUnused, NamesAreUnique
  <2> QED
      BY <1>1, <1>7, <2>2, <2>3, <2>4, ConstantsAssumption DEF UnRegister, Registry, TypeOK
<1>8. ASSUME NEW u \in Users, WaitForUsers(u) \/ WakeByItself(u) PROVE Registry'
  <2>1. UNCHANGED <<fTable, fRefCount, ref, refCount, status, limit>>
      BY <1>8 DEF WaitForUsers, WakeByItself
  <2>2. /\ pc[u] # "outside"
        /\ pc' = [pc EXCEPT ![u] = "waiting"] \/ pc' = [pc EXCEPT ![u] = "checking"]
      BY <1>8 DEF WaitForUsers, WakeByItself
  <2>3. \A s \in Refs : UsersOf(s)' = UsersOf(s)
      BY <1>1, <2>1, <2>2 DEF UsersOf, Registry, TypeOK
  <2>4. TypeOK'
      BY <1>1, <2>1, <2>2 DEF Registry, TypeOK
  <2>5. RefsAreCounted'
      BY <1>1, <2>1, <2>3, SameUsers DEF Registry
  <2>6. UnregisteredIsUnused' /\ NamesAreUnique'
      BY <1>1, <2>1, <2>3 DEF Registry, UnregisteredIsUnused, NamesAreUnique
  <2> QED
      BY <1>1, <2>1, <2>2, <2>4, <2>5, <2>6 DEF Registry, TypeOK
<1>9. ASSUME NEW u \in Users, Remove(u) PROVE Registry'
  <2>1. ref[u] \in Refs /\ refCount[u] \in RefCounts \cup {0} /\ fRefCount[ref[u]] <= refCount[u]
    <3>1. ref[u] \in Refs /\ refCount[u] \in RefCounts \cup {0} /\ fRefCount[ref[u]] \in Int
        BY <1>1, <1>9 DEF Remove, Registry, TypeOK
    <3>2. refCount[u] \in Int /\ ~ fRefCount[ref[u]] > refCount[u]
        BY <1>9, <3>1, CountsAreNumbers DEF Remove, InUse
    <3> QED BY <3>1, <3>2
  <2>2. \A s \in Refs : UsersOf(s)' = UsersOf(s)
      BY <1>1, <1>9, ConstantsAssumption DEF Remove, UsersOf, Registry, TypeOK
  <2>3. TypeOK'
      BY <1>1, <1>9, <2>1 DEF Remove, Registry, TypeOK
  <2>4. \A w \in Users : pc'[w] # "outside" => ref'[w] # None
      BY <1>1, <1>9 DEF Remove, Registry, TypeOK
  <2> QED
      BY <1>1, <1>9, <2>1, <2>2, <2>3, <2>4, RemoveKeepsRegistry DEF Remove
<1>10. ASSUME NEW u \in Users, NEW r \in Refs, NEW count \in RefCounts, TryUnRegister(u, r, count)
       PROVE  Registry'
  <2>1. fRefCount[r] <= count
    <3>1. fRefCount[r] \in Int /\ count \in Int
        BY <1>1, CountsAreNumbers DEF Registry, TypeOK
    <3> QED BY <1>10, <3>1 DEF TryUnRegister, InUse
  <2>2. \A s \in Refs : UsersOf(s)' = UsersOf(s)
      BY <1>10 DEF TryUnRegister, UsersOf
  <2>3. TypeOK'
      BY <1>1, <1>10 DEF TryUnRegister, Registry, TypeOK
  <2>4. \A w \in Users : pc'[w] # "outside" => ref'[w] # None
      BY <1>1, <1>10 DEF TryUnRegister, Registry
  <2> QED
      BY <1>1, <1>10, <2>1, <2>2, <2>3, <2>4, RemoveKeepsRegistry DEF TryUnRegister
<1>11. CASE UNCHANGED vars
  <2>1. \A s \in Refs : UsersOf(s)' = UsersOf(s)
      BY <1>11 DEF vars, UsersOf
  <2> QED
      BY <1>1, <1>11, <2>1, SameUsers
      DEF vars, Registry, TypeOK, NamesAreUnique, UnregisteredIsUnused
<1> QED
    BY <1>1, <1>2, <1>3, <1>4, <1>5, <1>6, <1>7, <1>8, <1>9, <1>10, <1>11 DEF Next

LEMMA SpecRegistry == Spec => []Registry
BY InitRegistry, NextRegistry, PTL DEF Spec

\* The variables keep their types.
THEOREM TypeCorrect == Spec => []TypeOK
<1>1. Registry => TypeOK
    BY DEF Registry
<1> QED BY <1>1, SpecRegistry, PTL

\* fRefCount is at every moment the number of users that have not released.
THEOREM CountsAreRight == Spec => []RefsAreCounted
<1>1. Registry => RefsAreCounted
    BY DEF Registry
<1> QED BY <1>1, SpecRegistry, PTL

\* However Register, RegisterOrResolve, Swap and UnRegister follow each other, a
\* name finds one ref at most.
THEOREM OneRefPerName == Spec => []NamesAreUnique
<1>1. Registry => NamesAreUnique
    BY DEF Registry
<1> QED BY <1>1, SpecRegistry, PTL

\* After UnRegister returned, nobody uses the ref but those it allowed, and
\* nobody can find it: its object may be deleted.
THEOREM SafeToDelete == Spec => []UnregisteredIsUnused
<1>1. Registry => UnregisteredIsUnused
    BY DEF Registry
<1> QED BY <1>1, SpecRegistry, PTL
=============================================================================
