------------------------- MODULE EventThread_proofs -------------------------
(***************************************************************************)
(* Theorems about EventThread for any contexts and descriptors.  Basic, an *)
(* inductive invariant, says that a descriptor has one owner.  Leads is    *)
(* inductive as long as the IDs have not come to their end and started     *)
(* again at 1: a cookie leads to one context, so the event thread tells    *)
(* the owner, and no context goes deaf.                                    *)
(***************************************************************************)
EXTENDS EventThread, FiniteSetTheorems, SequenceTheorems, TLAPS

-----------------------------------------------------------------------------
(* The least and the greatest of some descriptors. *)

\* Of a family of finite sets one holds no other of them: the sets of the numbers
\* up to a member of S, and from it, give the least and the greatest.
LEMMA SomeSetIsMinimal ==
    ASSUME NEW U, NEW F \in SUBSET FiniteSubsetsOf(U), F # {}
    PROVE  \E A \in F : \A B \in F : B \subseteq A => B = A
<1>1. \E A \in F : \A B \in F : ~ (<<B, A>> \in StrictSubsetOrdering(U))
    BY FS_StrictSubsetOrderingWellFounded, WFMin
<1>2. \A A \in F : A \in SUBSET U
    BY DEF FiniteSubsetsOf
<1> QED BY <1>1, <1>2 DEF StrictSubsetOrdering

LEMMA MinIsLeast ==
    ASSUME NEW S \in SUBSET Nat, S # {}
    PROVE  Min(S) \in S /\ \A y \in S : Min(S) <= y
<1> DEFINE F == {0 .. x : x \in S}
<1>1. F \in SUBSET FiniteSubsetsOf(Nat) /\ F # {}
    <2>1. \A x \in S : IsFiniteSet(0 .. x) /\ 0 .. x \in SUBSET Nat
        BY FS_Interval
    <2> QED BY <2>1 DEF FiniteSubsetsOf
<1>2. \E A \in F : \A B \in F : B \subseteq A => B = A
    <2> HIDE DEF F
    <2> QED BY <1>1, SomeSetIsMinimal
<1>m. PICK x \in S : \A y \in S : 0 .. y \subseteq 0 .. x => 0 .. y = 0 .. x
    <2>1. PICK A \in F : \A B \in F : B \subseteq A => B = A
        BY <1>2
    <2>2. PICK x \in S : A = 0 .. x
        OBVIOUS
    <2>3. \A y \in S : 0 .. y \in F
        OBVIOUS
    <2> HIDE DEF F
    <2> QED BY <2>1, <2>2, <2>3
<1>3. \A y \in S : x <= y
    <2> SUFFICES ASSUME NEW y \in S, y < x PROVE FALSE
        OBVIOUS
    <2>1. 0 .. y = 0 .. x
        BY <1>m
    <2>2. x \in 0 .. x /\ x \notin 0 .. y
        OBVIOUS
    <2> QED BY <2>1, <2>2
<1> QED BY <1>3 DEF Min

LEMMA MaxIsGreatest ==
    ASSUME NEW n \in Nat, NEW S \in SUBSET (0 .. n), S # {}
    PROVE  Max(S) \in S /\ \A y \in S : y <= Max(S)
<1> DEFINE F == {x .. n : x \in S}
<1>1. F \in SUBSET FiniteSubsetsOf(Nat) /\ F # {}
    <2>1. \A x \in S : IsFiniteSet(x .. n) /\ x .. n \in SUBSET Nat
        BY FS_Interval
    <2> QED BY <2>1 DEF FiniteSubsetsOf
<1>2. \E A \in F : \A B \in F : B \subseteq A => B = A
    <2> HIDE DEF F
    <2> QED BY <1>1, SomeSetIsMinimal
<1>m. PICK x \in S : \A y \in S : y .. n \subseteq x .. n => y .. n = x .. n
    <2>1. PICK A \in F : \A B \in F : B \subseteq A => B = A
        BY <1>2
    <2>2. PICK x \in S : A = x .. n
        OBVIOUS
    <2>3. \A y \in S : y .. n \in F
        OBVIOUS
    <2> HIDE DEF F
    <2> QED BY <2>1, <2>2, <2>3
<1>3. \A y \in S : y <= x
    <2> SUFFICES ASSUME NEW y \in S, x < y PROVE FALSE
        OBVIOUS
    <2>1. y .. n = x .. n
        BY <1>m
    <2>2. x \in x .. n /\ x \notin y .. n
        OBVIOUS
    <2> QED BY <2>1, <2>2
<1> QED BY <1>3 DEF Max
-----------------------------------------------------------------------------
(* Types and owners. *)

NoID  == {"unborn", "open", "new id", "next id"}
Named == {"modwatch", "write pipe", "watching", "snarfing"}
HasFD == (NoID \ {"unborn"}) \cup {"register", "removing"} \cup Named

\* A context has a descriptor, and an open one, from the socket to Cleanup.
Owners ==
    \A c \in Contexts :
        /\ fFileDesc[c] # None <=> step[c] \in HasFD
        /\ fFileDesc[c] # None => fFileDesc[c] \in openFDs

\* While select is prepared and waits nothing is counted.
NothingCounted == thread \in {"select", "in select"} => sNumFDsBackFromSelect = 0

\* Two contexts do not take the socket of one, and that one waits for them.
Snarfing ==
    \A c \in Contexts :
        /\ snarfed[c] # None <=> step[c] = "snarfing"
        /\ snarfed[c] # None => step[snarfed[c]] = "snarfed"
        /\ \A d \in Contexts : snarfed[c] # None /\ snarfed[d] = snarfed[c] => c = d

Basic == TypeOK /\ Owners /\ OneOwnerPerFD /\ Snarfing /\ NothingCounted

\* The type invariant by the part of the state.
ContextTypes ==
    /\ step \in [Contexts -> Steps]
    /\ fFileDesc \in [Contexts -> FDs \cup {None}]
    /\ fUniqueID \in [Contexts -> Nat]
    /\ fTheMask \in [Contexts -> SUBSET Kinds]
    /\ snarfed \in [Contexts -> Contexts \cup {None}]
    /\ sUniqueID \in Nat
    /\ fRefTable \subseteq Contexts
    /\ armed \in [Contexts -> SUBSET Kinds]

MaskTypes ==
    /\ watched \subseteq FDs \X Kinds
    /\ returned \subseteq FDs \X Kinds
    /\ sCookieArray \in [FDs -> Nat]
    /\ sFDsToCloseArray \in Seq(FDs)
    /\ sMaxFDPos \in FDs \cup {0}

ThreadTypes ==
    /\ asked \subseteq FDs \X Kinds
    /\ thread \in {"scan", "select", "in select", "read pipe", "close", "event", "process"}
    /\ sNumFDsBackFromSelect \in 0 .. 2 * MaxFD
    /\ sNumFDsProcessed \in 0 .. sNumFDsBackFromSelect
    /\ sCurrentFDPos \in 0 .. MaxFD + 1
    /\ sInReadSet \in BOOLEAN
    /\ req \in [fd : FDs \cup {0}, cookie : Nat]
    /\ resolved \in Contexts \cup {None}

KernelTypes ==
    /\ pipe \in BOOLEAN
    /\ openFDs \subseteq FDs
    /\ ready \subseteq openFDs \X Kinds

LEMMA TypesByPart == TypeOK <=> ContextTypes /\ MaskTypes /\ ThreadTypes /\ KernelTypes
    BY DEF TypeOK, ContextTypes, MaskTypes, ThreadTypes, KernelTypes

LEMMA BasicInit == Init => Basic
<1> SUFFICES ASSUME Init PROVE Basic
    OBVIOUS
<1>1. TypeOK
    <2>1. ContextTypes
        BY ConstantsAssumption DEF Init, ContextTypes, Steps
    <2>2. MaskTypes
        <3>1. <<>> \in Seq(FDs)
            OBVIOUS
        <3> QED BY <3>1 DEF Init, MaskTypes
    <2>3. ThreadTypes
        BY ConstantsAssumption DEF Init, ThreadTypes, NoEvent
    <2>4. KernelTypes
        BY DEF Init, KernelTypes
    <2> QED BY <2>1, <2>2, <2>3, <2>4, TypesByPart
<1>2. Owners
    BY DEF Init, Owners, NoID, Named, HasFD
<1>3. OneOwnerPerFD
    BY ConstantsAssumption DEF Init, OneOwnerPerFD, FDsToClose
<1>4. NothingCounted
    BY DEF Init, NothingCounted
<1>5. Snarfing
    BY DEF Init, Snarfing
<1> QED BY <1>1, <1>2, <1>3, <1>4, <1>5 DEF Basic

LEMMA ReadyAreFew ==
    ASSUME TypeOK
    PROVE  Cardinality(asked \cap ready) \in 0 .. 2 * MaxFD
<1>1. IsFiniteSet(FDs) /\ Cardinality(FDs) = MaxFD
    BY FS_Interval, ConstantsAssumption DEF FDs
<1>2. IsFiniteSet(Kinds) /\ Cardinality(Kinds) = 2
    <2>1. IsFiniteSet({"read"}) /\ Cardinality({"read"}) = 1
        BY FS_Singleton
    <2>2. Kinds = {"read"} \cup {"write"} /\ "write" \notin {"read"}
        BY DEF Kinds
    <2> QED BY <2>1, <2>2, FS_AddElement
<1>3. IsFiniteSet(FDs \X Kinds) /\ Cardinality(FDs \X Kinds) = MaxFD * 2
    BY <1>1, <1>2, FS_Product
<1>4. asked \cap ready \subseteq FDs \X Kinds
    BY DEF TypeOK
<1>5. /\ IsFiniteSet(asked \cap ready)
      /\ Cardinality(asked \cap ready) <= Cardinality(FDs \X Kinds)
    BY <1>3, <1>4, FS_Subset
<1> QED BY <1>3, <1>5, FS_CardinalityType, ConstantsAssumption

LEMMA HighestIsADescriptor ==
    ASSUME NEW S \in SUBSET (FDs \X Kinds)
    PROVE  /\ Highest(S) \in FDs \cup {0}
           /\ \A w \in S : w[1] <= Highest(S)
<1> DEFINE M == {0} \cup {w[1] : w \in S}
<1>1. M \in SUBSET (0 .. MaxFD) /\ M # {}
    BY ConstantsAssumption DEF FDs
<1>2. Max(M) \in M /\ \A y \in M : y <= Max(M)
    <2> HIDE DEF M
    <2> QED BY <1>1, MaxIsGreatest, ConstantsAssumption
<1>3. Max(M) \in FDs \cup {0}
    BY <1>1, <1>2 DEF FDs
<1>4. \A w \in S : w[1] \in M
    OBVIOUS
<1> QED BY <1>2, <1>3, <1>4 DEF Highest

LEMMA HighestOfTwo ==
    ASSUME MaskTypes, NEW fd \in FDs
    PROVE  HighestFD(fd) \in FDs /\ fd <= HighestFD(fd) /\ sMaxFDPos <= HighestFD(fd)
<1>1. fd \in 1 .. MaxFD /\ sMaxFDPos \in 0 .. MaxFD
    BY ConstantsAssumption DEF MaskTypes, FDs
<1>2. /\ Max({fd, sMaxFDPos}) \in {fd, sMaxFDPos}
      /\ \A y \in {fd, sMaxFDPos} : y <= Max({fd, sMaxFDPos})
    <2>1. {fd, sMaxFDPos} \in SUBSET (0 .. MaxFD)
        BY <1>1
    <2> QED BY <2>1, MaxIsGreatest, ConstantsAssumption
<1> QED BY <1>2, <1>1 DEF HighestFD, FDs

LEMMA FoundIsReturned ==
    ASSUME NEW kind \in Kinds, Found(kind) # {}
    PROVE  Min(Found(kind)) \in FDs /\ <<Min(Found(kind)), kind>> \in returned
<1>1. Found(kind) \in SUBSET Nat
    BY DEF Found, FDs
<1> QED BY <1>1, MinIsLeast DEF Found

\* Every step keeps the types.
LEMMA TypeStep ==
    ASSUME Basic, [Next]_vars
    PROVE  TypeOK'
<1>t. ContextTypes /\ MaskTypes /\ ThreadTypes /\ KernelTypes
    BY TypesByPart DEF Basic
<1>c. UNCHANGED <<contextVars, armed>> => ContextTypes'
    BY <1>t DEF ContextTypes, contextVars
<1>m. UNCHANGED maskVars => MaskTypes'
    BY <1>t DEF MaskTypes, maskVars
<1>h. UNCHANGED threadVars => ThreadTypes'
    BY <1>t DEF ThreadTypes, threadVars, scanVars
<1>k. UNCHANGED kernelVars => KernelTypes'
    BY <1>t DEF KernelTypes, kernelVars
<1>s. ASSUME NEW c \in Contexts, NEW from, NEW to \in Steps, Step(c, from, to)
      PROVE  step' \in [Contexts -> Steps]
    BY <1>s, <1>t DEF Step, ContextTypes
<1>f. ASSUME NEW c \in Contexts, step[c] \in HasFD PROVE fFileDesc[c] \in FDs
    BY <1>f, <1>t DEF Basic, Owners, ContextTypes
<1>n. /\ sNumFDsBackFromSelect \in Nat /\ sNumFDsProcessed \in Nat
      /\ sNumFDsProcessed <= sNumFDsBackFromSelect
      /\ sCurrentFDPos \in 0 .. MaxFD + 1
    <2>1. /\ sNumFDsBackFromSelect \in 0 .. 2 * MaxFD
          /\ sNumFDsProcessed \in 0 .. sNumFDsBackFromSelect
          /\ sCurrentFDPos \in 0 .. MaxFD + 1
        BY <1>t DEF ThreadTypes
    <2>2. MaxFD \in Nat
        BY ConstantsAssumption
    <2> QED BY <2>1, <2>2
<1>p. ContextTypes' /\ MaskTypes' /\ ThreadTypes' /\ KernelTypes' => TypeOK'
    BY DEF TypeOK, ContextTypes, MaskTypes, ThreadTypes, KernelTypes
<1>1. ASSUME NEW c \in Contexts, NEW fd \in FDs, OpenSocket(c, fd) PROVE TypeOK'
    <2>1. step' \in [Contexts -> Steps]
        BY <1>1, <1>s DEF OpenSocket, Steps
    <2>2. ContextTypes'
        BY <1>1, <1>t, <2>1 DEF OpenSocket, ContextTypes
    <2>3. KernelTypes'
        BY <1>1, <1>t DEF OpenSocket, KernelTypes
    <2> QED BY <1>1, <1>m, <1>h, <1>p, <2>2, <2>3 DEF OpenSocket
<1>2. ASSUME NEW c \in Contexts, NEW fd \in FDs, NEW mask \in Masks[fd], RequestEvent(c, mask) PROVE TypeOK'
    <2>1. step' \in [Contexts -> Steps]
        BY <1>2, <1>s DEF RequestEvent, Steps
    <2>2. mask \in SUBSET Kinds
        BY ConstantsAssumption
    <2>3. ContextTypes'
        BY <1>2, <1>t, <2>1, <2>2 DEF RequestEvent, ContextTypes
    <2> QED BY <1>2, <1>m, <1>h, <1>k, <1>p, <2>3 DEF RequestEvent
<1>3. ASSUME NEW c \in Contexts, WrapUniqueID(c) \/ NextUniqueID(c) \/ Register(c)
      PROVE  TypeOK'
    <2>1. step' \in [Contexts -> Steps]
        BY <1>3, <1>s DEF WrapUniqueID, NextUniqueID, Register, Steps
    <2>2. ContextTypes'
        <3>1. CASE WrapUniqueID(c)
            <4>1. sUniqueID' \in Nat /\ fUniqueID' \in [Contexts -> Nat]
                <5>1. \/ sUniqueID' = 1 /\ fUniqueID' = [fUniqueID EXCEPT ![c] = 1]
                      \/ UNCHANGED <<sUniqueID, fUniqueID>>
                    BY <3>1 DEF WrapUniqueID
                <5>2. sUniqueID \in Nat /\ fUniqueID \in [Contexts -> Nat]
                    BY <1>t DEF ContextTypes
                <5> QED BY <5>1, <5>2
            <4>2. UNCHANGED <<fFileDesc, fTheMask, snarfed, fRefTable, armed>>
                BY <3>1 DEF WrapUniqueID
            <4> QED BY <1>t, <2>1, <4>1, <4>2 DEF ContextTypes
        <3>2. CASE NextUniqueID(c)
            <4>1. sUniqueID' \in Nat /\ fUniqueID' \in [Contexts -> Nat]
                <5>1. /\ sUniqueID' = sUniqueID + 1
                      /\ fUniqueID' = [fUniqueID EXCEPT ![c] = sUniqueID']
                    BY <3>2 DEF NextUniqueID
                <5>2. sUniqueID \in Nat /\ fUniqueID \in [Contexts -> Nat]
                    BY <1>t DEF ContextTypes
                <5> QED BY <5>1, <5>2
            <4>2. UNCHANGED <<fFileDesc, fTheMask, snarfed, fRefTable, armed>>
                BY <3>2 DEF NextUniqueID
            <4> QED BY <1>t, <2>1, <4>1, <4>2 DEF ContextTypes
        <3>3. CASE Register(c)
            BY <3>3, <1>t, <2>1 DEF Register, ContextTypes
        <3> QED BY <1>3, <3>1, <3>2, <3>3
    <2> QED BY <1>3, <1>m, <1>h, <1>k, <1>p, <2>2 DEF WrapUniqueID, NextUniqueID, Register
<1>4. ASSUME NEW c \in Contexts, ModWatch(c) PROVE TypeOK'
    <2>1. step' \in [Contexts -> Steps]
        BY <1>4, <1>s DEF ModWatch, Steps
    <2>2. ContextTypes'
        BY <1>4, <1>t, <2>1 DEF ModWatch, ContextTypes
    <2> DEFINE fd == fFileDesc[c]
    <2>3. fd \in FDs /\ fTheMask[c] \in SUBSET Kinds /\ fUniqueID[c] \in Nat
        BY <1>4, <1>f, <1>t DEF ModWatch, Step, HasFD, Named, ContextTypes
    <2>4. sMaxFDPos' \in FDs
        BY <1>4, <1>t, <2>3, HighestOfTwo DEF ModWatch
    <2>5. watched' \subseteq FDs \X Kinds
        <3>1. watched' = (watched \ Of(fd)) \cup ({fd} \X fTheMask[c])
            BY <1>4 DEF ModWatch
        <3> QED BY <1>t, <2>3, <3>1 DEF MaskTypes
    <2>6. /\ sCookieArray' \in [FDs -> Nat]
          /\ UNCHANGED <<returned, sFDsToCloseArray, threadVars, kernelVars>>
        BY <1>4, <1>t, <2>3 DEF ModWatch, MaskTypes
    <2>7. MaskTypes'
        BY <1>t, <2>4, <2>5, <2>6 DEF MaskTypes
    <2> QED BY <1>h, <1>k, <1>p, <2>2, <2>6, <2>7
<1>5. ASSUME NEW c \in Contexts, WritePipe(c) PROVE TypeOK'
    <2>1. step' \in [Contexts -> Steps]
        BY <1>5, <1>s DEF WritePipe, Steps
    <2>2. ContextTypes'
        BY <1>5, <1>t, <2>1 DEF WritePipe, ContextTypes
    <2>3. KernelTypes'
        BY <1>5, <1>t DEF WritePipe, WakeSelect, KernelTypes
    <2> QED BY <1>5, <1>m, <1>h, <1>p, <2>2, <2>3 DEF WritePipe
<1>6. ASSUME NEW c \in Contexts, CleanupUnwatched(c) PROVE TypeOK'
    <2>1. step' \in [Contexts -> Steps]
        BY <1>6, <1>s DEF CleanupUnwatched, Steps
    <2>2. ContextTypes'
        BY <1>6, <1>t, <2>1 DEF CleanupUnwatched, ContextTypes
    <2>3. KernelTypes'
        BY <1>6, <1>t DEF CleanupUnwatched, KernelTypes, Of
    <2> QED BY <1>6, <1>m, <1>h, <1>p, <2>2, <2>3 DEF CleanupUnwatched
<1>7. ASSUME NEW c \in Contexts, CleanupUnRegister(c) PROVE TypeOK'
    <2>1. step' \in [Contexts -> Steps]
        BY <1>7, <1>s DEF CleanupUnRegister, Steps
    <2>2. ContextTypes'
        BY <1>7, <1>t, <2>1 DEF CleanupUnRegister, ContextTypes
    <2> QED BY <1>7, <1>m, <1>h, <1>k, <1>p, <2>2 DEF CleanupUnRegister
<1>8. ASSUME NEW c \in Contexts, RemoveEvent(c) PROVE TypeOK'
    <2>1. step' \in [Contexts -> Steps]
        BY <1>8, <1>s DEF RemoveEvent, Steps
    <2>2. ContextTypes'
        BY <1>8, <1>t, <2>1 DEF RemoveEvent, ContextTypes
    <2> DEFINE fd == fFileDesc[c]
    <2>3. fd \in FDs
        BY <1>8, <1>f DEF RemoveEvent, Step, HasFD
    <2>4. /\ watched' \subseteq FDs \X Kinds /\ returned' \subseteq FDs \X Kinds
          /\ sCookieArray' \in [FDs -> Nat]
          /\ sMaxFDPos' \in {Highest(watched'), sMaxFDPos}
          /\ sFDsToCloseArray' = Append(sFDsToCloseArray, fd)
          /\ UNCHANGED <<threadVars, kernelVars>>
        BY <1>8, <1>t, <2>3 DEF RemoveEvent, MaskTypes
    <2>5. Highest(watched') \in FDs \cup {0}
        BY <2>4, HighestIsADescriptor
    <2>6. sFDsToCloseArray' \in Seq(FDs)
        BY <1>t, <2>3, <2>4 DEF MaskTypes
    <2>7. MaskTypes'
        BY <1>t, <2>4, <2>5, <2>6 DEF MaskTypes
    <2> QED BY <1>h, <1>k, <1>p, <2>2, <2>4, <2>7
<1>9. ASSUME NEW c \in Contexts, NEW from \in Contexts, SnarfEventContext(c, from)
      PROVE  TypeOK'
    <2>1. ContextTypes'
        BY <1>9, <1>t DEF SnarfEventContext, ContextTypes, Steps
    <2> QED BY <1>9, <1>m, <1>h, <1>k, <1>p, <2>1 DEF SnarfEventContext
<1>10. ASSUME NEW c \in Contexts, SnarfUnRegister(c) PROVE TypeOK'
    <2>1. ContextTypes'
        BY <1>10, <1>t DEF SnarfUnRegister, ContextTypes, Steps
    <2> QED BY <1>10, <1>m, <1>h, <1>k, <1>p, <2>1 DEF SnarfUnRegister
<1>11. ASSUME NEW kind \in Kinds, ConstructEventReq(kind), Scanning PROVE TypeOK'
    <2> DEFINE fd == Min(Found(kind))
    <2>1. fd \in FDs
        BY <1>11, FoundIsReturned DEF ConstructEventReq
    <2>2. MaskTypes'
        BY <1>11, <1>t DEF ConstructEventReq, Disarm, MaskTypes
    <2>3. ThreadTypes'
        <3>1. /\ req' = [fd |-> fd, cookie |-> sCookieArray[fd]]
              /\ sCookieArray[fd] \in Nat
            BY <1>11, <1>t, <2>1 DEF ConstructEventReq, MaskTypes
        <3>2. /\ sCurrentFDPos' = fd + 1
              /\ sNumFDsProcessed' = sNumFDsProcessed + 1
              /\ sNumFDsProcessed < sNumFDsBackFromSelect
              /\ thread' = "event"
              /\ UNCHANGED <<sInReadSet, sNumFDsBackFromSelect, asked, resolved>>
            BY <1>11 DEF ConstructEventReq, Scanning, Goto
        <3>3. sCurrentFDPos' \in 0 .. MaxFD + 1
            BY <2>1, <3>2, ConstantsAssumption DEF FDs
        <3>4. sNumFDsProcessed' \in 0 .. sNumFDsBackFromSelect'
            BY <1>n, <3>2
        <3>5. req' \in [fd : FDs \cup {0}, cookie : Nat]
            BY <2>1, <3>1
        <3> QED BY <1>t, <3>2, <3>3, <3>4, <3>5 DEF ThreadTypes
    <2> QED BY <1>11, <1>c, <1>k, <1>p, <2>2, <2>3 DEF ConstructEventReq
<1>12. ASSUME ScanReadSet \/ ScanWriteSet PROVE TypeOK'
    <2>1. CASE Scanning /\ \E kind \in Kinds : ConstructEventReq(kind)
        BY <2>1, <1>11
    <2>2. CASE /\ UNCHANGED <<contextVars, maskVars, kernelVars, armed>>
               /\ UNCHANGED <<thread, asked, sNumFDsBackFromSelect, req, resolved>>
               /\ sInReadSet' \in BOOLEAN /\ sCurrentFDPos' \in {0, sCurrentFDPos}
               /\ sNumFDsProcessed' \in {sNumFDsProcessed, sNumFDsBackFromSelect}
        <3>1. sNumFDsProcessed' \in 0 .. sNumFDsBackFromSelect'
            BY <2>2, <1>n
        <3>2. sCurrentFDPos' \in 0 .. MaxFD + 1
            BY <2>2, <1>n, ConstantsAssumption
        <3>3. ThreadTypes'
            BY <2>2, <1>t, <3>1, <3>2 DEF ThreadTypes
        <3> QED BY <2>2, <3>3, <1>c, <1>m, <1>k, <1>p
    <2>4. ScanReadSet => \/ Scanning /\ ConstructEventReq("read")
                         \/ /\ UNCHANGED <<contextVars, maskVars, kernelVars, armed>>
                            /\ UNCHANGED <<thread, asked, sNumFDsBackFromSelect, req, resolved>>
                            /\ sInReadSet' \in BOOLEAN /\ sCurrentFDPos' \in {0, sCurrentFDPos}
                            /\ sNumFDsProcessed' \in {sNumFDsProcessed, sNumFDsBackFromSelect}
        BY DEF ScanReadSet
    <2>5. ScanWriteSet => \/ Scanning /\ ConstructEventReq("write")
                          \/ /\ UNCHANGED <<contextVars, maskVars, kernelVars, armed>>
                             /\ UNCHANGED <<thread, asked, sNumFDsBackFromSelect, req, resolved>>
                             /\ sInReadSet' \in BOOLEAN /\ sCurrentFDPos' \in {0, sCurrentFDPos}
                             /\ sNumFDsProcessed' \in {sNumFDsProcessed, sNumFDsBackFromSelect}
        BY <1>t DEF ScanWriteSet, ThreadTypes
    <2> QED BY <1>12, <2>1, <2>2, <2>4, <2>5 DEF Kinds
<1>13. ASSUME CopySets \/ SelectBegin \/ SelectReturns \/ SelectEndsEmpty PROVE TypeOK'
    <2>1. MaskTypes'
        BY <1>13, <1>t DEF CopySets, SelectBegin, SelectReturns, SelectEndsEmpty,
                           MaskTypes, ThreadTypes, maskVars
    <2>2. Cardinality(asked \cap ready) \in 0 .. 2 * MaxFD
        BY ReadyAreFew DEF Basic
    <2>3. ThreadTypes'
        <3>1. CASE CopySets
            BY <3>1, <1>t, ConstantsAssumption DEF CopySets, ThreadTypes
        <3>2. CASE SelectBegin \/ SelectEndsEmpty
            BY <3>2, <1>t DEF SelectBegin, SelectEndsEmpty, Goto, ThreadTypes, MaskTypes, scanVars
        <3>3. CASE SelectReturns
            <4>1. sNumFDsProcessed = 0
                <5>1. sNumFDsBackFromSelect = 0
                    BY <3>3 DEF Basic, NothingCounted, SelectReturns
                <5> QED BY <5>1, <1>n
            <4>2. /\ thread' \in {"read pipe", "scan"}
                  /\ sNumFDsBackFromSelect' = Cardinality(asked \cap ready)
                  /\ asked' = {}
                  /\ UNCHANGED <<sNumFDsProcessed, sCurrentFDPos, sInReadSet, req, resolved>>
                BY <3>3 DEF SelectReturns
            <4>3. sNumFDsProcessed' \in 0 .. sNumFDsBackFromSelect'
                <5>1. MaxFD \in Nat
                    BY ConstantsAssumption
                <5>2. sNumFDsProcessed' = 0 /\ sNumFDsBackFromSelect' \in 0 .. 2 * MaxFD
                    BY <2>2, <4>1, <4>2
                <5> QED BY <5>1, <5>2
            <4> QED BY <4>2, <4>3, <1>t, <2>2 DEF ThreadTypes
        <3> QED BY <1>13, <3>1, <3>2, <3>3
    <2>4. UNCHANGED <<contextVars, kernelVars, armed>>
        BY <1>13 DEF CopySets, SelectBegin, SelectReturns, SelectEndsEmpty
    <2> QED BY <1>c, <1>k, <1>p, <2>1, <2>3, <2>4
<1>14. ASSUME ReadPipe \/ CloseFDs PROVE TypeOK'
    <2>1. MaskTypes'
        <3>1. <<>> \in Seq(FDs)
            OBVIOUS
        <3> QED BY <1>14, <1>t, <3>1 DEF ReadPipe, CloseFDs, MaskTypes, maskVars
    <2>2. KernelTypes'
        BY <1>14, <1>t DEF ReadPipe, CloseFDs, KernelTypes
    <2>3. ThreadTypes'
        BY <1>14, <1>t DEF ReadPipe, CloseFDs, ThreadTypes, Goto, scanVars
    <2> QED BY <1>14, <1>c, <1>p, <2>1, <2>2, <2>3 DEF ReadPipe, CloseFDs
<1>15. ASSUME ResolveEvent \/ ProcessEvent PROVE TypeOK'
    <2>1. ThreadTypes'
        BY <1>15, <1>t DEF ResolveEvent, ProcessEvent, ThreadTypes, ContextTypes, Goto, scanVars
    <2>2. ContextTypes'
        BY <1>15, <1>t DEF ResolveEvent, ProcessEvent, ContextTypes, contextVars
    <2> QED BY <1>15, <1>m, <1>k, <1>p, <2>1, <2>2 DEF ResolveEvent, ProcessEvent
<1>16. ASSUME NEW fd \in FDs, NEW kind \in UNION Masks[fd], SocketChanges(fd, kind)
       PROVE  TypeOK'
    <2>1. kind \in Kinds
        BY ConstantsAssumption
    <2>2. KernelTypes'
        BY <1>16, <1>t, <2>1 DEF SocketChanges, KernelTypes
    <2> QED BY <1>16, <1>c, <1>m, <1>h, <1>p, <2>2 DEF SocketChanges
<1>17. CASE UNCHANGED vars
    BY <1>17, <1>c, <1>m, <1>h, <1>k, <1>p DEF vars
<1> QED
    BY <1>1, <1>2, <1>3, <1>4, <1>5, <1>6, <1>7, <1>8, <1>9, <1>10, <1>12, <1>13,
       <1>14, <1>15, <1>16, <1>17
    DEF Next, ContextStep, ThreadStep

\* A step of the event thread or of the network leaves the contexts alone, and
\* only CloseFDs closes descriptors.
OutsideStep ==
    \/ ThreadStep \/ SelectEndsEmpty
    \/ \E fd \in FDs : \E kind \in UNION Masks[fd] : SocketChanges(fd, kind)
    \/ UNCHANGED vars

LEMMA OutsideLeaves ==
    ASSUME OutsideStep
    PROVE  /\ UNCHANGED contextVars
           /\ UNCHANGED <<openFDs, sFDsToCloseArray>> \/ CloseFDs
           /\ UNCHANGED armed \/ ProcessEvent
           /\ UNCHANGED <<sCookieArray, sMaxFDPos>>
<1> USE DEF maskVars, kernelVars
<1>1. CASE ScanReadSet \/ ScanWriteSet
    BY <1>1 DEF ScanReadSet, ScanWriteSet, ConstructEventReq
<1>2. CASE CopySets \/ SelectBegin \/ SelectReturns \/ SelectEndsEmpty
    BY <1>2 DEF CopySets, SelectBegin, SelectReturns, SelectEndsEmpty
<1>3. CASE ReadPipe \/ CloseFDs \/ ResolveEvent \/ ProcessEvent
    BY <1>3 DEF ReadPipe, CloseFDs, ResolveEvent, ProcessEvent
<1>4. CASE \E fd \in FDs : \E kind \in UNION Masks[fd] : SocketChanges(fd, kind)
    BY <1>4 DEF SocketChanges
<1>5. CASE UNCHANGED vars
    BY <1>5 DEF vars
<1> QED BY <1>1, <1>2, <1>3, <1>4, <1>5 DEF OutsideStep, ThreadStep

LEMMA OwnersStep ==
    ASSUME Basic, [Next]_vars
    PROVE  Owners' /\ OneOwnerPerFD'
<1>t. /\ ContextTypes /\ MaskTypes /\ KernelTypes
      /\ Owners /\ OneOwnerPerFD /\ Snarfing
      /\ None \notin FDs
    BY TypesByPart, ConstantsAssumption DEF Basic, FDs
<1>d. FDsToClose \subseteq FDs
    <2>1. sFDsToCloseArray \in Seq(FDs)
        BY <1>t DEF MaskTypes
    <2> QED BY <2>1 DEF FDsToClose
<1>s. ASSUME NEW c \in Contexts, NEW from, NEW to, Step(c, from, to),
             from \in HasFD <=> to \in HasFD,
             UNCHANGED <<fFileDesc, openFDs, sFDsToCloseArray>>
      PROVE  Owners' /\ OneOwnerPerFD'
    <2>1. Owners'
        BY <1>s, <1>t DEF Owners, Step, ContextTypes
    <2>2. OneOwnerPerFD'
        BY <1>s, <1>t DEF OneOwnerPerFD, FDsToClose
    <2> QED BY <2>1, <2>2
<1>1. ASSUME NEW c \in Contexts, NEW fd \in FDs, OpenSocket(c, fd)
      PROVE  Owners' /\ OneOwnerPerFD'
    <2>1. /\ step[c] = "unborn" /\ step' = [step EXCEPT ![c] = "open"]
          /\ fd \notin openFDs /\ openFDs' = openFDs \cup {fd}
          /\ fFileDesc' = [fFileDesc EXCEPT ![c] = fd]
          /\ UNCHANGED sFDsToCloseArray
        BY <1>1 DEF OpenSocket, Step, maskVars
    <2>2. Owners'
        BY <2>1, <1>t DEF Owners, ContextTypes, HasFD, NoID
    <2>3. OneOwnerPerFD'
        BY <2>1, <1>t DEF OneOwnerPerFD, Owners, ContextTypes, FDsToClose
    <2> QED BY <2>2, <2>3
<1>2. ASSUME NEW c \in Contexts, NEW fd \in FDs, NEW mask \in Masks[fd], RequestEvent(c, mask)
      PROVE  Owners' /\ OneOwnerPerFD'
    BY <1>2, <1>s DEF RequestEvent, HasFD, NoID, Named, kernelVars, maskVars
<1>3. ASSUME NEW c \in Contexts,
             \/ WrapUniqueID(c) \/ NextUniqueID(c) \/ Register(c) \/ ModWatch(c)
             \/ WritePipe(c) \/ CleanupUnRegister(c)
      PROVE  Owners' /\ OneOwnerPerFD'
    <2>1. UNCHANGED <<fFileDesc, openFDs, sFDsToCloseArray>>
        BY <1>3 DEF WrapUniqueID, NextUniqueID, Register, ModWatch, WritePipe,
                    CleanupUnRegister, kernelVars, maskVars
    <2>2. \E from, to \in Steps :
              /\ Step(c, from, to)
              /\ from \in HasFD <=> to \in HasFD
        BY <1>3 DEF WrapUniqueID, NextUniqueID, Register, ModWatch, WritePipe,
                    CleanupUnRegister, HasFD, NoID, Named, Steps
    <2> QED BY <2>1, <2>2, <1>s
<1>4. ASSUME NEW c \in Contexts, CleanupUnwatched(c)
      PROVE  Owners' /\ OneOwnerPerFD'
    <2>1. /\ step[c] = "open" /\ step' = [step EXCEPT ![c] = "closed"]
          /\ openFDs' = openFDs \ {fFileDesc[c]}
          /\ fFileDesc' = [fFileDesc EXCEPT ![c] = None]
          /\ UNCHANGED sFDsToCloseArray
        BY <1>4 DEF CleanupUnwatched, Step, maskVars
    <2>2. fFileDesc[c] # None
        BY <2>1, <1>t DEF Owners, HasFD, NoID
    <2>3. Owners'
        BY <2>1, <2>2, <1>t DEF Owners, OneOwnerPerFD, ContextTypes, HasFD, NoID, Named
    <2>4. OneOwnerPerFD'
        <3>1. None \notin FDsToClose
            BY <1>t, <1>d
        <3> QED BY <2>1, <2>2, <3>1, <1>t DEF OneOwnerPerFD, ContextTypes, FDsToClose
    <2> QED BY <2>3, <2>4
<1>5. ASSUME NEW c \in Contexts, RemoveEvent(c)
      PROVE  Owners' /\ OneOwnerPerFD'
    <2> DEFINE fd == fFileDesc[c]
    <2>1. /\ step[c] = "removing" /\ step' = [step EXCEPT ![c] = "write pipe at end"]
          /\ sFDsToCloseArray' = Append(sFDsToCloseArray, fd)
          /\ fFileDesc' = [fFileDesc EXCEPT ![c] = None]
          /\ UNCHANGED openFDs
        BY <1>5 DEF RemoveEvent, Step, kernelVars
    <2>2. fd \in FDs /\ fd \in openFDs /\ fd \notin FDsToClose
        BY <2>1, <1>t DEF Owners, OneOwnerPerFD, ContextTypes, HasFD
    <2>3. Owners'
        BY <2>1, <2>2, <1>t DEF Owners, ContextTypes, HasFD, NoID, Named
    <2>4. /\ DOMAIN sFDsToCloseArray' = 1 .. Len(sFDsToCloseArray) + 1
          /\ DOMAIN sFDsToCloseArray = 1 .. Len(sFDsToCloseArray)
          /\ Len(sFDsToCloseArray) \in Nat
          /\ sFDsToCloseArray'[Len(sFDsToCloseArray) + 1] = fd
          /\ \A i \in 1 .. Len(sFDsToCloseArray) : sFDsToCloseArray'[i] = sFDsToCloseArray[i]
        <3>1. sFDsToCloseArray \in Seq(FDs)
            BY <1>t DEF MaskTypes
        <3>2. Append(sFDsToCloseArray, fd) \in Seq(FDs)
            BY <3>1, <2>2, AppendProperties
        <3>3. \A q \in Seq(FDs) : DOMAIN q = 1 .. Len(q) /\ Len(q) \in Nat
            OBVIOUS
        <3>4. /\ Len(Append(sFDsToCloseArray, fd)) = Len(sFDsToCloseArray) + 1
              /\ Append(sFDsToCloseArray, fd)[Len(sFDsToCloseArray) + 1] = fd
              /\ \A i \in 1 .. Len(sFDsToCloseArray) :
                    Append(sFDsToCloseArray, fd)[i] = sFDsToCloseArray[i]
            BY <3>1, <2>2, AppendProperties
        <3>5. DOMAIN Append(sFDsToCloseArray, fd) = 1 .. Len(sFDsToCloseArray) + 1
            BY <3>2, <3>3, <3>4
        <3> HIDE DEF fd
        <3> QED BY ONLY <3>1, <3>3, <3>4, <3>5, <2>1
    <2>5. FDsToClose' = FDsToClose \cup {fd}
        BY <2>4 DEF FDsToClose
    <2>6. \A i, j \in DOMAIN sFDsToCloseArray' :
              sFDsToCloseArray'[i] = sFDsToCloseArray'[j] => i = j
        BY <2>2, <2>4, <1>t DEF OneOwnerPerFD, FDsToClose
    <2>7. None \notin FDsToClose'
        BY <2>2, <2>5, <1>t, <1>d
    <2>8. OneOwnerPerFD'
        BY <2>1, <2>2, <2>5, <2>6, <2>7, <1>t DEF OneOwnerPerFD, ContextTypes
    <2> QED BY <2>3, <2>8
<1>6. ASSUME NEW c \in Contexts, NEW from \in Contexts, SnarfEventContext(c, from)
      PROVE  Owners' /\ OneOwnerPerFD'
    <2>1. /\ step[c] = "unborn" /\ step[from] = "watching"
          /\ step' = [step EXCEPT ![c] = "snarfing", ![from] = "snarfed"]
          /\ fFileDesc' = [fFileDesc EXCEPT ![c] = fFileDesc[from], ![from] = None]
          /\ UNCHANGED <<openFDs, sFDsToCloseArray>>
        BY <1>6 DEF SnarfEventContext, kernelVars, maskVars
    <2>2. fFileDesc[from] # None /\ fFileDesc[c] = None /\ c # from
        BY <2>1, <1>t DEF Owners, HasFD, NoID, Named
    <2>3. Owners'
        BY <2>1, <2>2, <1>t DEF Owners, ContextTypes, HasFD, NoID, Named
    <2>4. None \notin FDsToClose
        BY <1>t, <1>d
    <2>5. OneOwnerPerFD'
        BY <2>1, <2>2, <2>4, <1>t DEF OneOwnerPerFD, ContextTypes, FDsToClose
    <2> QED BY <2>3, <2>5
<1>7. ASSUME NEW c \in Contexts, SnarfUnRegister(c)
      PROVE  Owners' /\ OneOwnerPerFD'
    <2>1. /\ step[c] = "snarfing"
          /\ step' = [step EXCEPT ![c] = "watching", ![snarfed[c]] = "closed"]
          /\ UNCHANGED <<fFileDesc, openFDs, sFDsToCloseArray>>
        BY <1>7 DEF SnarfUnRegister, kernelVars, maskVars
    <2>2. snarfed[c] \in Contexts \cup {None} /\ None \notin Contexts
        BY <1>t, ConstantsAssumption DEF ContextTypes
    <2>3. Owners'
        BY <2>1, <2>2, <1>7, <1>t DEF Owners, Snarfing, ContextTypes, HasFD, NoID, Named
    <2>4. OneOwnerPerFD'
        BY <2>1, <1>t DEF OneOwnerPerFD, FDsToClose
    <2> QED BY <2>3, <2>4
<1>8. CASE OutsideStep
    <2>1. UNCHANGED <<step, fFileDesc>>
        BY <1>8, OutsideLeaves DEF contextVars
    <2>2. CASE UNCHANGED <<openFDs, sFDsToCloseArray>>
        BY <2>1, <2>2, <1>t DEF Owners, OneOwnerPerFD, FDsToClose
    <2>3. CASE CloseFDs
        <3>1. openFDs' = openFDs \ FDsToClose /\ sFDsToCloseArray' = <<>>
            BY <2>3 DEF CloseFDs
        <3>2. Owners'
            BY <2>1, <3>1, <1>t DEF Owners, OneOwnerPerFD
        <3>3. FDsToClose' = {} /\ DOMAIN sFDsToCloseArray' = {}
            BY <3>1 DEF FDsToClose
        <3> QED BY <2>1, <3>2, <3>3, <1>t DEF OneOwnerPerFD
    <2> QED BY <1>8, <2>2, <2>3, OutsideLeaves
<1> QED
    BY <1>1, <1>2, <1>3, <1>4, <1>5, <1>6, <1>7, <1>8
    DEF Next, ContextStep, OutsideStep

LEMMA SnarfingStep ==
    ASSUME Basic, [Next]_vars
    PROVE  Snarfing'
<1>t. ContextTypes /\ Snarfing /\ None \notin Contexts
    BY TypesByPart, ConstantsAssumption DEF Basic
<1>s. ASSUME NEW c \in Contexts, NEW from, NEW to, Step(c, from, to),
             from \notin {"snarfing", "snarfed"}, to # "snarfing", UNCHANGED snarfed
      PROVE  Snarfing'
    BY <1>s, <1>t DEF Snarfing, Step, ContextTypes
<1>1. ASSUME NEW c \in Contexts,
             \/ \E fd \in FDs : OpenSocket(c, fd)
             \/ \E mask : RequestEvent(c, mask)
             \/ WrapUniqueID(c) \/ NextUniqueID(c) \/ Register(c) \/ ModWatch(c)
             \/ WritePipe(c) \/ RemoveEvent(c) \/ CleanupUnwatched(c) \/ CleanupUnRegister(c)
      PROVE  Snarfing'
    <2>1. UNCHANGED snarfed
        BY <1>1 DEF OpenSocket, RequestEvent, WrapUniqueID, NextUniqueID, Register, ModWatch,
                    WritePipe, RemoveEvent, CleanupUnwatched, CleanupUnRegister
    <2>2. \E from, to \in Steps :
              /\ Step(c, from, to)
              /\ from \notin {"snarfing", "snarfed"} /\ to # "snarfing"
        BY <1>1 DEF OpenSocket, RequestEvent, WrapUniqueID, NextUniqueID, Register, ModWatch,
                    WritePipe, RemoveEvent, CleanupUnwatched, CleanupUnRegister, Steps
    <2> QED BY <2>1, <2>2, <1>s
<1>2. ASSUME NEW c \in Contexts, NEW from \in Contexts, SnarfEventContext(c, from)
      PROVE  Snarfing'
    <2>1. /\ step[c] = "unborn" /\ step[from] = "watching"
          /\ step' = [step EXCEPT ![c] = "snarfing", ![from] = "snarfed"]
          /\ snarfed' = [snarfed EXCEPT ![c] = from]
        BY <1>2 DEF SnarfEventContext
    <2> QED BY <2>1, <1>t DEF Snarfing, ContextTypes
<1>3. ASSUME NEW c \in Contexts, SnarfUnRegister(c) PROVE Snarfing'
    <2>1. /\ step[c] = "snarfing"
          /\ step' = [step EXCEPT ![c] = "watching", ![snarfed[c]] = "closed"]
          /\ snarfed' = [snarfed EXCEPT ![c] = None]
        BY <1>3 DEF SnarfUnRegister
    <2> QED BY <2>1, <1>t DEF Snarfing, ContextTypes
<1>4. CASE OutsideStep
    BY <1>4, <1>t, OutsideLeaves DEF contextVars, Snarfing
<1> QED BY <1>1, <1>2, <1>3, <1>4 DEF Next, ContextStep, OutsideStep

LEMMA NothingCountedStep ==
    ASSUME Basic, [Next]_vars
    PROVE  NothingCounted'
<1>1. ASSUME UNCHANGED threadVars PROVE NothingCounted'
    BY <1>1 DEF threadVars, scanVars, Basic, NothingCounted
<1>2. CASE ThreadStep \/ SelectEndsEmpty
    BY <1>2 DEF ThreadStep, ScanReadSet, ScanWriteSet, ConstructEventReq, Scanning, CopySets,
                SelectBegin, SelectReturns, SelectEndsEmpty, ReadPipe, CloseFDs, ResolveEvent,
                ProcessEvent, Goto, scanVars, Basic, NothingCounted
<1>3. CASE \E c \in Contexts :
               \/ \E fd \in FDs : OpenSocket(c, fd)
               \/ \E mask : RequestEvent(c, mask)
               \/ CleanupUnwatched(c) \/ CleanupUnRegister(c)
               \/ \E from \in Contexts : SnarfEventContext(c, from)
               \/ ContextStep(c)
    BY <1>3, <1>1 DEF OpenSocket, RequestEvent, CleanupUnwatched, CleanupUnRegister,
                      SnarfEventContext, ContextStep, WrapUniqueID, NextUniqueID, Register,
                      ModWatch, WritePipe, RemoveEvent, SnarfUnRegister
<1>4. CASE \E fd \in FDs : \E kind \in UNION Masks[fd] : SocketChanges(fd, kind)
    BY <1>4, <1>1 DEF SocketChanges
<1>5. CASE UNCHANGED vars
    BY <1>5, <1>1 DEF vars
<1> QED BY <1>2, <1>3, <1>4, <1>5 DEF Next

LEMMA BasicInvariant == Spec => []Basic
<1>1. Basic /\ [Next]_vars => Basic'
    BY TypeStep, OwnersStep, SnarfingStep, NothingCountedStep DEF Basic
<1> QED BY <1>1, BasicInit, PTL DEF Spec

\* Each variable keeps its type; the event thread never counts more descriptors than
\* select has returned, though other threads take them out meanwhile (ev.cpp:277-326).
THEOREM TypeCorrect == Spec => []TypeOK
<1>1. Basic => TypeOK
    BY DEF Basic
<1> QED BY <1>1, BasicInvariant, PTL

\* A descriptor belongs to one context or waits to be closed once, however Cleanup,
\* SnarfEventContext and the closing in selecthasdata interleave (ev.cpp:460-468).
THEOREM FDsHaveOneOwner == Spec => []OneOwnerPerFD
<1>1. Basic => OneOwnerPerFD
    BY DEF Basic
<1> QED BY <1>1, BasicInvariant, PTL

-----------------------------------------------------------------------------
(* The IDs, as long as they have not come to their end. *)

IDsLast == sUniqueID # kMaxUniqueID

\* No ID is above the last one given out; the table holds the contexts that are
\* between RequestEvent and Cleanup.
IDsAreFresh ==
    /\ \A c \in Contexts : /\ fUniqueID[c] <= sUniqueID
                           /\ step[c] \in NoID => fUniqueID[c] = 0
                           /\ step[c] \in HasFD \ NoID => fUniqueID[c] # 0
    /\ \A fd \in FDs : sCookieArray[fd] <= sUniqueID
    /\ req.cookie <= sUniqueID
    /\ fRefTable = {c \in Contexts : step[c] \in Named}

HasID(c, id) == fFileDesc[c] # None /\ fUniqueID[c] # 0 /\ fUniqueID[c] = id

\* The context a cookie leads to has the descriptor the cookie is kept for.
CookiesLead ==
    \A c \in Contexts :
        /\ \A fd \in FDs : HasID(c, sCookieArray[fd]) => fFileDesc[c] = fd
        /\ thread = "event" /\ HasID(c, req.cookie) => fFileDesc[c] = req.fd

\* The context that is told has asked for events and not gone.
Told ==
    /\ resolved # None <=> thread = "process"
    /\ resolved # None => /\ fFileDesc[resolved] \in {req.fd, None}
                          /\ step[resolved] \in Named \cup {"snarfed"}

\* A context has asked from select_modwatch on.
ArmedStep == \A c \in Contexts : armed[c] # {} => step[c] \in Named \ {"snarfing"}

Leads == /\ Basic /\ IDsAreFresh /\ IDsAreUnique /\ CookiesLead
         /\ Told /\ ArmedStep /\ ArmedIsWatched

LEMMA LeadsInit == Init => Leads
<1> SUFFICES ASSUME Init PROVE Leads
    OBVIOUS
<1>1. Basic
    BY BasicInit
<1>2. IDsAreFresh
    <2>1. /\ \A c \in Contexts : step[c] = "unborn" /\ fUniqueID[c] = 0
          /\ \A fd \in FDs : sCookieArray[fd] = 0
          /\ sUniqueID = 1 /\ req.cookie = 0 /\ fRefTable = {}
        BY DEF Init, NoEvent
    <2>2. "unborn" \notin Named /\ "unborn" \in NoID
        BY DEF Named, NoID
    <2>3. fRefTable = {c \in Contexts : step[c] \in Named}
        BY <2>1, <2>2
    <2> QED BY <2>1, <2>2, <2>3 DEF IDsAreFresh
<1>3. IDsAreUnique /\ CookiesLead /\ Told /\ ArmedStep /\ ArmedIsWatched
    BY DEF Init, IDsAreUnique, CookiesLead, HasID, Told, ArmedStep, ArmedIsWatched
<1> QED BY <1>1, <1>2, <1>3 DEF Leads

\* What the event thread may do to the event it has.
LEMMA OutsideEvents ==
    ASSUME OutsideStep
    PROVE  \/ /\ UNCHANGED <<thread, req, resolved, watched>>
           \/ /\ {thread, thread'} \cap {"event", "process"} = {}
              /\ UNCHANGED <<req, resolved, watched>>
           \/ /\ \E kind \in Kinds : ConstructEventReq(kind)
           \/ ResolveEvent \/ ProcessEvent
<1> USE DEF maskVars, kernelVars, threadVars, scanVars, Goto, Kinds
<1>1. CASE ScanReadSet \/ ScanWriteSet
    BY <1>1 DEF ScanReadSet, ScanWriteSet
<1>2. CASE CopySets \/ SelectBegin \/ SelectReturns \/ SelectEndsEmpty
    BY <1>2 DEF CopySets, SelectBegin, SelectReturns, SelectEndsEmpty
<1>3. CASE ReadPipe \/ CloseFDs
    BY <1>3 DEF ReadPipe, CloseFDs
<1>4. CASE \E fd \in FDs : \E kind \in UNION Masks[fd] : SocketChanges(fd, kind)
    BY <1>4 DEF SocketChanges
<1>5. CASE UNCHANGED vars
    BY <1>5 DEF vars
<1> QED BY <1>1, <1>2, <1>3, <1>4, <1>5 DEF OutsideStep, ThreadStep

LEMMA EventConstructed ==
    ASSUME NEW kind \in Kinds, ConstructEventReq(kind)
    PROVE  \E fd \in FDs :
              /\ thread = "scan" /\ thread' = "event"
              /\ req' = [fd |-> fd, cookie |-> sCookieArray[fd]]
              /\ watched' = watched \ Of(fd)
              /\ UNCHANGED resolved
    BY FoundIsReturned DEF ConstructEventReq, Goto, Disarm

\* A new ID is the highest, and it is in the table from Register to UnRegister.
LEMMA FreshStep ==
    ASSUME Leads, IDsLast, [Next]_vars
    PROVE  IDsAreFresh'
<1>t. ContextTypes /\ MaskTypes /\ ThreadTypes /\ IDsAreFresh /\ Owners /\ IDsAreUnique
    BY TypesByPart DEF Leads, Basic
<1>u. /\ step \in [Contexts -> Steps] /\ fUniqueID \in [Contexts -> Nat]
      /\ sUniqueID \in Nat /\ sCookieArray \in [FDs -> Nat]
      /\ fFileDesc \in [Contexts -> FDs \cup {None}]
    BY <1>t DEF ContextTypes, MaskTypes
<1>s. ASSUME NEW c \in Contexts, NEW from, NEW to, Step(c, from, to),
             from \in NoID <=> to \in NoID, to \in HasFD => from \in HasFD \/ to \in NoID,
             from \in Named <=> to \in Named,
             UNCHANGED <<fUniqueID, sUniqueID, sCookieArray, req, fRefTable>>
      PROVE  IDsAreFresh'
    BY <1>s, <1>t, <1>u DEF IDsAreFresh, Step
<1>1. ASSUME NEW c \in Contexts, NEW fd \in FDs, OpenSocket(c, fd) PROVE IDsAreFresh'
    BY <1>1, <1>s DEF OpenSocket, NoID, Named, HasFD, threadVars, maskVars
<1>2. ASSUME NEW c \in Contexts, NEW fd \in FDs, NEW mask \in Masks[fd], RequestEvent(c, mask) PROVE IDsAreFresh'
    BY <1>2, <1>s DEF RequestEvent, NoID, Named, HasFD, threadVars, maskVars
<1>3. ASSUME NEW c \in Contexts, WrapUniqueID(c) PROVE IDsAreFresh'
    BY <1>3, <1>s DEF WrapUniqueID, IDsLast, NoID, Named, HasFD, threadVars, maskVars
<1>4. ASSUME NEW c \in Contexts, NextUniqueID(c) PROVE IDsAreFresh'
    <2>1. /\ step' = [step EXCEPT ![c] = "register"] /\ step[c] = "next id"
          /\ sUniqueID' = sUniqueID + 1
          /\ fUniqueID' = [fUniqueID EXCEPT ![c] = sUniqueID + 1]
          /\ UNCHANGED <<sCookieArray, req, fRefTable>>
        BY <1>4 DEF NextUniqueID, Step, threadVars, maskVars
    <2>2. req.cookie \in Nat
        BY <1>t DEF ThreadTypes
    <2>3. {x \in Contexts : step'[x] \in Named} = {x \in Contexts : step[x] \in Named}
        BY <2>1, <1>u DEF Named
    <2>4. \A d \in Contexts : /\ fUniqueID'[d] <= sUniqueID'
                              /\ step'[d] \in NoID => fUniqueID'[d] = 0
                              /\ step'[d] \in HasFD \ NoID => fUniqueID'[d] # 0
        <3> SUFFICES ASSUME NEW d \in Contexts
                     PROVE  /\ fUniqueID'[d] <= sUniqueID'
                            /\ step'[d] \in NoID => fUniqueID'[d] = 0
                            /\ step'[d] \in HasFD \ NoID => fUniqueID'[d] # 0
            OBVIOUS
        <3>1. CASE d = c
            <4>1. fUniqueID'[c] = sUniqueID + 1 /\ step'[c] = "register"
                BY <2>1, <1>u
            <4>2. sUniqueID \in Nat /\ sUniqueID' = sUniqueID + 1
                BY <2>1, <1>u
            <4>3. "register" \notin NoID
                BY DEF NoID
            <4>4. sUniqueID + 1 <= sUniqueID + 1 /\ sUniqueID + 1 # 0
                BY <4>2
            <4> QED BY <4>1, <3>1, <4>2, <4>3, <4>4
        <3>2. CASE d # c
            <4>1. fUniqueID'[d] = fUniqueID[d] /\ step'[d] = step[d] /\ fUniqueID[d] \in Nat
                BY <2>1, <3>2, <1>u
            <4>2. /\ fUniqueID[d] <= sUniqueID
                  /\ step[d] \in NoID => fUniqueID[d] = 0
                  /\ step[d] \in HasFD \ NoID => fUniqueID[d] # 0
                BY <1>t DEF IDsAreFresh
            <4>3. fUniqueID[d] <= sUniqueID + 1
                BY <4>1, <4>2, <1>u
            <4>4. sUniqueID' = sUniqueID + 1
                BY <2>1
            <4> QED BY <4>1, <4>2, <4>3, <4>4
        <3> QED BY <3>1, <3>2
    <2>5. (\A fd \in FDs : sCookieArray[fd] <= sUniqueID + 1) /\ req.cookie <= sUniqueID + 1
        BY <2>2, <1>t, <1>u DEF IDsAreFresh
    <2> QED BY <2>1, <2>3, <2>4, <2>5, <1>t DEF IDsAreFresh
<1>5. ASSUME NEW c \in Contexts, Register(c) PROVE IDsAreFresh'
    <2>1. /\ step' = [step EXCEPT ![c] = "modwatch"] /\ step[c] = "register"
          /\ UNCHANGED <<fUniqueID, sUniqueID, sCookieArray, req>>
        BY <1>5 DEF Register, Step, threadVars, maskVars
    <2>2. \A d \in fRefTable : fUniqueID[d] # fUniqueID[c]
        <3> SUFFICES ASSUME NEW d \in fRefTable, fUniqueID[d] = fUniqueID[c] PROVE FALSE
            OBVIOUS
        <3>1. d \in Contexts /\ step[d] \in Named
            BY <1>t DEF IDsAreFresh
        <3>2. fFileDesc[d] # None /\ fFileDesc[c] # None /\ fUniqueID[c] # 0
            BY <3>1, <2>1, <1>t DEF Owners, HasFD, NoID, Named, IDsAreFresh
        <3> QED BY <3>1, <3>2, <2>1, <1>t DEF IDsAreUnique, Named
    <2>3. fRefTable' = fRefTable \cup {c}
        BY <1>5, <2>2 DEF Register
    <2>4. fRefTable' = {x \in Contexts : step'[x] \in Named}
        BY <2>1, <2>3, <1>t, <1>u DEF IDsAreFresh, Named
    <2> QED BY <2>1, <2>4, <1>t, <1>u DEF IDsAreFresh, NoID, HasFD, Named
<1>6. ASSUME NEW c \in Contexts, ModWatch(c) PROVE IDsAreFresh'
    <2>1. /\ step' = [step EXCEPT ![c] = "write pipe"] /\ step[c] = "modwatch"
          /\ sCookieArray' = [sCookieArray EXCEPT ![fFileDesc[c]] = fUniqueID[c]]
          /\ UNCHANGED <<fUniqueID, sUniqueID, fRefTable, req>>
        BY <1>6 DEF ModWatch, Step, threadVars
    <2>2. \A fd \in FDs : sCookieArray'[fd] <= sUniqueID
        BY <2>1, <1>t, <1>u DEF IDsAreFresh
    <2>3. {x \in Contexts : step'[x] \in Named} = {x \in Contexts : step[x] \in Named}
        BY <2>1, <1>u DEF Named
    <2> QED BY <2>1, <2>2, <2>3, <1>t, <1>u DEF IDsAreFresh, NoID, HasFD, Named
<1>7. ASSUME NEW c \in Contexts, WritePipe(c) PROVE IDsAreFresh'
    BY <1>7, <1>s DEF WritePipe, NoID, Named, HasFD, threadVars, maskVars
<1>8. ASSUME NEW c \in Contexts, CleanupUnwatched(c) PROVE IDsAreFresh'
    <2>1. /\ step' = [step EXCEPT ![c] = "closed"] /\ step[c] = "open"
          /\ UNCHANGED <<fUniqueID, sUniqueID, sCookieArray, req, fRefTable>>
        BY <1>8 DEF CleanupUnwatched, Step, threadVars, maskVars
    <2>2. {x \in Contexts : step'[x] \in Named} = {x \in Contexts : step[x] \in Named}
        BY <2>1, <1>u DEF Named
    <2> QED BY <2>1, <2>2, <1>t, <1>u DEF IDsAreFresh, NoID, HasFD, Named
<1>9. ASSUME NEW c \in Contexts, CleanupUnRegister(c) PROVE IDsAreFresh'
    <2>1. /\ step' = [step EXCEPT ![c] = "removing"] /\ step[c] = "watching"
          /\ fRefTable' = fRefTable \ {c}
          /\ UNCHANGED <<fUniqueID, sUniqueID, sCookieArray, req>>
        BY <1>9 DEF CleanupUnRegister, Step, threadVars, maskVars
    <2>2. fRefTable' = {x \in Contexts : step'[x] \in Named}
        BY <2>1, <1>t, <1>u DEF IDsAreFresh, Named
    <2> QED BY <2>1, <2>2, <1>t, <1>u DEF IDsAreFresh, NoID, HasFD, Named
<1>10. ASSUME NEW c \in Contexts, RemoveEvent(c) PROVE IDsAreFresh'
    <2>1. /\ step' = [step EXCEPT ![c] = "write pipe at end"] /\ step[c] = "removing"
          /\ sCookieArray' = [sCookieArray EXCEPT ![fFileDesc[c]] = 0]
          /\ UNCHANGED <<fUniqueID, sUniqueID, fRefTable, req>>
        BY <1>10 DEF RemoveEvent, Step, threadVars
    <2>2. \A fd \in FDs : sCookieArray'[fd] <= sUniqueID
        <3> SUFFICES ASSUME NEW fd \in FDs PROVE sCookieArray'[fd] <= sUniqueID
            OBVIOUS
        <3>1. sCookieArray'[fd] = 0 \/ sCookieArray'[fd] = sCookieArray[fd]
            BY <2>1, <1>u
        <3>2. sCookieArray[fd] <= sUniqueID
            BY <1>t DEF IDsAreFresh
        <3> QED BY <3>1, <3>2, <1>u
    <2>3. {x \in Contexts : step'[x] \in Named} = {x \in Contexts : step[x] \in Named}
        BY <2>1, <1>u DEF Named
    <2> QED BY <2>1, <2>2, <2>3, <1>t, <1>u DEF IDsAreFresh, NoID, HasFD, Named
<1>11. ASSUME NEW c \in Contexts, NEW from \in Contexts, SnarfEventContext(c, from)
       PROVE  IDsAreFresh'
    <2>1. /\ step' = [step EXCEPT ![c] = "snarfing", ![from] = "snarfed"]
          /\ step[c] = "unborn" /\ step[from] = "watching"
          /\ fUniqueID' = [fUniqueID EXCEPT ![c] = fUniqueID[from]]
          /\ UNCHANGED <<sUniqueID, sCookieArray, req>>
          /\ fRefTable' = IF from \in fRefTable THEN (fRefTable \ {from}) \cup {c} ELSE fRefTable
        BY <1>11 DEF SnarfEventContext, threadVars, maskVars
    <2>2. fRefTable' = {x \in Contexts : step'[x] \in Named}
        <3>1. from \in fRefTable /\ c # from
            BY <2>1, <1>t DEF IDsAreFresh, Named
        <3> QED BY <2>1, <3>1, <1>t, <1>u DEF IDsAreFresh, Named
    <2>3. fUniqueID[from] # 0 /\ fUniqueID[from] <= sUniqueID
        BY <2>1, <1>t DEF IDsAreFresh, HasFD, NoID, Named
    <2> QED BY <2>1, <2>2, <2>3, <1>t, <1>u DEF IDsAreFresh, NoID, HasFD, Named
<1>12. ASSUME NEW c \in Contexts, SnarfUnRegister(c) PROVE IDsAreFresh'
    <2>1. /\ step' = [step EXCEPT ![c] = "watching", ![snarfed[c]] = "closed"]
          /\ step[c] = "snarfing" /\ step[snarfed[c]] = "snarfed" /\ snarfed[c] \in Contexts
          /\ UNCHANGED <<fUniqueID, sUniqueID, sCookieArray, req, fRefTable>>
        BY <1>12, <1>t DEF SnarfUnRegister, threadVars, maskVars, Leads, Basic, Snarfing,
                           ContextTypes
    <2>2. {x \in Contexts : step'[x] \in Named} = {x \in Contexts : step[x] \in Named}
        BY <2>1, <1>u DEF Named
    <2> QED BY <2>1, <2>2, <1>t, <1>u DEF IDsAreFresh, NoID, HasFD, Named
<1>13. CASE OutsideStep
    <2>1. UNCHANGED <<step, fUniqueID, sUniqueID, fRefTable, sCookieArray>>
        BY <1>13, OutsideLeaves DEF contextVars
    <2>2. UNCHANGED req \/ \E fd \in FDs : req'.cookie = sCookieArray[fd]
        <3>1. ResolveEvent \/ ProcessEvent => UNCHANGED req
            BY DEF ResolveEvent, ProcessEvent
        <3>2. ASSUME NEW kind \in Kinds, ConstructEventReq(kind)
              PROVE  \E fd \in FDs : req'.cookie = sCookieArray[fd]
            BY <3>2, EventConstructed
        <3> QED BY <1>13, <3>1, <3>2, OutsideEvents
    <2> QED BY <2>1, <2>2, <1>t DEF IDsAreFresh
<1> QED
    BY <1>1, <1>2, <1>3, <1>4, <1>5, <1>6, <1>7, <1>8, <1>9, <1>10, <1>11, <1>12, <1>13
    DEF Next, ContextStep, OutsideStep

\* No other context with a socket has the ID that a context gets.
LEMMA UniqueStep ==
    ASSUME Leads, IDsLast, [Next]_vars
    PROVE  IDsAreUnique' /\ CookiesLead'
<1>t. /\ ContextTypes /\ MaskTypes /\ ThreadTypes
      /\ Owners /\ OneOwnerPerFD /\ Snarfing
      /\ IDsAreFresh /\ IDsAreUnique /\ CookiesLead
    BY TypesByPart DEF Leads, Basic
<1>u. /\ step \in [Contexts -> Steps] /\ fUniqueID \in [Contexts -> Nat]
      /\ sUniqueID \in Nat /\ sCookieArray \in [FDs -> Nat]
      /\ fFileDesc \in [Contexts -> FDs \cup {None}]
      /\ None \notin FDs
    BY <1>t, ConstantsAssumption DEF ContextTypes, MaskTypes, FDs
<1>s. ASSUME UNCHANGED <<fUniqueID, fFileDesc, sCookieArray, thread, req>>
      PROVE  IDsAreUnique' /\ CookiesLead'
    BY <1>s, <1>t DEF IDsAreUnique, CookiesLead, HasID
<1>1. ASSUME NEW c \in Contexts, NEW fd \in FDs, OpenSocket(c, fd)
      PROVE  IDsAreUnique' /\ CookiesLead'
    <2>1. /\ step[c] = "unborn"
          /\ fFileDesc' = [fFileDesc EXCEPT ![c] = fd]
          /\ UNCHANGED <<fUniqueID, sCookieArray, thread, req>>
        BY <1>1 DEF OpenSocket, Step, threadVars, maskVars
    <2>2. fUniqueID[c] = 0
        BY <2>1, <1>t DEF IDsAreFresh, NoID
    <2> QED BY <2>1, <2>2, <1>t, <1>u DEF IDsAreUnique, CookiesLead, HasID
<1>2. ASSUME NEW c \in Contexts,
             \/ \E mask : RequestEvent(c, mask)
             \/ WrapUniqueID(c) \/ Register(c) \/ WritePipe(c)
             \/ CleanupUnRegister(c) \/ SnarfUnRegister(c)
      PROVE  IDsAreUnique' /\ CookiesLead'
    BY <1>2, <1>s DEF RequestEvent, WrapUniqueID, IDsLast, Register, WritePipe,
                      CleanupUnRegister, SnarfUnRegister, threadVars, maskVars
<1>3. ASSUME NEW c \in Contexts, NextUniqueID(c)
      PROVE  IDsAreUnique' /\ CookiesLead'
    <2>1. /\ fUniqueID' = [fUniqueID EXCEPT ![c] = sUniqueID + 1]
          /\ UNCHANGED <<fFileDesc, sCookieArray, thread, req>>
        BY <1>3 DEF NextUniqueID, threadVars, maskVars
    <2>2. /\ \A d \in Contexts : fUniqueID[d] # sUniqueID + 1
          /\ \A fd \in FDs : sCookieArray[fd] # sUniqueID + 1
          /\ req.cookie # sUniqueID + 1
        <3>1. /\ \A d \in Contexts : fUniqueID[d] \in Nat /\ fUniqueID[d] <= sUniqueID
              /\ \A fd \in FDs : sCookieArray[fd] \in Nat /\ sCookieArray[fd] <= sUniqueID
              /\ req.cookie \in Nat /\ req.cookie <= sUniqueID
            BY <1>t, <1>u DEF IDsAreFresh, ThreadTypes
        <3> QED BY <3>1, <1>u
    <2> QED BY <2>1, <2>2, <1>t, <1>u DEF IDsAreUnique, CookiesLead, HasID
<1>4. ASSUME NEW c \in Contexts, ModWatch(c)
      PROVE  IDsAreUnique' /\ CookiesLead'
    <2>1. /\ sCookieArray' = [sCookieArray EXCEPT ![fFileDesc[c]] = fUniqueID[c]]
          /\ UNCHANGED <<fUniqueID, fFileDesc, thread, req>>
          /\ step[c] = "modwatch"
        BY <1>4 DEF ModWatch, Step, threadVars
    <2>2. fFileDesc[c] \in FDs /\ fUniqueID[c] # 0
        BY <2>1, <1>t, <1>u DEF Owners, IDsAreFresh, HasFD, NoID, Named
    <2>3. ASSUME NEW d \in Contexts, NEW fd \in FDs, HasID(d, sCookieArray'[fd])
          PROVE  fFileDesc[d] = fd
        <3>1. CASE fd = fFileDesc[c]
            BY <2>1, <2>2, <2>3, <3>1, <1>t, <1>u DEF HasID, IDsAreUnique
        <3>2. CASE fd # fFileDesc[c]
            BY <2>1, <2>3, <3>2, <1>t, <1>u DEF CookiesLead
        <3> QED BY <3>1, <3>2
    <2> QED BY <2>1, <2>3, <1>t DEF IDsAreUnique, CookiesLead, HasID
<1>5. ASSUME NEW c \in Contexts, CleanupUnwatched(c) \/ RemoveEvent(c)
      PROVE  IDsAreUnique' /\ CookiesLead'
    <2>1. /\ fFileDesc' = [fFileDesc EXCEPT ![c] = None]
          /\ UNCHANGED <<fUniqueID, thread, req>>
          /\ \A fd \in FDs : sCookieArray'[fd] \in {0, sCookieArray[fd]}
        BY <1>5, <1>u DEF CleanupUnwatched, RemoveEvent, threadVars, maskVars
    <2> QED BY <2>1, <1>t, <1>u DEF IDsAreUnique, CookiesLead, HasID
<1>6. ASSUME NEW c \in Contexts, NEW from \in Contexts, SnarfEventContext(c, from)
      PROVE  IDsAreUnique' /\ CookiesLead'
    <2>1. /\ step[c] = "unborn" /\ step[from] = "watching"
          /\ fFileDesc' = [fFileDesc EXCEPT ![c] = fFileDesc[from], ![from] = None]
          /\ fUniqueID' = [fUniqueID EXCEPT ![c] = fUniqueID[from]]
          /\ UNCHANGED <<sCookieArray, thread, req>>
        BY <1>6 DEF SnarfEventContext, threadVars, maskVars
    <2>2. c # from
        BY <2>1
    <2>3. \A d \in Contexts \ {c, from} :
              fFileDesc'[d] = fFileDesc[d] /\ fUniqueID'[d] = fUniqueID[d]
        BY <2>1, <1>u
    <2>4. /\ fFileDesc'[c] = fFileDesc[from] /\ fUniqueID'[c] = fUniqueID[from]
          /\ fFileDesc'[from] = None
        BY <2>1, <2>2, <1>u
    <2>5. IDsAreUnique'
        BY <2>3, <2>4, <1>t DEF IDsAreUnique
    <2>6. CookiesLead'
        <3>1. ASSUME NEW d \in Contexts, NEW id,
                     fFileDesc'[d] # None, fUniqueID'[d] # 0, fUniqueID'[d] = id
              PROVE  \E b \in Contexts : HasID(b, id) /\ fFileDesc[b] = fFileDesc'[d]
            BY <2>3, <2>4, <3>1 DEF HasID
        <3>2. ASSUME NEW d \in Contexts, NEW fd \in FDs, HasID(d, sCookieArray[fd])'
              PROVE  fFileDesc'[d] = fd
            <4>1. \E b \in Contexts : HasID(b, sCookieArray[fd]) /\ fFileDesc[b] = fFileDesc'[d]
                BY <2>1, <3>1, <3>2 DEF HasID
            <4> QED BY <4>1, <1>t DEF CookiesLead
        <3>3. ASSUME NEW d \in Contexts, HasID(d, req.cookie)', thread' = "event"
              PROVE  fFileDesc'[d] = req'.fd
            <4>1. \E b \in Contexts : HasID(b, req.cookie) /\ fFileDesc[b] = fFileDesc'[d]
                BY <2>1, <3>1, <3>3 DEF HasID
            <4>2. thread = "event" /\ req' = req
                BY <2>1, <3>3
            <4> QED BY <4>1, <4>2, <1>t DEF CookiesLead
        <3> QED BY <3>2, <3>3 DEF CookiesLead
    <2> QED BY <2>5, <2>6
<1>7. CASE OutsideStep
    <2>1. UNCHANGED <<fUniqueID, fFileDesc, sCookieArray>>
        BY <1>7, OutsideLeaves DEF contextVars
    <2>2. IDsAreUnique'
        BY <2>1, <1>t DEF IDsAreUnique
    <2>3. CASE UNCHANGED <<thread, req, resolved, watched>>
        BY <2>1, <2>3, <1>s
    <2>4. CASE thread' # "event"
        <3>1. ASSUME NEW d \in Contexts, NEW fd \in FDs, HasID(d, sCookieArray[fd])'
              PROVE  fFileDesc'[d] = fd
            <4>1. HasID(d, sCookieArray[fd]) /\ fFileDesc'[d] = fFileDesc[d]
                BY <2>1, <3>1 DEF HasID
            <4> QED BY <4>1, <1>t DEF CookiesLead
        <3> QED BY <2>2, <3>1, <2>4 DEF CookiesLead
    <2>5. ASSUME NEW kind \in Kinds, ConstructEventReq(kind) PROVE CookiesLead'
        <3>1. PICK fd \in FDs : req' = [fd |-> fd, cookie |-> sCookieArray[fd]]
            BY <2>5, EventConstructed
        <3>2. req'.cookie = sCookieArray[fd] /\ req'.fd = fd
            BY <3>1
        <3> QED BY <2>1, <3>2, <1>t DEF CookiesLead, HasID
    <2>6. ResolveEvent \/ ProcessEvent => thread' # "event"
        BY DEF ResolveEvent, ProcessEvent, Goto
    <2> QED BY <1>7, <2>2, <2>3, <2>4, <2>5, <2>6, OutsideEvents
<1> QED
    BY <1>1, <1>2, <1>3, <1>4, <1>5, <1>6, <1>7
    DEF Next, ContextStep, OutsideStep

\* UnRegister waits for the event thread, so the context it tells of the event stays.
LEMMA ToldStep ==
    ASSUME Leads, IDsLast, [Next]_vars
    PROVE  Told'
<1>t. /\ ContextTypes /\ ThreadTypes /\ Owners /\ Snarfing /\ IDsAreFresh /\ CookiesLead /\ Told
      /\ None \notin Contexts /\ None \notin FDs
    BY TypesByPart, ConstantsAssumption DEF Leads, Basic, FDs
<1>u. /\ step \in [Contexts -> Steps] /\ fFileDesc \in [Contexts -> FDs \cup {None}]
      /\ resolved \in Contexts \cup {None}
    BY <1>t DEF ContextTypes, ThreadTypes
<1>s. ASSUME NEW c \in Contexts, NEW from, NEW to, Step(c, from, to),
             from \in Named => to \in Named, from # "snarfed",
             \/ fFileDesc' = fFileDesc
             \/ from \notin Named /\ \A d \in Contexts \ {c} : fFileDesc'[d] = fFileDesc[d],
             UNCHANGED <<thread, resolved, req>>
      PROVE  Told'
    <2>1. resolved # None => resolved # c \/ from \in Named
        BY <1>s, <1>t DEF Told, Step
    <2> QED BY <1>s, <2>1, <1>t, <1>u DEF Told, Step
<1>1. ASSUME NEW c \in Contexts,
             \/ \E fd \in FDs : OpenSocket(c, fd)
             \/ \E mask : RequestEvent(c, mask)
             \/ WrapUniqueID(c) \/ NextUniqueID(c) \/ Register(c) \/ ModWatch(c)
             \/ WritePipe(c) \/ RemoveEvent(c) \/ CleanupUnwatched(c)
      PROVE  Told'
    <2>1. UNCHANGED <<thread, resolved, req>>
        BY <1>1 DEF OpenSocket, RequestEvent, WrapUniqueID, NextUniqueID, Register, ModWatch,
                    WritePipe, RemoveEvent, CleanupUnwatched, threadVars
    <2>2. CASE \E fd \in FDs : OpenSocket(c, fd)
        <3>1. Step(c, "unborn", "open") /\ \A d \in Contexts \ {c} : fFileDesc'[d] = fFileDesc[d]
            BY <2>2, <1>u DEF OpenSocket
        <3> QED BY <2>1, <3>1, <1>s DEF Named
    <2>3. CASE RemoveEvent(c) \/ CleanupUnwatched(c)
        <3>1. /\ Step(c, "removing", "write pipe at end") \/ Step(c, "open", "closed")
              /\ \A d \in Contexts \ {c} : fFileDesc'[d] = fFileDesc[d]
            BY <2>3, <1>u DEF RemoveEvent, CleanupUnwatched
        <3> QED BY <2>1, <3>1, <1>s DEF Named
    <2>4. CASE \/ \E mask : RequestEvent(c, mask)
               \/ WrapUniqueID(c) \/ NextUniqueID(c) \/ Register(c) \/ ModWatch(c)
               \/ WritePipe(c)
        <3>1. fFileDesc' = fFileDesc
            BY <2>4 DEF RequestEvent, WrapUniqueID, NextUniqueID, Register, ModWatch, WritePipe
        <3>2. \E from, to \in Steps :
                  /\ Step(c, from, to)
                  /\ from \in Named => to \in Named
                  /\ from # "snarfed"
            BY <2>4 DEF RequestEvent, WrapUniqueID, NextUniqueID, Register, ModWatch, WritePipe,
                        Named, Steps
        <3> QED BY <2>1, <3>1, <3>2, <1>s
    <2> QED BY <1>1, <2>2, <2>3, <2>4
<1>2. ASSUME NEW c \in Contexts, CleanupUnRegister(c) PROVE Told'
    <2>1. /\ resolved # c /\ \A d \in Contexts \ {c} : step'[d] = step[d]
          /\ UNCHANGED <<fFileDesc, thread, resolved, req>>
        BY <1>2, <1>u DEF CleanupUnRegister, Unused, Step, threadVars
    <2> QED BY <2>1, <1>t, <1>u DEF Told
<1>3. ASSUME NEW c \in Contexts, NEW from \in Contexts, SnarfEventContext(c, from)
      PROVE  Told'
    <2>1. /\ step[c] = "unborn" /\ step[from] = "watching"
          /\ step' = [step EXCEPT ![c] = "snarfing", ![from] = "snarfed"]
          /\ fFileDesc' = [fFileDesc EXCEPT ![c] = fFileDesc[from], ![from] = None]
          /\ UNCHANGED <<thread, resolved, req>>
        BY <1>3 DEF SnarfEventContext, threadVars
    <2>2. c # from /\ resolved # c
        BY <2>1, <1>t DEF Told, Named
    <2> QED BY <2>1, <2>2, <1>t, <1>u DEF Told, Named
<1>4. ASSUME NEW c \in Contexts, SnarfUnRegister(c) PROVE Told'
    <2>1. /\ step[c] = "snarfing" /\ snarfed[c] \in Contexts /\ resolved # snarfed[c]
          /\ step' = [step EXCEPT ![c] = "watching", ![snarfed[c]] = "closed"]
          /\ UNCHANGED <<fFileDesc, thread, resolved, req>>
        BY <1>4, <1>t DEF SnarfUnRegister, Unused, Snarfing, ContextTypes, threadVars
    <2> QED BY <2>1, <1>t, <1>u DEF Told, Named
<1>5. CASE OutsideStep
    <2>1. UNCHANGED <<step, fFileDesc, fUniqueID, fRefTable>>
        BY <1>5, OutsideLeaves DEF contextVars
    <2>2. CASE UNCHANGED <<thread, req, resolved, watched>>
        BY <2>1, <2>2, <1>t DEF Told
    <2>3. CASE {thread, thread'} \cap {"event", "process"} = {} /\ UNCHANGED <<req, resolved, watched>>
        BY <2>1, <2>3, <1>t DEF Told
    <2>4. ASSUME NEW kind \in Kinds, ConstructEventReq(kind) PROVE Told'
        <3>1. thread = "scan" /\ thread' = "event" /\ UNCHANGED resolved
            BY <2>4, EventConstructed
        <3> QED BY <3>1, <1>t DEF Told
    <2>5. CASE ResolveEvent
        <3>1. CASE thread' = "scan" /\ UNCHANGED resolved
            BY <2>5, <3>1, <1>t DEF Told, ResolveEvent
        <3>2. ASSUME NEW c \in fRefTable, fUniqueID[c] = req.cookie, resolved' = c, thread' = "process"
              PROVE  Told'
            <4>1. c \in Contexts /\ step[c] \in Named
                BY <1>t DEF IDsAreFresh
            <4>2. HasID(c, req.cookie)
                BY <4>1, <3>2, <1>t DEF HasID, Owners, IDsAreFresh, HasFD, NoID, Named
            <4>3. fFileDesc[c] = req.fd /\ UNCHANGED req
                BY <4>1, <4>2, <2>5, <1>t DEF CookiesLead, ResolveEvent
            <4> QED BY <2>1, <3>2, <4>1, <4>3, <1>t DEF Told
        <3> QED BY <2>5, <3>1, <3>2 DEF ResolveEvent
    <2>6. CASE ProcessEvent
        BY <2>6 DEF ProcessEvent, Goto, Told
    <2> QED BY <1>5, <2>2, <2>3, <2>4, <2>5, <2>6, OutsideEvents
<1> QED BY <1>1, <1>2, <1>3, <1>4, <1>5 DEF Next, ContextStep, OutsideStep

\* What a context asked for is gone before it gives up its socket.
LEMMA ArmedStepStep ==
    ASSUME Leads, IDsLast, [Next]_vars
    PROVE  ArmedStep'
<1>t. /\ step \in [Contexts -> Steps] /\ armed \in [Contexts -> SUBSET Kinds]
      /\ ArmedStep /\ ContextTypes
    BY TypesByPart DEF Leads, Basic, ContextTypes
<1>s. ASSUME NEW c \in Contexts, NEW from, NEW to, Step(c, from, to),
             from \in Named \ {"snarfing"} => to \in Named \ {"snarfing"},
             UNCHANGED armed
      PROVE  ArmedStep'
    BY <1>s, <1>t DEF ArmedStep, Step
<1>1. ASSUME NEW c \in Contexts,
             \/ \E fd \in FDs : OpenSocket(c, fd)
             \/ \E mask : RequestEvent(c, mask)
             \/ WrapUniqueID(c) \/ NextUniqueID(c) \/ Register(c)
             \/ WritePipe(c) \/ RemoveEvent(c) \/ CleanupUnwatched(c)
      PROVE  ArmedStep'
    <2>1. UNCHANGED armed
        BY <1>1 DEF OpenSocket, RequestEvent, WrapUniqueID, NextUniqueID, Register,
                    WritePipe, RemoveEvent, CleanupUnwatched
    <2>2. \E from, to \in Steps :
              /\ Step(c, from, to)
              /\ from \in Named \ {"snarfing"} => to \in Named \ {"snarfing"}
        BY <1>1 DEF OpenSocket, RequestEvent, WrapUniqueID, NextUniqueID, Register,
                    WritePipe, RemoveEvent, CleanupUnwatched, Named, Steps
    <2> QED BY <2>1, <2>2, <1>s
<1>2. ASSUME NEW c \in Contexts, ModWatch(c) PROVE ArmedStep'
    <2>1. /\ step' = [step EXCEPT ![c] = "write pipe"]
          /\ armed' = [armed EXCEPT ![c] = fTheMask[c]]
        BY <1>2 DEF ModWatch, Step
    <2> QED BY <2>1, <1>t DEF ArmedStep, Named
<1>3. ASSUME NEW c \in Contexts, CleanupUnRegister(c) PROVE ArmedStep'
    <2>1. /\ step' = [step EXCEPT ![c] = "removing"]
          /\ armed' = [armed EXCEPT ![c] = {}]
        BY <1>3 DEF CleanupUnRegister, Step
    <2> QED BY <2>1, <1>t DEF ArmedStep, Named
<1>4. ASSUME NEW c \in Contexts, NEW from \in Contexts, SnarfEventContext(c, from)
      PROVE  ArmedStep'
    <2>1. /\ step[c] = "unborn"
          /\ step' = [step EXCEPT ![c] = "snarfing", ![from] = "snarfed"]
          /\ armed' = [armed EXCEPT ![from] = {}]
        BY <1>4 DEF SnarfEventContext
    <2> QED BY <2>1, <1>t DEF ArmedStep, Named
<1>5. ASSUME NEW c \in Contexts, SnarfUnRegister(c) PROVE ArmedStep'
    <2>1. /\ step[c] = "snarfing" /\ snarfed[c] \in Contexts /\ step[snarfed[c]] = "snarfed"
          /\ step' = [step EXCEPT ![c] = "watching", ![snarfed[c]] = "closed"]
          /\ UNCHANGED armed
        BY <1>5, <1>t DEF SnarfUnRegister, Leads, Basic, Snarfing, ContextTypes
    <2> QED BY <2>1, <1>t DEF ArmedStep, Named
<1>6. CASE OutsideStep
    <2>1. UNCHANGED step /\ (UNCHANGED armed \/ ProcessEvent)
        BY <1>6, OutsideLeaves DEF contextVars
    <2>2. CASE ProcessEvent
        BY <2>1, <2>2, <1>t DEF ProcessEvent, ArmedStep
    <2> QED BY <2>1, <2>2, <1>t DEF ArmedStep
<1> QED BY <1>1, <1>2, <1>3, <1>4, <1>5, <1>6 DEF Next, ContextStep, OutsideStep

WatchedFor(c) ==
    /\ {fFileDesc[c]} \X armed[c] \subseteq watched
    /\ sCookieArray[fFileDesc[c]] = fUniqueID[c]
    /\ fFileDesc[c] <= sMaxFDPos

\* ArmedIsWatched of one context, which has its socket and its place in the table.
LEMMA ArmedOne ==
    ASSUME Leads, NEW c \in Contexts, armed[c] # {}
    PROVE  /\ EventUnderWay(c) \/ WatchedFor(c)
           /\ fFileDesc[c] \in FDs /\ fUniqueID[c] # 0 /\ c \in fRefTable
           /\ step[c] \in Named \ {"snarfing"}
           /\ \A d \in Contexts \ {c} : fFileDesc[d] # fFileDesc[c]
           /\ \A d \in Contexts \ {c} : fFileDesc[d] # None => fUniqueID[d] # fUniqueID[c]
<1>t. /\ ContextTypes /\ Owners /\ OneOwnerPerFD /\ IDsAreFresh /\ IDsAreUnique
      /\ ArmedStep /\ ArmedIsWatched
    BY TypesByPart DEF Leads, Basic
<1>1. step[c] \in Named \ {"snarfing"}
    BY <1>t DEF ArmedStep
<1>2. fFileDesc[c] # None /\ fFileDesc[c] \in FDs
    BY <1>1, <1>t DEF Owners, HasFD, ContextTypes
<1>3. fUniqueID[c] # 0 /\ c \in fRefTable
    BY <1>1, <1>t DEF IDsAreFresh, HasFD, NoID, Named
<1>4. EventUnderWay(c) \/ WatchedFor(c)
    BY <1>t DEF ArmedIsWatched, WatchedFor
<1> QED BY <1>1, <1>2, <1>3, <1>4, <1>t DEF OneOwnerPerFD, IDsAreUnique

LEMMA ArmedIsWatchedStep ==
    ASSUME Leads, IDsLast, [Next]_vars
    PROVE  ArmedIsWatched'
<1>t. /\ ContextTypes /\ MaskTypes /\ ThreadTypes /\ IDsAreFresh /\ Told /\ ArmedStep
      /\ None \notin Contexts
    BY TypesByPart, ConstantsAssumption DEF Leads, Basic
<1>u. /\ step \in [Contexts -> Steps] /\ armed \in [Contexts -> SUBSET Kinds]
      /\ fFileDesc \in [Contexts -> FDs \cup {None}] /\ fUniqueID \in [Contexts -> Nat]
      /\ sCookieArray \in [FDs -> Nat] /\ sMaxFDPos \in FDs \cup {0}
    BY <1>t DEF ContextTypes, MaskTypes
<1> USE DEF maskVars, threadVars, kernelVars, scanVars
\* The event of a context and its place in the sets, each on its own.
<1>e. ASSUME NEW d \in Contexts, EventUnderWay(d), UNCHANGED <<thread, req, resolved>>,
             d \in fRefTable => d \in fRefTable',
             fUniqueID'[d] = fUniqueID[d]
      PROVE  EventUnderWay(d)'
    BY <1>e DEF EventUnderWay
<1>w. ASSUME NEW d \in Contexts, WatchedFor(d), fFileDesc[d] \in FDs,
             armed'[d] = armed[d], fFileDesc'[d] = fFileDesc[d], fUniqueID'[d] = fUniqueID[d],
             {fFileDesc[d]} \X armed[d] \subseteq watched',
             sCookieArray'[fFileDesc[d]] = sCookieArray[fFileDesc[d]],
             fFileDesc[d] <= sMaxFDPos'
      PROVE  WatchedFor(d)'
    BY <1>w DEF WatchedFor
<1>d. (\A d \in Contexts : armed'[d] # {} => EventUnderWay(d)' \/ WatchedFor(d)') => ArmedIsWatched'
    BY DEF ArmedIsWatched, WatchedFor
\* A context that does not move, while the event thread and the sets do not change.
<1>k. ASSUME NEW c \in Contexts,
             \A d \in Contexts \ {c} : /\ armed'[d] \in {armed[d], {}}
                                       /\ fFileDesc'[d] = fFileDesc[d]
                                       /\ fUniqueID'[d] = fUniqueID[d]
                                       /\ armed'[d] # {} /\ d \in fRefTable => d \in fRefTable',
             armed'[c] = {} \/ /\ armed'[c] = armed[c]
                               /\ fFileDesc'[c] = fFileDesc[c]
                               /\ fUniqueID'[c] = fUniqueID[c]
                               /\ c \in fRefTable => c \in fRefTable',
             UNCHANGED <<thread, req, resolved, watched, sCookieArray, sMaxFDPos>>
      PROVE  ArmedIsWatched'
    <2> SUFFICES ASSUME NEW d \in Contexts, armed'[d] # {}
                 PROVE  EventUnderWay(d)' \/ WatchedFor(d)'
        BY <1>d
    <2>1. /\ armed'[d] = armed[d] /\ fFileDesc'[d] = fFileDesc[d] /\ fUniqueID'[d] = fUniqueID[d]
          /\ d \in fRefTable => d \in fRefTable'
        BY <1>k
    <2>2. fFileDesc[d] \in FDs /\ (EventUnderWay(d) \/ WatchedFor(d))
        BY <2>1, ArmedOne
    <2>3. CASE EventUnderWay(d)
        BY <2>1, <2>3, <1>k, <1>e
    <2>4. CASE WatchedFor(d)
        <3>1. {fFileDesc[d]} \X armed[d] \subseteq watched' /\ fFileDesc[d] <= sMaxFDPos'
            BY <2>4, <1>k DEF WatchedFor
        <3> QED BY <2>1, <2>2, <2>4, <3>1, <1>k, <1>w
    <2> QED BY <2>2, <2>3, <2>4
<1>1. ASSUME NEW c \in Contexts,
             \/ \E fd \in FDs : OpenSocket(c, fd)
             \/ NextUniqueID(c) \/ CleanupUnwatched(c) \/ CleanupUnRegister(c)
      PROVE  ArmedIsWatched'
    <2>1. armed'[c] = {}
        <3>1. CASE CleanupUnRegister(c)
            BY <3>1, <1>u DEF CleanupUnRegister
        <3>2. CASE ~ CleanupUnRegister(c)
            <4>1. UNCHANGED armed /\ step[c] \in NoID
                BY <1>1, <3>2 DEF OpenSocket, NextUniqueID, CleanupUnwatched, Step, NoID
            <4> QED BY <4>1, <1>t DEF ArmedStep, NoID, Named
        <3> QED BY <3>1, <3>2
    <2>2. /\ \A d \in Contexts \ {c} : /\ armed'[d] = armed[d]
                                       /\ fFileDesc'[d] = fFileDesc[d]
                                       /\ fUniqueID'[d] = fUniqueID[d]
                                       /\ d \in fRefTable => d \in fRefTable'
          /\ UNCHANGED <<thread, req, resolved, watched, sCookieArray, sMaxFDPos>>
        BY <1>1, <1>u DEF OpenSocket, NextUniqueID, CleanupUnwatched, CleanupUnRegister
    <2> QED BY <2>1, <2>2, <1>k
<1>2. ASSUME NEW c \in Contexts,
             \/ \E mask : RequestEvent(c, mask)
             \/ WrapUniqueID(c) \/ Register(c) \/ WritePipe(c) \/ SnarfUnRegister(c)
      PROVE  ArmedIsWatched'
    <2>1. /\ UNCHANGED <<armed, fFileDesc, fUniqueID>>
          /\ fRefTable \subseteq fRefTable'
          /\ UNCHANGED <<thread, req, resolved, watched, sCookieArray, sMaxFDPos>>
        BY <1>2 DEF RequestEvent, WrapUniqueID, IDsLast, Register, WritePipe, SnarfUnRegister
    <2> QED BY <2>1, <1>k
<1>3. ASSUME NEW c \in Contexts, NEW from \in Contexts, SnarfEventContext(c, from)
      PROVE  ArmedIsWatched'
    <2>1. /\ step[c] = "unborn" /\ step[from] = "watching"
          /\ fFileDesc' = [fFileDesc EXCEPT ![c] = fFileDesc[from], ![from] = None]
          /\ fUniqueID' = [fUniqueID EXCEPT ![c] = fUniqueID[from]]
          /\ armed' = [armed EXCEPT ![from] = {}]
          /\ fRefTable \ {from} \subseteq fRefTable'
          /\ UNCHANGED <<thread, req, resolved, watched, sCookieArray, sMaxFDPos>>
        BY <1>3 DEF SnarfEventContext
    <2>2. armed[c] = {}
        BY <2>1, <1>t DEF ArmedStep, Named
    <2> SUFFICES ASSUME NEW d \in Contexts, armed'[d] # {}
                 PROVE  EventUnderWay(d)' \/ WatchedFor(d)'
        BY <1>d
    <2>3. /\ d # c /\ d # from
          /\ armed'[d] = armed[d] /\ fFileDesc'[d] = fFileDesc[d] /\ fUniqueID'[d] = fUniqueID[d]
          /\ d \in fRefTable => d \in fRefTable'
        BY <2>1, <2>2, <1>u
    <2>4. fFileDesc[d] \in FDs /\ (EventUnderWay(d) \/ WatchedFor(d))
        BY <2>3, ArmedOne
    <2>5. CASE EventUnderWay(d)
        BY <2>1, <2>3, <2>5, <1>e
    <2>6. CASE WatchedFor(d)
        <3>1. {fFileDesc[d]} \X armed[d] \subseteq watched' /\ fFileDesc[d] <= sMaxFDPos'
            BY <2>1, <2>6 DEF WatchedFor
        <3> QED BY <2>1, <2>3, <2>4, <2>6, <3>1, <1>w
    <2> QED BY <2>4, <2>5, <2>6
<1>4. ASSUME NEW c \in Contexts, ModWatch(c) PROVE ArmedIsWatched'
    <2> DEFINE fd == fFileDesc[c]
    <2>1. /\ step[c] = "modwatch"
          /\ watched' = (watched \ Of(fd)) \cup ({fd} \X fTheMask[c])
          /\ sMaxFDPos' = HighestFD(fd)
          /\ sCookieArray' = [sCookieArray EXCEPT ![fd] = fUniqueID[c]]
          /\ armed' = [armed EXCEPT ![c] = fTheMask[c]]
          /\ UNCHANGED <<fFileDesc, fUniqueID, fRefTable, thread, req, resolved>>
        BY <1>4 DEF ModWatch, Step
    <2>2. fd \in FDs
        BY <2>1, <1>u DEF Leads, Basic, Owners, HasFD, NoID, Named
    <2>3. sMaxFDPos' \in FDs /\ fd <= sMaxFDPos' /\ sMaxFDPos <= sMaxFDPos'
        BY <2>1, <2>2, <1>t, HighestOfTwo
    <2> SUFFICES ASSUME NEW d \in Contexts, armed'[d] # {}
                 PROVE  EventUnderWay(d)' \/ WatchedFor(d)'
        BY <1>d
    <2>4. CASE d = c
        <3>1. {fd} \X armed'[c] \subseteq watched' /\ sCookieArray'[fd] = fUniqueID[c]
            BY <2>1, <2>2, <1>u
        <3> QED BY <2>1, <2>3, <2>4, <3>1 DEF WatchedFor
    <2>5. CASE d # c
        <3>1. armed'[d] = armed[d] /\ armed[d] # {}
            BY <2>1, <2>5, <1>u
        <3>2. /\ fFileDesc[d] \in FDs /\ fFileDesc[d] # fd
              /\ EventUnderWay(d) \/ WatchedFor(d)
            BY <3>1, <2>5, ArmedOne
        <3>3. CASE EventUnderWay(d)
            BY <2>1, <3>3, <1>e
        <3>4. CASE WatchedFor(d)
            <4>1. {fFileDesc[d]} \X armed[d] \subseteq watched'
                BY <2>1, <3>2, <3>4 DEF WatchedFor, Of
            <4>2. fFileDesc[d] <= sMaxFDPos'
                <5>1. fFileDesc[d] <= sMaxFDPos
                    BY <3>4 DEF WatchedFor
                <5> QED BY <5>1, <3>2, <2>3, <1>u DEF FDs
            <4>3. sCookieArray'[fFileDesc[d]] = sCookieArray[fFileDesc[d]]
                BY <2>1, <3>2, <1>u
            <4> QED BY <2>1, <3>1, <3>2, <3>4, <4>1, <4>2, <4>3, <1>w
        <3> QED BY <3>2, <3>3, <3>4
    <2> QED BY <2>4, <2>5
<1>5. ASSUME NEW c \in Contexts, RemoveEvent(c) PROVE ArmedIsWatched'
    <2> DEFINE fd == fFileDesc[c]
    <2>1. /\ step[c] = "removing"
          /\ watched' = watched \ Of(fd)
          /\ sCookieArray' = [sCookieArray EXCEPT ![fd] = 0]
          /\ sMaxFDPos' = sMaxFDPos \/ sMaxFDPos' = Highest(watched')
          /\ fFileDesc' = [fFileDesc EXCEPT ![c] = None]
          /\ UNCHANGED <<armed, fUniqueID, fRefTable, thread, req, resolved>>
        BY <1>5 DEF RemoveEvent, Step
    <2>2. \A w \in watched' : w[1] <= Highest(watched')
        BY <2>1, <1>t, HighestIsADescriptor DEF MaskTypes
    <2> SUFFICES ASSUME NEW d \in Contexts, armed'[d] # {}
                 PROVE  EventUnderWay(d)' \/ WatchedFor(d)'
        BY <1>d
    <2>3. armed[d] # {} /\ d # c /\ fFileDesc'[d] = fFileDesc[d]
        BY <2>1, <1>t, <1>u DEF ArmedStep, Named
    <2>4. /\ fFileDesc[d] \in FDs /\ fFileDesc[d] # fd
          /\ EventUnderWay(d) \/ WatchedFor(d)
        BY <2>3, ArmedOne
    <2>5. CASE EventUnderWay(d)
        BY <2>1, <2>5, <1>e
    <2>6. CASE WatchedFor(d)
        <3>1. {fFileDesc[d]} \X armed[d] \subseteq watched'
            BY <2>1, <2>4, <2>6 DEF WatchedFor, Of
        <3>2. fFileDesc[d] <= Highest(watched')
            <4>1. PICK kind \in armed[d] : TRUE
                BY <2>3
            <4>2. <<fFileDesc[d], kind>> \in watched'
                BY <3>1
            <4> QED BY <2>2, <4>2
        <3>3. fFileDesc[d] <= sMaxFDPos'
            BY <2>1, <3>2, <2>6 DEF WatchedFor
        <3>4. sCookieArray'[fFileDesc[d]] = sCookieArray[fFileDesc[d]]
            BY <2>1, <2>4, <1>u
        <3> QED BY <2>1, <2>3, <2>4, <2>6, <3>1, <3>3, <3>4, <1>w
    <2> QED BY <2>4, <2>5, <2>6
<1>6. CASE OutsideStep
    <2>1. UNCHANGED <<fFileDesc, fUniqueID, fRefTable, sCookieArray, sMaxFDPos>>
        BY <1>6, OutsideLeaves DEF contextVars
    <2>2. UNCHANGED armed \/ ProcessEvent
        BY <1>6, OutsideLeaves
    \* What becomes of a context that is watched and stays so.
    <2>w. ASSUME NEW d \in Contexts, armed[d] # {}, armed'[d] = armed[d],
                 WatchedFor(d), {fFileDesc[d]} \X armed[d] \subseteq watched'
          PROVE  WatchedFor(d)'
        <3>1. fFileDesc[d] \in FDs /\ fFileDesc[d] <= sMaxFDPos'
            BY <2>w, <2>1, ArmedOne DEF WatchedFor
        <3> QED BY <2>1, <2>w, <3>1, <1>w
    <2> SUFFICES ASSUME NEW d \in Contexts, armed'[d] # {}
                 PROVE  EventUnderWay(d)' \/ WatchedFor(d)'
        BY <1>d
    <2>3. armed[d] # {} /\ armed'[d] = armed[d]
        BY <2>2, <1>u DEF ProcessEvent
    <2>4. /\ EventUnderWay(d) \/ WatchedFor(d)
          /\ fFileDesc[d] \in FDs /\ d \in fRefTable
          /\ \A x \in fRefTable : fUniqueID[x] = fUniqueID[d] => x = d
        <3>1. \A x \in fRefTable : x \in Contexts /\ fFileDesc[x] # None
            BY <1>t DEF IDsAreFresh, Leads, Basic, Owners, HasFD
        <3> QED BY <2>3, <3>1, ArmedOne
    <2>5. CASE UNCHANGED <<thread, req, resolved, watched>>
        <3>1. CASE EventUnderWay(d)
            BY <2>1, <2>5, <3>1, <1>e
        <3>2. CASE WatchedFor(d)
            BY <2>3, <2>5, <2>w, <3>2 DEF WatchedFor
        <3> QED BY <2>4, <3>1, <3>2
    <2>6. CASE {thread, thread'} \cap {"event", "process"} = {} /\ UNCHANGED <<req, resolved, watched>>
        <3>1. WatchedFor(d)
            BY <2>4, <2>6 DEF EventUnderWay
        <3> QED BY <2>3, <2>6, <2>w, <3>1 DEF WatchedFor
    <2>7. ASSUME NEW kind \in Kinds, ConstructEventReq(kind)
          PROVE  EventUnderWay(d)' \/ WatchedFor(d)'
        <3>1. PICK fd \in FDs :
                  /\ thread = "scan" /\ thread' = "event"
                  /\ req' = [fd |-> fd, cookie |-> sCookieArray[fd]]
                  /\ watched' = watched \ Of(fd)
            BY <2>7, EventConstructed
        <3>2. WatchedFor(d)
            BY <2>4, <3>1 DEF EventUnderWay
        <3>3. CASE fFileDesc[d] = fd
            <4>1. req'.cookie = fUniqueID[d]
                BY <3>1, <3>2, <3>3 DEF WatchedFor
            <4> QED BY <2>1, <2>4, <3>1, <4>1 DEF EventUnderWay
        <3>4. CASE fFileDesc[d] # fd
            <4>1. {fFileDesc[d]} \X armed[d] \subseteq watched'
                BY <3>1, <3>2, <3>4 DEF WatchedFor, Of
            <4> QED BY <2>3, <2>w, <3>2, <4>1
        <3> QED BY <3>3, <3>4
    <2>8. CASE ResolveEvent
        <3>1. thread = "event" /\ UNCHANGED <<req, watched>>
            BY <2>8 DEF ResolveEvent
        <3>2. CASE WatchedFor(d)
            BY <2>3, <2>w, <3>1, <3>2 DEF WatchedFor
        <3>3. CASE EventUnderWay(d)
            <4>1. req.cookie = fUniqueID[d]
                BY <3>1, <3>3 DEF EventUnderWay
            <4>2. resolved' = d /\ thread' = "process"
                BY <2>4, <2>8, <4>1 DEF ResolveEvent
            <4> QED BY <4>2 DEF EventUnderWay
        <3> QED BY <2>4, <3>2, <3>3
    <2>9. CASE ProcessEvent
        <3>1. thread = "process" /\ UNCHANGED watched /\ armed' = [armed EXCEPT ![resolved] = {}]
            BY <2>9 DEF ProcessEvent, Goto
        <3>2. resolved # d
            BY <2>3, <3>1, <1>u
        <3>3. WatchedFor(d)
            BY <2>4, <3>1, <3>2 DEF EventUnderWay
        <3> QED BY <2>3, <2>w, <3>1, <3>3 DEF WatchedFor
    <2> QED BY <1>6, <2>5, <2>6, <2>7, <2>8, <2>9, OutsideEvents
<1> QED BY <1>1, <1>2, <1>3, <1>4, <1>5, <1>6 DEF Next, ContextStep, OutsideStep

LEMMA LeadsInvariant == Spec /\ []IDsLast => []Leads
<1>1. Leads /\ IDsLast /\ [Next]_vars => Leads'
    <2> SUFFICES ASSUME Leads, IDsLast, [Next]_vars PROVE Leads'
        OBVIOUS
    <2>1. Basic'
        BY TypeStep, OwnersStep, SnarfingStep, NothingCountedStep DEF Basic, Leads
    <2> QED BY <2>1, FreshStep, UniqueStep, ToldStep, ArmedStepStep, ArmedIsWatchedStep DEF Leads
<1> QED BY <1>1, LeadsInit, PTL DEF Spec

\* Until the ten millionth ID is given out no two contexts with a socket have the
\* same, though the comparison with the limit and the addition are two steps
\* (EventContext.cpp:188).
THEOREM NoIDIsGivenTwice == Spec /\ []IDsLast => []IDsAreUnique
<1>1. Leads => IDsAreUnique
    BY DEF Leads
<1> QED BY <1>1, LeadsInvariant, PTL

\* Until then no context goes deaf: what it asked for is watched, under its own cookie
\* and below sMaxFDPos, or the event is on its way (ev.cpp:115-326).
THEOREM NoContextGoesDeaf == Spec /\ []IDsLast => []ArmedIsWatched
<1>1. Leads => ArmedIsWatched
    BY DEF Leads
<1> QED BY <1>1, LeadsInvariant, PTL

\* Until then the context that is told of an event is there and owns, or has just
\* handed over, the descriptor it came from (EventContext.cpp:250-265).
THEOREM OwnerIsTold == Spec /\ []IDsLast => []EventReachesOwner
<1>1. Leads => EventReachesOwner
    BY DEF Leads, Told, EventReachesOwner, Named
<1> QED BY <1>1, LeadsInvariant, PTL
=============================================================================
