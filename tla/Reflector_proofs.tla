--------------------------- MODULE Reflector_proofs ---------------------------
(***************************************************************************)
(* Theorems about the reflector: ReflectorSessions, the life of a session, *)
(* and ReflectorSender, how the packets of one stream are passed on.       *)
(*                                                                         *)
(* ReflectorSessions is for any sessions, broadcasters, players and        *)
(* streams, and for clients that come and go in any order.  The two        *)
(* invariants are inductive together: a session that is not overdrawn has  *)
(* a reference for every player and for all that broadcasters have taken,  *)
(* so the last reference goes when nobody is there.                        *)
(*                                                                         *)
(* ReflectorSender is for any outputs, packets, ages and places for        *)
(* bookmarks, with the inductive invariant Inv.  An output whose bookmark  *)
(* was not removed while it paused has one bookmark at most, and that one  *)
(* is in the queue; while packets are reflected it is marked as needed as  *)
(* soon as the output was served, which is what RemoveOldPackets goes by.  *)
(* What was sent to an output comes first in the queue, what is due to it  *)
(* comes from the bookmark on.                                             *)
(***************************************************************************)
EXTENDS ReflectorSessions, ReflectorSender, SequenceTheorems, FiniteSetTheorems, TLAPS

-----------------------------------------------------------------------------
(* The sessions. *)

Users(s) == OutputsOf(s) \cup HeldIn(s)

Covered == TypeOK /\ SessionOutlivesUsers /\ ReferencesCoverUsers

\* The numbers in the invariant are numbers.
LEMMA Numbers ==
    ASSUME TypeOK
    PROVE  /\ NumStreams \in Nat /\ NumStreams > 0
           /\ \A s \in Sessions :
                  /\ IsFiniteSet(OutputsOf(s)) /\ IsFiniteSet(HeldIn(s))
                  /\ Cardinality(OutputsOf(s)) \in Nat /\ Cardinality(HeldIn(s)) \in Nat
                  /\ Cardinality(OutputsOf(s)) = 0 <=> OutputsOf(s) = {}
                  /\ Cardinality(HeldIn(s)) = 0 <=> HeldIn(s) = {}
                  /\ fRefCount[s] \in Nat
<1>1. NumStreams \in Nat /\ NumStreams > 0
    BY ConstantsAssumption, FS_CardinalityType, FS_EmptySet DEF NumStreams
<1>2. IsFiniteSet(Streams \cup {"PLAY"})
    BY ConstantsAssumption, FS_AddElement
<1>3. IsFiniteSet(Broadcasters \X (Streams \cup {"PLAY"}))
    BY <1>2, ConstantsAssumption, FS_Product
<1>4. IsFiniteSet(held)
    BY <1>3, FS_Subset DEF TypeOK
<1>5. ASSUME NEW s \in Sessions
      PROVE  IsFiniteSet(OutputsOf(s)) /\ IsFiniteSet(HeldIn(s))
  <2>1. OutputsOf(s) \subseteq Players /\ HeldIn(s) \subseteq held
      BY DEF OutputsOf, HeldIn
  <2> QED BY <2>1, <1>4, ConstantsAssumption, FS_Subset
<1> QED BY <1>1, <1>5, FS_CardinalityType, FS_EmptySet DEF TypeOK

\* Steps are about one session s: the registered one, or the new one.  Nobody comes
\* to the others, which have no users then.
LEMMA StillCovered ==
    ASSUME Covered, TypeOK', NEW s \in Sessions,
           sSessionMap \in {s, None}, sSessionMap' \in {s, None},
           \A t \in Sessions \ {s} :
               (t \notin overdrawn' => t \notin overdrawn) /\ Users(t)' \subseteq Users(t),
           s \notin overdrawn' =>
               IF sSessionMap' = s
               THEN fRefCount'[s] >= Cardinality(OutputsOf(s)') + Cardinality(HeldIn(s)')
               ELSE Users(s)' = {}
    PROVE  Covered'
<1>1. ASSUME NEW t \in Sessions \ overdrawn', OutputsOf(t)' \cup HeldIn(t)' # {}
      PROVE  sSessionMap' = t
  <2>1. CASE t = s
      BY <1>1, <2>1 DEF Users
  <2>2. CASE t # s
    <3>1. t \in Sessions \ overdrawn /\ OutputsOf(t) \cup HeldIn(t) # {}
        BY <1>1, <2>2 DEF Users
    <3>2. sSessionMap = t
        BY <3>1 DEF Covered, SessionOutlivesUsers
    <3> QED BY <2>2, <3>2, ConstantsAssumption
  <2> QED BY <2>1, <2>2
<1>2. SessionOutlivesUsers'
    BY <1>1 DEF SessionOutlivesUsers
<1>3. ReferencesCoverUsers'
    BY ConstantsAssumption DEF ReferencesCoverUsers
<1> QED BY <1>2, <1>3 DEF Covered

\* RemoveOutput leaves what the others hold.
LEMMA ReleaseCovered ==
    ASSUME Covered, TypeOK', NEW s \in Sessions, NEW count \in Nat, NEW released \in Nat,
           s = sSessionMap, RemoveReferences(s, count, released),
           \A t \in Sessions \ {s} :
               (t \notin overdrawn' => t \notin overdrawn) /\ Users(t)' \subseteq Users(t),
           IsFiniteSet(OutputsOf(s)'), IsFiniteSet(HeldIn(s)'),
           s \notin overdrawn' =>
               LeftOf(count, released) >= Cardinality(OutputsOf(s)') + Cardinality(HeldIn(s)')
    PROVE  Covered'
<1>1. fRefCount'[s] = LeftOf(count, released)
    BY DEF RemoveReferences, Covered, TypeOK
<1>2. sSessionMap' = IF LeftOf(count, released) = 0 THEN None ELSE s
    BY DEF RemoveReferences
<1>3. /\ Cardinality(OutputsOf(s)') \in Nat /\ Cardinality(HeldIn(s)') \in Nat
      /\ Cardinality(OutputsOf(s)') = 0 <=> OutputsOf(s)' = {}
      /\ Cardinality(HeldIn(s)') = 0 <=> HeldIn(s)' = {}
    BY FS_CardinalityType, FS_EmptySet
<1>4. CASE LeftOf(count, released) = 0
  <2>1. sSessionMap' = None /\ None # s
      BY <1>2, <1>4, ConstantsAssumption
  <2>2. s \notin overdrawn' => OutputsOf(s)' = {} /\ HeldIn(s)' = {}
      BY <1>3, <1>4
  <2>3. s \notin overdrawn' => Users(s)' = {}
      BY <2>2 DEF Users
  <2> QED BY <2>1, <2>3, StillCovered
<1>5. CASE LeftOf(count, released) # 0
  <2>1. sSessionMap' = s
      BY <1>2, <1>5
  <2> QED BY <2>1, <1>1, StillCovered
<1> QED BY <1>4, <1>5

\* What the references held become when a broadcaster stays, leaves and arrives.
LEMMA Stays ==
    ASSUME UNCHANGED <<sClientBroadcastSessionAttr, held>>, NEW s
    PROVE  HeldIn(s)' = HeldIn(s)
BY DEF HeldIn

LEMMA Leaves ==
    ASSUME TypeOK, NEW b \in Broadcasters, Goes(b, None), held' = held \ HeldBy(b),
           NEW s \in Sessions
    PROVE  HeldIn(s)' = HeldIn(s) \ HeldBy(b)
<1>1. \A h \in held \ HeldBy(b) :
          sClientBroadcastSessionAttr'[h[1]] = sClientBroadcastSessionAttr[h[1]]
    BY DEF TypeOK, Goes, HeldBy
<1> QED BY <1>1 DEF HeldIn

LEMMA Arrives ==
    ASSUME TypeOK, NEW b \in Broadcasters, NEW s \in Sessions, NEW taken,
           Goes(b, s), Holds(b, s, taken)
    PROVE  /\ HeldIn(s)' \subseteq HeldIn(s) \cup {<<b, x>> : x \in taken}
           /\ \A t \in Sessions \ {s} : HeldIn(t)' \subseteq HeldIn(t)
<1>1. \A h \in held : h[1] \in Broadcasters
    BY DEF TypeOK
<1>2. sClientBroadcastSessionAttr' = [sClientBroadcastSessionAttr EXCEPT ![b] = s]
    BY DEF Goes
<1>3. ASSUME NEW h \in held', NEW t \in Sessions, sClientBroadcastSessionAttr'[h[1]] = t
      PROVE  h \in HeldIn(t) \/ (t = s /\ h \in {<<b, x>> : x \in taken})
  <2>1. CASE h \in {<<b, x>> : x \in taken}
      BY <1>2, <1>3, <2>1 DEF TypeOK
  <2>2. CASE h \notin {<<b, x>> : x \in taken}
    <3>1. h \in held /\ (h \in HeldBy(b) => sClientBroadcastSessionAttr[b] = s)
        BY <1>3, <2>2 DEF Holds
    <3>2. CASE h[1] = b
      <4>1. sClientBroadcastSessionAttr[b] = s /\ sClientBroadcastSessionAttr'[b] = s
          BY <1>2, <3>1, <3>2 DEF HeldBy, TypeOK
      <4> QED BY <1>3, <3>1, <3>2, <4>1 DEF HeldIn
    <3>3. CASE h[1] # b
      <4>1. sClientBroadcastSessionAttr'[h[1]] = sClientBroadcastSessionAttr[h[1]]
          BY <1>1, <1>2, <3>1, <3>3 DEF TypeOK
      <4> QED BY <1>3, <3>1, <4>1 DEF HeldIn
    <3> QED BY <3>2, <3>3
  <2> QED BY <2>1, <2>2
<1>4. \A t \in Sessions : \A h \in HeldIn(t)' :
          h \in held' /\ sClientBroadcastSessionAttr'[h[1]] = t
    BY DEF HeldIn
<1> QED BY <1>3, <1>4

\* One reference more or less in a set of them is one more or less to count.
LEMMA AtMostOneMore ==
    ASSUME NEW S, IsFiniteSet(S), NEW x, NEW T, T \subseteq S \cup {x}
    PROVE  /\ IsFiniteSet(T) /\ Cardinality(T) \in Nat
           /\ Cardinality(T) <= Cardinality(S) + 1
<1>0. Cardinality(S) \in Nat
    BY FS_CardinalityType
<1>1. IsFiniteSet(S \cup {x}) /\ Cardinality(S \cup {x}) <= Cardinality(S) + 1
  <2>1. /\ IsFiniteSet(S \cup {x})
        /\ Cardinality(S \cup {x}) = IF x \in S THEN Cardinality(S) ELSE Cardinality(S) + 1
      BY FS_AddElement
  <2> QED BY <1>0, <2>1
<1>2. IsFiniteSet(T) /\ Cardinality(T) <= Cardinality(S \cup {x})
    BY <1>1, FS_Subset
<1>3. Cardinality(T) \in Nat /\ Cardinality(S \cup {x}) \in Nat
    BY <1>1, <1>2, FS_CardinalityType
<1> QED BY <1>0, <1>1, <1>2, <1>3

LEMMA InitCovered == Init => Covered
<1> SUFFICES ASSUME Init PROVE Covered
    OBVIOUS
<1>1. TypeOK
    BY DEF Init, TypeOK
<1> QED
    BY <1>1, ConstantsAssumption
    DEF Init, Covered, SessionOutlivesUsers, ReferencesCoverUsers, OutputsOf, HeldIn

-----------------------------------------------------------------------------
(* Players. *)

\* A new session has no users.
LEMMA NobodyYet ==
    ASSUME Covered, NEW s \in Sessions, OutputsOf(s) = {}, BroadcastersOf(s) = {}
    PROVE  HeldIn(s) = {}
BY DEF Covered, TypeOK, BroadcastersOf, HeldIn

\* A reference more for nobody.
LEMMA ResolveCovered ==
    ASSUME Covered, Resolve(sSessionMap), UNCHANGED sOutputAttr,
           TypeOK', \A t \in Sessions : HeldIn(t)' \subseteq HeldIn(t)
    PROVE  Covered'
<1>1. PICK s \in Sessions : s = sSessionMap /\ sSessionMap' = s
    BY DEF Resolve, Covered, TypeOK
<1>2. fRefCount'[s] = fRefCount[s] + 1 /\ overdrawn' = overdrawn
    BY <1>1 DEF Resolve, Covered, TypeOK
<1>3. \A t \in Sessions : OutputsOf(t)' = OutputsOf(t)
    BY DEF OutputsOf
<1>4. s \notin overdrawn =>
          fRefCount[s] >= Cardinality(OutputsOf(s)) + Cardinality(HeldIn(s))
    BY <1>1 DEF Covered, ReferencesCoverUsers
<1>5. Cardinality(HeldIn(s)') \in Nat /\ Cardinality(HeldIn(s)') <= Cardinality(HeldIn(s))
    BY Numbers, FS_Subset, FS_CardinalityType DEF Covered
<1>6. s \notin overdrawn' =>
          fRefCount'[s] >= Cardinality(OutputsOf(s)') + Cardinality(HeldIn(s)')
    BY <1>2, <1>3, <1>4, <1>5, Numbers DEF Covered
<1>7. \A t \in Sessions : Users(t)' \subseteq Users(t)
    BY <1>3 DEF Users
<1> QED BY <1>1, <1>2, <1>6, <1>7, StillCovered

LEMMA DescribeCovered ==
    ASSUME Covered, NEW p \in Players, Describe(p)
    PROVE  Covered'
<1>1. \A t \in Sessions : OutputsOf(t)' = OutputsOf(t) /\ HeldIn(t)' = HeldIn(t)
    BY Stays DEF Describe, attrs, OutputsOf
<1>2. CASE \E s \in Sessions, kept \in {0, 1} : Create(s, kept)
  <2>1. PICK s \in Sessions, kept \in {0, 1} : Create(s, kept)
      BY <1>2
  <2>2. TypeOK'
      BY <2>1 DEF Describe, attrs, Create, Covered, TypeOK
  <2>3. OutputsOf(s)' = {} /\ HeldIn(s)' = {}
      BY <2>1, <1>1, NobodyYet DEF Create
  <2>4. fRefCount'[s] >= Cardinality(OutputsOf(s)') + Cardinality(HeldIn(s)')
      BY <2>1, <2>3, FS_EmptySet DEF Create, Covered, TypeOK
  <2>5. sSessionMap = None /\ sSessionMap' = s /\ overdrawn' = overdrawn \ {s}
      BY <2>1 DEF Create
  <2>6. \A t \in Sessions : Users(t)' = Users(t)
      BY <1>1 DEF Users
  <2> QED BY <2>2, <2>4, <2>5, <2>6, StillCovered
<1>3. CASE Resolve(sSessionMap)
  <2>1. TypeOK'
      BY <1>3 DEF Describe, attrs, Resolve, Covered, TypeOK
  <2> QED BY <1>1, <1>3, <2>1, ResolveCovered DEF Describe, attrs
<1>4. CASE UNCHANGED <<sSessionMap, fRefCount, fSetupToReceive, overdrawn>>
    BY <1>1, <1>4 DEF Describe, attrs, Covered, TypeOK, SessionOutlivesUsers, ReferencesCoverUsers
<1> QED BY <1>2, <1>3, <1>4 DEF Describe

\* One output less.
LEMMA OneOutputLess ==
    ASSUME Covered, NEW p \in Players, NEW s \in Sessions, NEW none,
           none \notin Sessions, sOutputAttr[p] = s,
           sOutputAttr' = [sOutputAttr EXCEPT ![p] = none]
    PROVE  /\ IsFiniteSet(OutputsOf(s)')
           /\ Cardinality(OutputsOf(s)') = Cardinality(OutputsOf(s)) - 1
           /\ Cardinality(OutputsOf(s)) > 0
           /\ \A t \in Sessions \ {s} : OutputsOf(t)' = OutputsOf(t)
<1>1. OutputsOf(s)' = OutputsOf(s) \ {p} /\ p \in OutputsOf(s)
    BY DEF Covered, TypeOK, OutputsOf
<1>2. \A t \in Sessions \ {s} : OutputsOf(t)' = OutputsOf(t)
    BY DEF Covered, TypeOK, OutputsOf
<1>3. Cardinality(OutputsOf(s)) \in Nat /\ Cardinality(OutputsOf(s)) # 0
    BY <1>1, Numbers DEF Covered
<1>4. /\ IsFiniteSet(OutputsOf(s) \ {p})
      /\ Cardinality(OutputsOf(s) \ {p}) = Cardinality(OutputsOf(s)) - 1
    BY <1>1, Numbers, FS_RemoveElement DEF Covered
<1> QED BY <1>1, <1>2, <1>3, <1>4

LEMMA DescribeAgainCovered ==
    ASSUME Covered, NEW p \in Players, DescribeAgain(p)
    PROVE  Covered'
<1>1. PICK released \in {0, 1} :
          fRefCount' = [fRefCount EXCEPT ![sSessionMap] = @ - released]
    BY DEF DescribeAgain
<1>2. PICK s \in Sessions : s = sSessionMap /\ s = sOutputAttr[p] /\ sSessionMap' = s
    BY DEF DescribeAgain
<1>3. TypeOK'
    BY <1>1, <1>2 DEF DescribeAgain, Covered, TypeOK
<1>4. /\ Cardinality(OutputsOf(s)') = Cardinality(OutputsOf(s)) - 1
      /\ Cardinality(OutputsOf(s)) > 0
      /\ \A t \in Sessions \ {s} : OutputsOf(t)' = OutputsOf(t)
    BY <1>2, ConstantsAssumption, OneOutputLess DEF DescribeAgain
<1>5. \A t \in Sessions : HeldIn(t)' = HeldIn(t)
    BY Stays DEF DescribeAgain
<1>6. s \notin overdrawn =>
          fRefCount[s] >= Cardinality(OutputsOf(s)) + Cardinality(HeldIn(s))
    BY <1>2 DEF Covered, ReferencesCoverUsers
<1>7. fRefCount'[s] = fRefCount[s] - released
    BY <1>1, <1>2 DEF Covered, TypeOK
<1>8. s \notin overdrawn =>
          fRefCount'[s] >= Cardinality(OutputsOf(s)') + Cardinality(HeldIn(s)')
    BY <1>4, <1>5, <1>6, <1>7, Numbers DEF Covered
<1>9. \A t \in Sessions \ {s} : Users(t)' = Users(t)
    BY <1>4, <1>5 DEF Users
<1>10. overdrawn' = overdrawn
    BY DEF DescribeAgain
<1> QED BY <1>2, <1>3, <1>8, <1>9, <1>10, StillCovered

LEMMA SetupCovered ==
    ASSUME Covered, NEW p \in Players, Setup(p)
    PROVE  Covered'
<1>0. \A t \in Sessions : HeldIn(t)' = HeldIn(t)
    BY Stays DEF Setup
<1>1. ASSUME NEW s \in Sessions, sOutputAttr' = [sOutputAttr EXCEPT ![p] = s]
      PROVE  /\ OutputsOf(s)' \subseteq OutputsOf(s) \cup {p}
             /\ \A t \in Sessions \ {s} : Users(t)' \subseteq Users(t)
  <2>1. \A t \in Sessions : OutputsOf(t)' \subseteq OutputsOf(t) \cup {q \in {p} : t = s}
      BY <1>1 DEF Covered, TypeOK, OutputsOf
  <2>2. \A t \in Sessions \ {s} : OutputsOf(t)' \subseteq OutputsOf(t)
      BY <2>1
  <2> QED BY <2>1, <2>2, <1>0 DEF Users
<1>2. CASE \E s \in Sessions : Create(s, 1) /\ sOutputAttr' = [sOutputAttr EXCEPT ![p] = s]
  <2>1. PICK s \in Sessions : Create(s, 1) /\ sOutputAttr' = [sOutputAttr EXCEPT ![p] = s]
      BY <1>2
  <2>2. TypeOK'
      BY <2>1 DEF Setup, Create, Covered, TypeOK
  <2>3. OutputsOf(s) = {} /\ HeldIn(s) = {}
      BY <2>1, NobodyYet DEF Create
  <2>4. Cardinality(HeldIn(s)') = 0
      BY <2>3, <1>0, FS_EmptySet
  <2>5. OutputsOf(s)' \subseteq {} \cup {p} /\ IsFiniteSet({}) /\ Cardinality({}) = 0
      BY <2>1, <2>3, <1>1, FS_EmptySet
  <2>6. Cardinality(OutputsOf(s)') \in Nat /\ Cardinality(OutputsOf(s)') <= 1
      BY <2>5, AtMostOneMore
  <2>7. fRefCount'[s] = 1 /\ sSessionMap = None /\ sSessionMap' = s
        /\ overdrawn' = overdrawn \ {s}
      BY <2>1 DEF Create, Covered, TypeOK
  <2>8. fRefCount'[s] >= Cardinality(OutputsOf(s)') + Cardinality(HeldIn(s)')
      BY <2>4, <2>6, <2>7
  <2> QED BY <1>1, <2>1, <2>2, <2>7, <2>8, StillCovered
<1>3. CASE Resolve(sSessionMap) /\ sOutputAttr' = [sOutputAttr EXCEPT ![p] = sSessionMap]
  <2>1. PICK s \in Sessions : s = sSessionMap /\ sSessionMap' = s
      BY <1>3 DEF Resolve, Covered, TypeOK
  <2>2. TypeOK' /\ fRefCount'[s] = fRefCount[s] + 1 /\ overdrawn' = overdrawn
      BY <1>3, <2>1 DEF Setup, Resolve, Covered, TypeOK
  <2>3. /\ OutputsOf(s)' \subseteq OutputsOf(s) \cup {p}
        /\ \A t \in Sessions \ {s} : Users(t)' \subseteq Users(t)
      BY <1>1, <1>3, <2>1
  <2>4. /\ Cardinality(OutputsOf(s)') \in Nat
        /\ Cardinality(OutputsOf(s)') <= Cardinality(OutputsOf(s)) + 1
      BY <2>3, Numbers, AtMostOneMore DEF Covered
  <2>5. s \notin overdrawn =>
            fRefCount[s] >= Cardinality(OutputsOf(s)) + Cardinality(HeldIn(s))
      BY <2>1 DEF Covered, ReferencesCoverUsers
  <2>6. s \notin overdrawn =>
            fRefCount'[s] >= Cardinality(OutputsOf(s)') + Cardinality(HeldIn(s)')
      BY <1>0, <2>2, <2>4, <2>5, Numbers DEF Covered
  <2> QED BY <2>1, <2>2, <2>3, <2>6, StillCovered
<1>4. CASE Resolve(sSessionMap) /\ UNCHANGED sOutputAttr
  <2>1. TypeOK'
      BY <1>4 DEF Setup, Resolve, Covered, TypeOK
  <2> QED BY <1>0, <1>4, <2>1, ResolveCovered
<1> QED BY <1>2, <1>3, <1>4 DEF Setup

LEMMA DestroyPlayerCovered ==
    ASSUME Covered, NEW p \in Players, DestroyPlayer(p)
    PROVE  Covered'
<1>0. (\A t \in Sessions : HeldIn(t)' = HeldIn(t)) /\ overdrawn' = overdrawn
    BY Stays DEF DestroyPlayer
<1>1. CASE sOutputAttr[p] = Cleared
  <2>1. TypeOK'
      BY <1>1 DEF DestroyPlayer, Covered, TypeOK
  <2>2. \A t \in Sessions : OutputsOf(t)' = OutputsOf(t)
      BY <1>1, ConstantsAssumption DEF DestroyPlayer, OutputsOf, Covered, TypeOK
  <2> QED
      BY <1>0, <1>1, <2>1, <2>2
      DEF DestroyPlayer, Covered, SessionOutlivesUsers, ReferencesCoverUsers
<1>2. CASE sOutputAttr[p] # Cleared
  <2>1. PICK s \in Sessions : s = sSessionMap /\ sOutputAttr[p] = s
      BY <1>2 DEF DestroyPlayer, Covered, TypeOK
  <2>2. RemoveReferences(s, fRefCount[s], 1)
      BY <1>2, <2>1 DEF DestroyPlayer
  <2>3. /\ IsFiniteSet(OutputsOf(s)') /\ IsFiniteSet(HeldIn(s)')
        /\ Cardinality(OutputsOf(s)') = Cardinality(OutputsOf(s)) - 1
        /\ Cardinality(OutputsOf(s)) > 0
        /\ \A t \in Sessions \ {s} : OutputsOf(t)' = OutputsOf(t)
      BY <1>0, <2>1, ConstantsAssumption, OneOutputLess, Numbers DEF DestroyPlayer, Covered
  <2>4. s \notin overdrawn =>
            fRefCount[s] >= Cardinality(OutputsOf(s)) + Cardinality(HeldIn(s))
      BY <2>1 DEF Covered, ReferencesCoverUsers
  <2>5. fRefCount[s] \in Nat /\ LeftOf(fRefCount[s], 1) \in Nat
      BY Numbers DEF Covered, LeftOf
  <2>6. TypeOK'
      BY <2>1, <2>2, <2>5, ConstantsAssumption
      DEF DestroyPlayer, RemoveReferences, Covered, TypeOK
  <2>7. s \notin overdrawn' =>
            LeftOf(fRefCount[s], 1) >= Cardinality(OutputsOf(s)') + Cardinality(HeldIn(s)')
      BY <1>0, <2>3, <2>4, <2>5, Numbers DEF Covered, LeftOf
  <2>8. \A t \in Sessions \ {s} : Users(t)' = Users(t)
      BY <1>0, <2>3 DEF Users
  <2> QED BY <1>0, <2>1, <2>2, <2>3, <2>5, <2>6, <2>7, <2>8, ReleaseCovered
<1> QED BY <1>1, <1>2

-----------------------------------------------------------------------------
(* Broadcasters. *)

LEMMA PushSetupCreatesCovered ==
    ASSUME Covered, NEW b \in Broadcasters, NEW stream \in Streams,
           PushSetupCreates(b, stream)
    PROVE  Covered'
<1>1. PICK s \in Sessions :
          /\ sSessionMap = None /\ sSessionMap' = s
          /\ OutputsOf(s) = {} /\ BroadcastersOf(s) = {}
          /\ fRefCount' = [fRefCount EXCEPT ![s] = 0]
          /\ fSetupToReceive' = [fSetupToReceive EXCEPT ![s] = {stream}]
          /\ Goes(b, s) /\ Holds(b, s, {}) /\ overdrawn' = overdrawn \ {s}
    BY DEF PushSetupCreates
<1>2. TypeOK'
    BY <1>1 DEF PushSetupCreates, Goes, Holds, HeldBy, Covered, TypeOK
<1>3. HeldIn(s) = {}
    BY <1>1, NobodyYet
<1>4. \A t \in Sessions : HeldIn(t)' \subseteq HeldIn(t)
    BY <1>1, Arrives DEF Covered
<1>5. \A t \in Sessions : OutputsOf(t)' = OutputsOf(t)
    BY DEF PushSetupCreates, OutputsOf
<1>6. OutputsOf(s)' = {} /\ HeldIn(s)' = {}
    BY <1>1, <1>3, <1>4, <1>5
<1>7. fRefCount'[s] >= Cardinality(OutputsOf(s)') + Cardinality(HeldIn(s)')
    BY <1>1, <1>6, FS_EmptySet DEF Covered, TypeOK
<1>8. \A t \in Sessions : Users(t)' \subseteq Users(t)
    BY <1>4, <1>5 DEF Users
<1> QED BY <1>1, <1>2, <1>7, <1>8, StillCovered

\* A broadcaster that is refused leaves one reference more.
LEMMA PushSetupRefusedCovered ==
    ASSUME Covered, NEW b \in Broadcasters, PushSetupRefused(b)
    PROVE  Covered'
<1>1. \A t \in Sessions : HeldIn(t)' \subseteq HeldIn(t)
    BY Stays, Leaves DEF PushSetupRefused, Covered
<1>2. TypeOK'
  <2>1. /\ sClientBroadcastSessionAttr' \in [Broadcasters -> Sessions \cup {None}]
        /\ held' \subseteq Broadcasters \X (Streams \cup {"PLAY"})
        /\ sOutputAttr' \in [Players -> Sessions \cup {None, Cleared}]
      BY DEF PushSetupRefused, Goes, Covered, TypeOK
  <2> QED BY <2>1 DEF PushSetupRefused, Resolve, Covered, TypeOK
<1>3. CASE Resolve(sSessionMap)
    BY <1>1, <1>2, <1>3, ResolveCovered DEF PushSetupRefused
<1>4. CASE sSessionMap = None /\ UNCHANGED <<sSessionMap, fRefCount, fSetupToReceive, overdrawn>>
  <2>1. \A t \in Sessions : OutputsOf(t)' = OutputsOf(t)
      BY DEF PushSetupRefused, OutputsOf
  <2>2. SessionOutlivesUsers'
      BY <1>1, <1>4, <2>1 DEF Covered, SessionOutlivesUsers
  <2>3. ReferencesCoverUsers'
      BY <1>4, ConstantsAssumption DEF ReferencesCoverUsers
  <2> QED BY <1>2, <2>2, <2>3 DEF Covered
<1> QED BY <1>3, <1>4 DEF PushSetupRefused

\* A SETUP or a PLAY takes a reference in the session of the broadcaster.
LEMMA TakesCovered ==
    ASSUME Covered, TypeOK', NEW b \in Broadcasters, NEW s \in Sessions, NEW x,
           s = sSessionMap, sSessionMap' = s, overdrawn' = overdrawn,
           fRefCount' = [fRefCount EXCEPT ![s] = @ + 1],
           Goes(b, s), Holds(b, s, {x}), UNCHANGED sOutputAttr
    PROVE  Covered'
<1>1. HeldIn(s)' \subseteq HeldIn(s) \cup {<<b, x>>}
  <2>1. HeldIn(s)' \subseteq HeldIn(s) \cup {<<b, y>> : y \in {x}}
      BY Arrives DEF Covered
  <2> QED BY <2>1
<1>2. \A t \in Sessions \ {s} : HeldIn(t)' \subseteq HeldIn(t)
    BY Arrives DEF Covered
<1>3. /\ Cardinality(HeldIn(s)') \in Nat
      /\ Cardinality(HeldIn(s)') <= Cardinality(HeldIn(s)) + 1
    BY <1>1, Numbers, AtMostOneMore DEF Covered
<1>4. \A t \in Sessions : OutputsOf(t)' = OutputsOf(t)
    BY DEF OutputsOf
<1>5. s \notin overdrawn =>
          fRefCount[s] >= Cardinality(OutputsOf(s)) + Cardinality(HeldIn(s))
    BY DEF Covered, ReferencesCoverUsers
<1>6. fRefCount'[s] = fRefCount[s] + 1
    BY DEF Covered, TypeOK
<1>7. s \notin overdrawn =>
          fRefCount'[s] >= Cardinality(OutputsOf(s)') + Cardinality(HeldIn(s)')
    BY <1>3, <1>4, <1>5, <1>6, Numbers DEF Covered
<1>8. \A t \in Sessions \ {s} : Users(t)' \subseteq Users(t)
    BY <1>2, <1>4 DEF Users
<1> QED BY <1>7, <1>8, StillCovered

LEMMA PushSetupFindsCovered ==
    ASSUME Covered, NEW b \in Broadcasters, NEW stream \in Streams,
           PushSetupFinds(b, stream)
    PROVE  Covered'
<1>1. PICK s \in Sessions : s = sSessionMap
    BY DEF PushSetupFinds, Covered, TypeOK
<1>2. /\ Goes(b, s) /\ Holds(b, s, {stream})
      /\ fRefCount' = [fRefCount EXCEPT ![s] = @ + 1]
      /\ fSetupToReceive' = [fSetupToReceive EXCEPT ![s] = @ \cup {stream}]
      /\ UNCHANGED <<sSessionMap, sOutputAttr, overdrawn>>
    BY <1>1 DEF PushSetupFinds
<1>3. TypeOK'
  <2>1. held' \subseteq Broadcasters \X (Streams \cup {"PLAY"})
      BY <1>2 DEF Holds, Covered, TypeOK
  <2> QED BY <1>2, <2>1 DEF Goes, Covered, TypeOK
<1> QED BY <1>1, <1>2, <1>3, TakesCovered

LEMMA PushPlayCovered ==
    ASSUME Covered, NEW b \in Broadcasters, PushPlay(b)
    PROVE  Covered'
<1>1. PICK s \in Sessions : s = sSessionMap
    BY DEF PushPlay, Resolve, Covered, TypeOK
<1>2. /\ fRefCount' = [fRefCount EXCEPT ![s] = @ + 1]
      /\ UNCHANGED <<sSessionMap, fSetupToReceive, sClientBroadcastSessionAttr, sOutputAttr,
                     overdrawn>>
    BY <1>1 DEF PushPlay, Resolve, attrs
<1>3. CASE s = sClientBroadcastSessionAttr[b]
  <2>1. Holds(b, s, {"PLAY"}) /\ Goes(b, s)
      BY <1>1, <1>2, <1>3 DEF PushPlay, Goes, Covered, TypeOK
  <2>2. held' \subseteq Broadcasters \X (Streams \cup {"PLAY"})
      BY <2>1 DEF Holds, Covered, TypeOK
  <2>3. TypeOK'
      BY <1>2, <2>2 DEF Covered, TypeOK
  <2> QED BY <1>1, <1>2, <2>1, <2>3, TakesCovered
<1>4. CASE s # sClientBroadcastSessionAttr[b]
  <2>1. UNCHANGED held
      BY <1>1, <1>4 DEF PushPlay
  <2>2. TypeOK' /\ \A t \in Sessions : HeldIn(t)' = HeldIn(t)
      BY <1>2, <2>1, Stays DEF Covered, TypeOK
  <2> QED BY <1>2, <2>2, ResolveCovered DEF PushPlay
<1> QED BY <1>3, <1>4

\* The broadcaster gives back what it has taken, or the session is overdrawn, or
\* nobody else is there.
LEMMA DestroyBroadcasterCovered ==
    ASSUME Covered, NEW b \in Broadcasters, DestroyBroadcaster(b)
    PROVE  Covered'
<1>1. PICK s \in Sessions : s = sSessionMap /\ sClientBroadcastSessionAttr[b] = s
    BY DEF DestroyBroadcaster, Covered, TypeOK
<1> DEFINE mine == HeldBy(b)
           others == OutputsOf(s) \cup (BroadcastersOf(s) \ {b})
<1>2. /\ RemoveReferences(s, fRefCount[s], NumStreams)
      /\ overdrawn' = IF NumStreams > Cardinality(mine) /\ others # {}
                      THEN overdrawn \cup {s} ELSE overdrawn
    BY <1>1 DEF DestroyBroadcaster, GivesBack
<1>3. \A t \in Sessions : OutputsOf(t)' = OutputsOf(t)
    BY DEF DestroyBroadcaster, OutputsOf
<1>4. \A t \in Sessions : HeldIn(t)' = HeldIn(t) \ mine
    BY Leaves DEF DestroyBroadcaster, Covered
<1>5. /\ fRefCount[s] \in Nat /\ NumStreams \in Nat
      /\ IsFiniteSet(OutputsOf(s)) /\ IsFiniteSet(HeldIn(s))
      /\ Cardinality(OutputsOf(s)) \in Nat /\ Cardinality(HeldIn(s)) \in Nat
    BY Numbers DEF Covered
<1>6. HeldIn(s) \cap mine = mine
    BY <1>1 DEF HeldBy, HeldIn
<1>7. /\ IsFiniteSet(HeldIn(s)') /\ Cardinality(HeldIn(s)') \in Nat
      /\ Cardinality(HeldIn(s)') = Cardinality(HeldIn(s)) - Cardinality(mine)
      /\ Cardinality(mine) \in Nat
  <2>1. mine \subseteq HeldIn(s)
      BY <1>6
  <2>2. IsFiniteSet(mine)
      BY <1>5, <2>1, FS_Subset
  <2>3. IsFiniteSet(HeldIn(s) \ mine)
        /\ Cardinality(HeldIn(s) \ mine) = Cardinality(HeldIn(s)) - Cardinality(mine)
      BY <1>5, <1>6, FS_Difference
  <2> QED BY <1>4, <2>2, <2>3, FS_CardinalityType
<1>8. LeftOf(fRefCount[s], NumStreams) \in Nat
    BY <1>5 DEF LeftOf
<1>9. TypeOK'
  <2>1. /\ sClientBroadcastSessionAttr' \in [Broadcasters -> Sessions \cup {None}]
        /\ held' \subseteq Broadcasters \X (Streams \cup {"PLAY"})
        /\ fSetupToReceive' \in [Sessions -> SUBSET Streams]
        /\ sOutputAttr' \in [Players -> Sessions \cup {None, Cleared}]
      BY DEF DestroyBroadcaster, Goes, Covered, TypeOK
  <2>2. /\ fRefCount' \in [Sessions -> Nat] /\ sSessionMap' \in Sessions \cup {None}
        /\ overdrawn' \subseteq Sessions
      BY <1>2, <1>8 DEF RemoveReferences, Covered, TypeOK
  <2> QED BY <2>1, <2>2 DEF TypeOK
<1>10. s \notin overdrawn' =>
           LeftOf(fRefCount[s], NumStreams) >=
               Cardinality(OutputsOf(s)') + Cardinality(HeldIn(s)')
  <2> SUFFICES ASSUME s \notin overdrawn'
               PROVE  LeftOf(fRefCount[s], NumStreams) >=
                          Cardinality(OutputsOf(s)') + Cardinality(HeldIn(s)')
      OBVIOUS
  <2>1. fRefCount[s] >= Cardinality(OutputsOf(s)) + Cardinality(HeldIn(s))
      BY <1>1, <1>2 DEF Covered, ReferencesCoverUsers
  <2>2. CASE NumStreams <= Cardinality(mine)
      BY <1>3, <1>5, <1>7, <2>1, <2>2 DEF LeftOf
  <2>3. CASE others = {}
    <3>1. OutputsOf(s)' = {}
        BY <1>3, <2>3
    <3>2. \A h \in HeldIn(s) : h[1] = b
        BY <2>3 DEF HeldIn, BroadcastersOf, Covered, TypeOK
    <3>3. HeldIn(s)' = {}
        BY <1>4, <3>2 DEF HeldIn, HeldBy
    <3>4. Cardinality(OutputsOf(s)') = 0 /\ Cardinality(HeldIn(s)') = 0
        BY <3>1, <3>3, FS_EmptySet
    <3> QED BY <1>8, <3>4
  <2>4. NumStreams <= Cardinality(mine) \/ others = {}
      BY <1>2, <1>5, <1>7
  <2> QED BY <2>2, <2>3, <2>4
<1>11. \A t \in Sessions \ {s} :
           (t \notin overdrawn' => t \notin overdrawn) /\ Users(t)' \subseteq Users(t)
    BY <1>2, <1>3, <1>4 DEF Users
<1> QED BY <1>1, <1>2, <1>3, <1>5, <1>7, <1>9, <1>10, <1>11, ReleaseCovered

LEMMA KillSessionCovered ==
    ASSUME Covered, KillSession
    PROVE  Covered'
<1>1. PICK s \in Sessions : s = sSessionMap
    BY DEF KillSession, Covered, TypeOK
<1> DEFINE others == OutputsOf(s) \cup BroadcastersOf(s)
<1>2. /\ RemoveReferences(s, fRefCount[s] + 1, NumStreams)
      /\ overdrawn' = IF NumStreams > 1 /\ others # {} THEN overdrawn \cup {s} ELSE overdrawn
    BY <1>1 DEF KillSession, GivesBack
<1>3. \A t \in Sessions : OutputsOf(t)' = OutputsOf(t) /\ HeldIn(t)' = HeldIn(t)
    BY Stays DEF KillSession, attrs, OutputsOf
<1>4. /\ fRefCount[s] \in Nat /\ NumStreams \in Nat /\ NumStreams > 0
      /\ IsFiniteSet(OutputsOf(s)) /\ IsFiniteSet(HeldIn(s))
      /\ Cardinality(OutputsOf(s)) \in Nat /\ Cardinality(HeldIn(s)) \in Nat
    BY Numbers DEF Covered
<1>5. fRefCount[s] + 1 \in Nat /\ LeftOf(fRefCount[s] + 1, NumStreams) \in Nat
    BY <1>4 DEF LeftOf
<1>6. TypeOK'
    BY <1>1, <1>2, <1>5 DEF KillSession, attrs, RemoveReferences, Covered, TypeOK
<1>7. s \notin overdrawn' =>
          LeftOf(fRefCount[s] + 1, NumStreams) >=
              Cardinality(OutputsOf(s)') + Cardinality(HeldIn(s)')
  <2> SUFFICES ASSUME s \notin overdrawn'
               PROVE  LeftOf(fRefCount[s] + 1, NumStreams) >=
                          Cardinality(OutputsOf(s)') + Cardinality(HeldIn(s)')
      OBVIOUS
  <2>1. fRefCount[s] >= Cardinality(OutputsOf(s)) + Cardinality(HeldIn(s))
      BY <1>1, <1>2 DEF Covered, ReferencesCoverUsers
  <2>2. CASE NumStreams = 1
      BY <1>3, <1>4, <2>1, <2>2 DEF LeftOf
  <2>3. CASE others = {}
    <3>1. OutputsOf(s)' = {} /\ HeldIn(s)' = {}
        BY <1>3, <2>3, NobodyYet
    <3>2. Cardinality(OutputsOf(s)') = 0 /\ Cardinality(HeldIn(s)') = 0
        BY <3>1, FS_EmptySet
    <3> QED BY <1>5, <3>2
  <2>4. NumStreams = 1 \/ others = {}
      BY <1>2, <1>4
  <2> QED BY <2>2, <2>3, <2>4
<1>8. \A t \in Sessions \ {s} :
          (t \notin overdrawn' => t \notin overdrawn) /\ Users(t)' \subseteq Users(t)
    BY <1>2, <1>3 DEF Users
<1> QED BY <1>1, <1>2, <1>3, <1>4, <1>5, <1>6, <1>7, <1>8, ReleaseCovered

-----------------------------------------------------------------------------
LEMMA NextCovered == Covered /\ [Next]_vars => Covered'
<1> SUFFICES ASSUME Covered, [Next]_vars PROVE Covered'
    OBVIOUS
<1>1. ASSUME NEW p \in Players, PlayerStep(p) PROVE Covered'
    BY <1>1, DescribeCovered, DescribeAgainCovered, SetupCovered, DestroyPlayerCovered
    DEF PlayerStep
<1>2. ASSUME NEW b \in Broadcasters, BroadcasterStep(b) PROVE Covered'
    BY <1>2, PushSetupCreatesCovered, PushSetupFindsCovered, PushSetupRefusedCovered,
       PushPlayCovered, DestroyBroadcasterCovered
    DEF BroadcasterStep
<1>3. CASE UNCHANGED vars
    BY <1>3
    DEF vars, attrs, Covered, TypeOK, SessionOutlivesUsers, ReferencesCoverUsers,
        OutputsOf, HeldIn
<1> QED BY <1>1, <1>2, <1>3, KillSessionCovered DEF Next

THEOREM AlwaysCovered == Spec => []Covered
BY InitCovered, NextCovered, PTL DEF Spec

(* In whatever order clients ask and leave, and whatever references error  *)
(* returns keep, no session is deleted under a player's output or under a  *)
(* broadcaster with a reference, unless somebody gave back more references *)
(* than it had taken while others were there (RemoveOutput).               *)
THEOREM SessionsOutliveUsers == Spec => []SessionOutlivesUsers
<1>1. Covered => SessionOutlivesUsers
    BY DEF Covered
<1> QED BY <1>1, AlwaysCovered, PTL

(* With the same exception the count of a session covers its players and   *)
(* all that its broadcasters have taken (FindOrCreateSession, DoPlay).     *)
THEOREM ReferencesCover == Spec => []ReferencesCoverUsers
<1>1. Covered => ReferencesCoverUsers
    BY DEF Covered
<1> QED BY <1>1, AlwaysCovered, PTL

-----------------------------------------------------------------------------
(* The sender.  First: the first and the last of some places. *)

LEMMA LeastNumber ==
    ASSUME NEW S \in SUBSET Nat, S # {}
    PROVE  \E x \in S : \A y \in S : x <= y
<1> DEFINE Upto == {0 .. x : x \in S}
<1>1. Upto \in SUBSET FiniteSubsetsOf(Nat) /\ Upto # {}
    <2>1. \A x \in S : IsFiniteSet(0 .. x) /\ 0 .. x \in SUBSET Nat
        BY FS_Interval
    <2> QED BY <2>1 DEF FiniteSubsetsOf
<1>2. \E A \in Upto : \A B \in Upto : ~ (<<B, A>> \in StrictSubsetOrdering(Nat))
    <2> HIDE DEF Upto
    <2> QED BY <1>1, FS_StrictSubsetOrderingWellFounded, WFMin
<1>3. PICK x \in S : \A y \in S : ~ (<<0 .. y, 0 .. x>> \in StrictSubsetOrdering(Nat))
    BY <1>2
<1>4. ASSUME NEW y \in S, y < x
      PROVE  FALSE
    <2>1. 0 .. y \subseteq 0 .. x /\ x \in 0 .. x /\ x \notin 0 .. y /\ 0 .. x \subseteq Nat
        BY <1>4
    <2>2. 0 .. y # 0 .. x /\ 0 .. y \subseteq Nat
        BY <2>1
    <2> QED BY <1>3, <2>1, <2>2 DEF StrictSubsetOrdering
<1> QED BY <1>4

LEMMA MinIsLeast ==
    ASSUME NEW S \in SUBSET Nat, S # {}
    PROVE  Min(S) \in S
<1>1. PICK x \in S : \A y \in S : x <= y
    BY LeastNumber
<1> QED BY <1>1 DEF Min

LEMMA MaxIsGreatest ==
    ASSUME NEW n \in Nat, NEW S \in SUBSET (0 .. n), S # {}
    PROVE  Max(S) \in S /\ \A y \in S : y <= Max(S)
<1> DEFINE T == {n - x : x \in S}
<1>1. T \in SUBSET Nat /\ T # {}
    <2>1. \A x \in S : n - x \in Nat
        OBVIOUS
    <2> QED BY <2>1
<1>2. \E z \in T : \A y \in T : z <= y
    <2> HIDE DEF T
    <2> QED BY <1>1, LeastNumber
<1>3. PICK x \in S : \A y \in S : n - x <= n - y
    BY <1>2
<1>4. \A y \in S : x >= y
    BY <1>3
<1> QED BY <1>4 DEF Max

-----------------------------------------------------------------------------
(* Places in a queue that holds no packet twice. *)

At(Q, p) == CHOOSE i \in DOMAIN Q : Q[i] = p

Once(Q) == \A i, j \in DOMAIN Q : Q[i] = Q[j] => i = j

LEMMA Places ==
    ASSUME NEW Q \in Seq(Packets), Once(Q)
    PROVE  /\ DOMAIN Q = 1 .. Len(Q) /\ Len(Q) \in Nat
           /\ \A i \in 1 .. Len(Q) : Q[i] \in Range(Q) /\ Q[i] \in Packets /\ At(Q, Q[i]) = i
           /\ \A p \in Range(Q) : p \in Packets /\ At(Q, p) \in 1 .. Len(Q) /\ Q[At(Q, p)] = p
<1>1. DOMAIN Q = 1 .. Len(Q) /\ Len(Q) \in Nat /\ \A i \in 1 .. Len(Q) : Q[i] \in Packets
    BY LenProperties
<1>2. \A i \in 1 .. Len(Q) : At(Q, Q[i]) = i
    BY <1>1 DEF Once, At
<1> QED BY <1>1, <1>2 DEF Range

LEMMA PlacesAppended ==
    ASSUME NEW Q \in Seq(Packets), Once(Q), NEW p \in Packets \ Range(Q)
    PROVE  /\ Append(Q, p) \in Seq(Packets) /\ Once(Append(Q, p))
           /\ Range(Append(Q, p)) = Range(Q) \cup {p}
           /\ \A q \in Range(Q) : At(Append(Q, p), q) = At(Q, q) /\ At(Q, q) < At(Append(Q, p), p)
<1> DEFINE R == Append(Q, p)
<1>1. /\ R \in Seq(Packets) /\ Len(R) = Len(Q) + 1
      /\ \A i \in 1 .. Len(Q) : R[i] = Q[i]
      /\ R[Len(Q) + 1] = p
    BY AppendProperties
<1>2. /\ DOMAIN Q = 1 .. Len(Q) /\ Len(Q) \in Nat
      /\ \A i \in 1 .. Len(Q) : Q[i] # p
    BY Places
<1>3. DOMAIN R = 1 .. Len(Q) + 1
    BY <1>1, LenProperties
<1> HIDE DEF R
<1>4. Once(R)
    <2> SUFFICES ASSUME NEW i \in DOMAIN R, NEW j \in DOMAIN R, R[i] = R[j]
                 PROVE  i = j
        BY DEF Once
    <2>1. i = Len(Q) + 1 <=> R[i] = p
        BY <1>1, <1>2, <1>3
    <2>2. j = Len(Q) + 1 <=> R[j] = p
        BY <1>1, <1>2, <1>3
    <2> QED BY <1>1, <1>2, <1>3, <2>1, <2>2 DEF Once
<1>5. Range(R) = Range(Q) \cup {p}
    BY <1>1, <1>2, <1>3 DEF Range
<1>6. At(R, p) = Len(Q) + 1
    BY <1>1, <1>2, <1>4, Places
<1>7. ASSUME NEW q \in Range(Q)
      PROVE  At(R, q) = At(Q, q) /\ At(Q, q) < At(R, p)
    <2>1. At(Q, q) \in 1 .. Len(Q) /\ Q[At(Q, q)] = q
        BY Places
    <2>2. R[At(Q, q)] = q /\ At(Q, q) \in 1 .. Len(R)
        BY <1>1, <1>2, <2>1
    <2>3. At(R, q) = At(Q, q)
        BY <1>1, <1>4, <2>2, Places
    <2> QED BY <1>2, <1>6, <2>1, <2>3
<1> QED BY <1>1, <1>4, <1>5, <1>7 DEF R

LEMMA PlacesLeft ==
    ASSUME NEW Q \in Seq(Packets), Once(Q), NEW kept \in SUBSET Range(Q),
           NEW n \in Nat, NEW R \in [1 .. n -> kept], Range(R) = kept,
           \A i, j \in DOMAIN R : i < j => At(Q, R[i]) < At(Q, R[j])
    PROVE  /\ R \in Seq(Packets) /\ Once(R)
           /\ \A p, q \in kept : At(R, p) < At(R, q) <=> At(Q, p) < At(Q, q)
           /\ \A p, q \in kept : At(R, p) <= At(R, q) <=> At(Q, p) <= At(Q, q)
<1>1. \A p \in kept : p \in Packets /\ At(Q, p) \in Int /\ Q[At(Q, p)] = p
    BY Places
<1>2. R \in Seq(Packets)
    <2>1. R \in [1 .. n -> Packets]
        BY <1>1
    <2> QED BY <2>1, SeqDef
<1>3. Once(R)
    <2> SUFFICES ASSUME NEW i \in 1 .. n, NEW j \in 1 .. n, R[i] = R[j], i < j
                 PROVE  FALSE
        BY DEF Once
    <2> QED BY <1>1
<1>4. \A p \in kept : At(R, p) \in 1 .. n /\ R[At(R, p)] = p
    <2>1. DOMAIN R = 1 .. n
        OBVIOUS
    <2> QED BY <1>2, <1>3, <2>1, Places
<1>5. ASSUME NEW p \in kept, NEW q \in kept
      PROVE  /\ At(R, p) < At(R, q) => At(Q, p) < At(Q, q)
             /\ At(R, p) = At(R, q) => At(Q, p) = At(Q, q)
             /\ At(R, q) < At(R, p) => At(Q, q) < At(Q, p)
    <2>1. DOMAIN R = 1 .. n
        OBVIOUS
    <2> QED BY <1>4, <2>1
<1>6. ASSUME NEW p \in kept, NEW q \in kept
      PROVE  /\ At(R, p) < At(R, q) <=> At(Q, p) < At(Q, q)
             /\ At(R, p) <= At(R, q) <=> At(Q, p) <= At(Q, q)
    <2>1. At(R, p) \in Int /\ At(R, q) \in Int /\ At(Q, p) \in Int /\ At(Q, q) \in Int
        BY <1>1, <1>4
    <2> QED BY <1>5, <2>1
<1> QED BY <1>2, <1>3, <1>6

-----------------------------------------------------------------------------
(* The invariant. *)

Taken(o) == {s \in Slots : fBookmarks[o][s] # NoPacket}

Marks ==
    /\ Once(fPacketQueue)
    /\ fNeededByOutput \subseteq Queued
    /\ run = "reflect" => fFirstPacketInQueueForNewOutput \in Queued \cup {NoPacket}

\* What was sent comes first in the queue.
SentFirst(o) ==
    /\ sent[o] \subseteq Queued
    /\ \A p \in sent[o], q \in Queued :
           At(fPacketQueue, q) < At(fPacketQueue, p) => q \in sent[o]

\* The bookmark of an output, one at most, is in the queue, and is marked as
\* needed until this ReflectPackets has removed the old packets.
OneBookmark(o) ==
    /\ \A s, u \in Taken(o) : s = u
    /\ \A s \in Taken(o) : fBookmarks[o][s] \in Queued
    /\ started[o] \/ o \in served => Taken(o) # {}
    /\ run = "reflect" /\ o \in served =>
           \A s \in Taken(o) : fBookmarks[o][s] \in fNeededByOutput

DueAhead(o) ==
    started[o] => \A p \in due[o] :
        /\ p \in Queued \ sent[o]
        /\ \A s \in Taken(o) : At(fPacketQueue, fBookmarks[o][s]) <= At(fPacketQueue, p)

InPlace(o) == SentFirst(o) /\ (~ astray[o] => OneBookmark(o) /\ DueAhead(o))

Inv == StreamTypeOK /\ Marks /\ \A o \in Outputs : InPlace(o)

LEMMA InvInit == StreamInit => Inv
<1> SUFFICES ASSUME StreamInit PROVE Inv
    OBVIOUS
<1> USE SenderAssumption
<1>1. fPacketQueue = <<>> /\ Queued = {} /\ Once(fPacketQueue)
    BY DEF StreamInit, Queued, Range, Once
<1>2. StreamTypeOK
    <2>1. <<>> \in Seq({"media", "other"}) /\ <<>> \in Seq(Packets)
        BY EmptySeq
    <2>2. age \in [Packets -> 0 .. sMaxPacketAgeMSec + 1]
        BY DEF StreamInit
    <2> QED BY <1>1, <2>1, <2>2 DEF StreamInit, StreamTypeOK, Slots
<1>3. Marks
    BY <1>1 DEF StreamInit, Marks
<1>4. \A o \in Outputs : InPlace(o)
    BY <1>1 DEF StreamInit, InPlace, SentFirst, OneBookmark, DueAhead, Taken, Slots
<1> QED BY <1>2, <1>3, <1>4 DEF Inv

\* A step that leaves the queue and the outputs.
LEMMA NothingMoves ==
    ASSUME Inv, StreamTypeOK',
           UNCHANGED <<fPacketQueue, fNeededByOutput, fBookmarks, sent, started>>,
           UNCHANGED <<due, served, astray, fFirstPacketInQueueForNewOutput>>,
           run' = "reflect" => run = "reflect"
    PROVE  Inv'
<1>1. Queued' = Queued /\ \A o \in Outputs : Taken(o)' = Taken(o)
    BY DEF Queued, Taken
<1>2. Marks'
    BY <1>1 DEF Inv, Marks
<1>3. \A o \in Outputs : InPlace(o)'
    BY <1>1 DEF Inv, InPlace, SentFirst, OneBookmark, DueAhead
<1> QED BY <1>2, <1>3 DEF Inv

LEMMA OtherSteps ==
    ASSUME Inv,
           \/ \E kind \in {"media", "other"} : DatagramArrives(kind)
           \/ ReadEvent \/ TimePasses \/ NextTimeComes \/ IdleEvent
           \/ \E o \in Outputs : Pause(o) \/ PassOver(o) \/ SendNothing(o)
           \/ RunBegin \/ LockDemuxer \/ ReceiveNothing \/ ReceiveOther \/ NotNow
           \/ UNCHANGED streamVars
    PROVE  Inv'
<1> USE SenderAssumption DEF queueVars, historyVars, socketVars, senderVars
<1>t. StreamTypeOK
    BY DEF Inv
<1> USE NothingMoves
<1>1. ASSUME NEW kind \in {"media", "other"}, DatagramArrives(kind)
      PROVE  Inv'
    <2>1. datagrams' \in Seq({"media", "other"})
        BY <1>1, <1>t, AppendProperties DEF DatagramArrives, StreamTypeOK
    <2> QED BY <1>1, <1>t, <2>1 DEF DatagramArrives, StreamTypeOK
<1>2. CASE ReadEvent
    BY <1>2, <1>t DEF ReadEvent, StreamTypeOK
<1>3. CASE TimePasses
    <2>1. age' \in [Packets -> 0 .. sMaxPacketAgeMSec + 1]
        <3>1. \A p \in Packets : age[p] \in 0 .. sMaxPacketAgeMSec + 1
            BY <1>t DEF StreamTypeOK
        <3>2. \A p \in Packets :
                 age[p] <= sMaxPacketAgeMSec => age[p] + 1 \in 0 .. sMaxPacketAgeMSec + 1
            BY <3>1
        <3> QED BY <1>3, <3>1, <3>2 DEF TimePasses
    <2> QED BY <1>3, <1>t, <2>1 DEF TimePasses, StreamTypeOK
<1>4. CASE NextTimeComes
    BY <1>4, <1>t DEF NextTimeComes, StreamTypeOK
<1>5. CASE IdleEvent
    BY <1>5, <1>t DEF IdleEvent, StreamTypeOK
<1>6. ASSUME NEW o \in Outputs, Pause(o)
      PROVE  Inv'
    BY <1>6, <1>t DEF Pause, StreamTypeOK
<1>7. ASSUME NEW o \in Outputs, PassOver(o) \/ SendNothing(o)
      PROVE  Inv'
    BY <1>7, <1>t DEF PassOver, SendNothing, StreamTypeOK
<1>8. CASE RunBegin
    BY <1>8, <1>t DEF RunBegin, StreamTypeOK
<1>9. CASE LockDemuxer
    BY <1>9, <1>t DEF LockDemuxer, StreamTypeOK
<1>10. CASE ReceiveNothing
    BY <1>10, <1>t DEF ReceiveNothing, StreamTypeOK
<1>11. CASE ReceiveOther
    BY <1>11, <1>t DEF ReceiveOther, StreamTypeOK
<1>12. CASE NotNow
    BY <1>12, <1>t DEF NotNow, StreamTypeOK
<1>13. CASE UNCHANGED streamVars
    BY <1>13, <1>t DEF streamVars, StreamTypeOK
<1> QED BY <1>1, <1>2, <1>3, <1>4, <1>5, <1>6, <1>7, <1>8, <1>9, <1>10, <1>11, <1>12, <1>13

LEMMA PlayStep ==
    ASSUME Inv, NEW o \in Outputs, Play(o)
    PROVE  Inv'
<1> USE DEF queueVars, socketVars, senderVars
<1>1. StreamTypeOK'
    BY DEF Play, Inv, StreamTypeOK
<1>2. Queued' = Queued /\ \A x \in Outputs : Taken(x)' = Taken(x)
    BY DEF Play, Queued, Taken
<1>3. Marks'
    BY <1>2 DEF Play, Inv, Marks
<1>4. \A x \in Outputs : /\ started'[x] => started[x]
                         /\ due'[x] \subseteq due[x]
    BY DEF Play, Inv, StreamTypeOK
<1>5. UNCHANGED <<run, fPacketQueue, fNeededByOutput, fBookmarks, sent, served, astray>>
    BY DEF Play
<1>6. \A x \in Outputs : InPlace(x)'
    BY <1>2, <1>4, <1>5 DEF Inv, InPlace, SentFirst, OneBookmark, DueAhead
<1> QED BY <1>1, <1>3, <1>6 DEF Inv

LEMMA PacketStep ==
    ASSUME Inv, NEW p \in Packets, PushPacket(p) \/ ReceiveMedia(p)
    PROVE  Inv'
<1> USE DEF ProcessPacket
<1>1. /\ p \notin Queued /\ fPacketQueue' = Append(fPacketQueue, p)
      /\ run' = run /\ run # "reflect"
      /\ UNCHANGED <<fNeededByOutput, fBookmarks, sent, started, served, astray>>
      /\ due' = [o \in Outputs |-> IF started[o] THEN due[o] \cup {p} ELSE due[o]]
    BY DEF PushPacket, ReceiveMedia
<1>2. fPacketQueue \in Seq(Packets) /\ Once(fPacketQueue) /\ p \notin Range(fPacketQueue)
    BY <1>1 DEF Inv, StreamTypeOK, Marks, Queued
<1>3. /\ fPacketQueue' \in Seq(Packets) /\ Once(fPacketQueue')
      /\ Range(fPacketQueue') = Range(fPacketQueue) \cup {p}
      /\ \A q \in Range(fPacketQueue) :
             /\ At(fPacketQueue', q) = At(fPacketQueue, q)
             /\ At(fPacketQueue, q) < At(fPacketQueue', p)
    BY <1>1, <1>2, PlacesAppended
<1>4. StreamTypeOK'
    <2>1. age' \in [Packets -> 0 .. sMaxPacketAgeMSec + 1]
        <3>1. age' = [age EXCEPT ![p] = 0]
            BY DEF PushPacket, ReceiveMedia
        <3>2. 0 \in 0 .. sMaxPacketAgeMSec + 1
            BY SenderAssumption
        <3> QED BY <3>1, <3>2 DEF Inv, StreamTypeOK
    <2>2. due' \in [Outputs -> SUBSET Packets]
        BY <1>1 DEF Inv, StreamTypeOK
    <2>3. CASE PushPacket(p)
        BY <1>3, <2>1, <2>2, <2>3 DEF PushPacket, Inv, StreamTypeOK
    <2>4. CASE ReceiveMedia(p)
        BY <1>3, <2>1, <2>2, <2>4 DEF ReceiveMedia, Inv, StreamTypeOK
    <2> QED BY <2>3, <2>4
<1>5. Marks'
    BY <1>1, <1>3 DEF Inv, Marks, Queued
<1>6. ASSUME NEW o \in Outputs
      PROVE  InPlace(o)'
    <2>1. InPlace(o) /\ sent[o] \subseteq Range(fPacketQueue) /\ Taken(o)' = Taken(o)
        BY <1>1 DEF Inv, InPlace, SentFirst, Queued, Taken
    <2>2. \A q \in Range(fPacketQueue) : At(fPacketQueue, q) \in Int
        BY <1>2, Places
    <2>3. SentFirst(o)'
        <3>1. At(fPacketQueue', p) \in Int
            BY <1>3, Places
        <3>2. ASSUME NEW a \in sent[o], NEW q \in Range(fPacketQueue'),
                     At(fPacketQueue', q) < At(fPacketQueue', a)
              PROVE  q \in sent[o]
            <4>1. q # p
                BY <1>3, <2>1, <2>2, <3>1, <3>2
            <4> QED BY <1>3, <2>1, <3>2, <4>1 DEF InPlace, SentFirst, Queued
        <3> QED BY <1>1, <1>3, <2>1, <3>2 DEF SentFirst, Queued
    <2>4. ASSUME ~ astray[o]
          PROVE  OneBookmark(o)'
        BY <1>1, <1>3, <2>1, <2>4 DEF InPlace, OneBookmark, Queued
    <2>5. ASSUME ~ astray[o]
          PROVE  DueAhead(o)'
        <3>1. \A s \in Taken(o) : fBookmarks[o][s] \in Range(fPacketQueue)
            BY <2>1, <2>5 DEF InPlace, OneBookmark, Queued
        <3>2. ASSUME started[o], NEW a \in due'[o]
              PROVE  /\ a \in Range(fPacketQueue') \ sent[o]
                     /\ \A s \in Taken(o) :
                          At(fPacketQueue', fBookmarks[o][s]) <= At(fPacketQueue', a)
            <4>1. CASE a = p
                <5>1. At(fPacketQueue', p) \in Int
                    BY <1>3, Places
                <5> QED BY <1>2, <1>3, <2>1, <2>2, <3>1, <4>1, <5>1
            <4>2. CASE a # p
                <5>1. a \in due[o]
                    BY <1>1, <3>2, <4>2
                <5>2. /\ a \in Range(fPacketQueue) \ sent[o]
                      /\ \A s \in Taken(o) :
                            At(fPacketQueue, fBookmarks[o][s]) <= At(fPacketQueue, a)
                    BY <2>1, <2>5, <3>2, <5>1 DEF InPlace, DueAhead, Queued
                <5> QED BY <1>3, <3>1, <5>2
            <4> QED BY <4>1, <4>2
        <3> QED BY <1>1, <2>1, <3>2 DEF DueAhead, Queued
    <2> QED BY <1>1, <2>3, <2>4, <2>5 DEF InPlace
<1> QED BY <1>4, <1>5, <1>6 DEF Inv

LEMMA ReflectBeginStep ==
    ASSUME Inv, ReflectBegin
    PROVE  Inv'
<1> USE DEF queueVars, socketVars, ClientBufferStarts
<1>1. UNCHANGED <<fPacketQueue, fNeededByOutput, fBookmarks, sent, started, due, astray>>
    BY DEF ReflectBegin
<1>2. served' = {} /\ fFirstPacketInQueueForNewOutput' \in Queued \cup {NoPacket}
    BY DEF ReflectBegin
<1>3. Queued \subseteq Packets
    BY Places DEF Inv, StreamTypeOK, Marks, Queued
<1>4. StreamTypeOK'
    BY <1>2, <1>3 DEF ReflectBegin, Inv, StreamTypeOK
<1>5. Queued' = Queued /\ \A x \in Outputs : Taken(x)' = Taken(x)
    BY <1>1 DEF Queued, Taken
<1>6. Marks'
    BY <1>1, <1>2, <1>5 DEF Inv, Marks
<1>7. \A x \in Outputs : InPlace(x)'
    BY <1>1, <1>2, <1>5 DEF Inv, InPlace, SentFirst, OneBookmark, DueAhead
<1> QED BY <1>4, <1>6, <1>7 DEF Inv

-----------------------------------------------------------------------------
(* Packets are sent. *)

\* What the model says by Place and by the slots with a bookmark in the queue.
LEMMA StartIsQueued ==
    ASSUME Inv, NEW o \in Outputs, run = "reflect", StartPacket(o) # NoPacket
    PROVE  StartPacket(o) \in Queued
<1>1. CASE BookMarkSlots(o) # {}
    <2>1. BookMarkSlots(o) \in SUBSET Nat
        BY DEF BookMarkSlots, Slots
    <2>2. Min(BookMarkSlots(o)) \in BookMarkSlots(o)
        BY <1>1, <2>1, MinIsLeast
    <2> QED BY <1>1, <2>2 DEF StartPacket, BookMarkSlots
<1>2. CASE BookMarkSlots(o) = {}
    BY <1>2 DEF StartPacket, Inv, Marks
<1> QED BY <1>1, <1>2

\* An output with one bookmark finds it, and moves it; one without takes a place.
LEMMA OneSlot ==
    ASSUME Inv, NEW o \in Outputs, OneBookmark(o)
    PROVE  \E a \in Slots :
              /\ AvailSlots(o) = {a}
              /\ \A s \in Slots \ {a} : fBookmarks[o][s] = NoPacket
              /\ Taken(o) # {} => Taken(o) = {a} /\ StartPacket(o) = fBookmarks[o][a]
<1>1. Queued \subseteq Packets
    BY Places DEF Inv, StreamTypeOK, Marks, Queued
<1>2. BookMarkSlots(o) = Taken(o)
    BY <1>1, SenderAssumption DEF OneBookmark, BookMarkSlots, Taken
<1>3. CASE Taken(o) # {}
    <2>1. PICK a \in Taken(o) : Taken(o) = {a}
        BY <1>3 DEF OneBookmark
    <2>2. Min({a}) = a
        <3>1. \A x \in {a} : \A y \in {a} : x <= y
            BY <2>1 DEF Taken, Slots
        <3> QED BY <3>1 DEF Min
    <2>3. a \in Slots /\ \A s \in Slots \ {a} : fBookmarks[o][s] = NoPacket
        BY <2>1 DEF Taken
    <2> QED BY <1>2, <2>1, <2>2, <2>3 DEF AvailSlots, StartPacket
<1>4. CASE Taken(o) = {}
    <2>1. {s \in Slots : fBookmarks[o][s] = NoPacket} = Slots
        BY <1>4 DEF Taken
    <2>2. Max(Slots) \in Slots
        <3>1. fNumBookmarks \in Nat /\ Slots \in SUBSET (0 .. fNumBookmarks) /\ Slots # {}
            BY SenderAssumption DEF Slots
        <3> QED BY <3>1, MaxIsGreatest
    <2>3. Slots # {}
        BY <2>2
    <2>4. AvailSlots(o) = {Max(Slots)}
        BY <1>2, <1>4, <2>1, <2>3 DEF AvailSlots
    <2> QED BY <1>4, <2>2, <2>4 DEF Taken
<1> QED BY <1>3, <1>4

LEMMA SendStep ==
    ASSUME Inv, NEW o \in Outputs, SendPacketsToOutput(o)
    PROVE  Inv'
<1> DEFINE Q == fPacketQueue
           n == Len(fPacketQueue)
           start == Place(StartPacket(o))
<1>1. /\ run = "reflect" /\ run' = run /\ StartPacket(o) # NoPacket
      /\ served' = served \cup {o}
      /\ UNCHANGED <<datagrams, armed, events, idleTimer, fPacketQueue, age, fHasNewPackets>>
      /\ UNCHANGED <<fNextTimeToRun, fFirstPacketInQueueForNewOutput, plays, astray>>
      /\ toServe' = toServe \ {o}
    BY DEF SendPacketsToOutput, socketVars
<1> DEFINE Written(from, stop) == {i \in from .. stop - 1 : Q[i] \notin sent[o]}
<1> DEFINE Sends(from, stop) ==
        /\ started[o] => from = start
        /\ sent' = [sent EXCEPT ![o] = IF Written(from, stop) = {} THEN @
                                       ELSE @ \cup {Q[i] : i \in 1 .. Max(Written(from, stop))}]
        /\ started' = [started EXCEPT ![o] = @ \/ Written(from, stop) # {}]
        /\ due' = [due EXCEPT ![o] = IF started[o] THEN @ \ {Q[i] : i \in Written(from, stop)}
                                     ELSE IF Written(from, stop) = {} THEN {}
                                     ELSE {Q[i] : i \in stop .. n}]
        /\ fBookmarks' = [fBookmarks EXCEPT ![o] =
              [s \in Slots |-> IF s \in AvailSlots(o) THEN LastPacket(stop) ELSE @[s]]]
        /\ fNeededByOutput' = fNeededByOutput \cup {LastPacket(stop)}
<1>p. \E stop \in start .. n + 1 : \E from \in start .. stop : Sends(from, stop)
    BY DEF SendPacketsToOutput
<1>q. PICK stop \in start .. n + 1 : \E from \in start .. stop : Sends(from, stop)
    <2> HIDE DEF start, n, Sends
    <2> QED BY <1>p
<1>2. PICK from \in start .. stop : Sends(from, stop)
    <2> HIDE DEF start, n, Sends
    <2> QED BY <1>q
<1> DEFINE written == Written(from, stop)
           last == LastPacket(stop)
<1>3. /\ n \in Nat
      /\ \A i \in 1 .. n : Q[i] \in Queued /\ Q[i] \in Packets /\ At(Q, Q[i]) = i
      /\ \A p \in Queued : p \in Packets /\ At(Q, p) \in 1 .. n /\ Q[At(Q, p)] = p
    BY Places DEF Inv, StreamTypeOK, Marks, Queued
<1>4. start = At(Q, StartPacket(o)) /\ start \in 1 .. n
    BY <1>1, <1>3, StartIsQueued DEF Place, At
<1>5. /\ stop \in 1 .. n + 1 /\ from \in start .. stop
      /\ last \in Queued /\ (stop <= n => last = Q[stop])
    <2> HIDE DEF start
    <2> QED BY <1>3, <1>4 DEF LastPacket
<1> HIDE DEF start, last
<1>6. /\ written \subseteq 1 .. stop - 1
      /\ \A i \in written : Q[i] \notin sent[o]
      /\ started[o] => written = {i \in start .. stop - 1 : Q[i] \notin sent[o]}
    BY <1>2, <1>4, <1>5
<1>t. /\ sent \in [Outputs -> SUBSET Packets] /\ due \in [Outputs -> SUBSET Packets]
      /\ started \in [Outputs -> BOOLEAN]
      /\ fBookmarks \in [Outputs -> [Slots -> Packets \cup {NoPacket}]]
    BY DEF Inv, StreamTypeOK
<1>7. PICK k \in 0 .. stop - 1 : sent'[o] = sent[o] \cup {Q[i] : i \in 1 .. k}
    <2> HIDE DEF written, Written
    <2>1. CASE written = {}
        <3>1. sent'[o] = sent[o] \cup {Q[i] : i \in 1 .. 0} /\ 0 \in 0 .. stop - 1
            BY <1>2, <1>5, <1>t, <2>1 DEF written
        <3> QED BY <3>1
    <2>2. CASE written # {}
        <3>1. Max(written) \in written
            <4>1. stop - 1 \in Nat /\ written \in SUBSET (0 .. stop - 1)
                BY <1>5, <1>6
            <4> QED BY <2>2, <4>1, MaxIsGreatest
        <3>2. sent'[o] = sent[o] \cup {Q[i] : i \in 1 .. Max(written)}
            BY <1>2, <1>t, <2>2 DEF written
        <3>3. Max(written) \in 0 .. stop - 1
            <4>1. Max(written) \in 1 .. stop - 1
                BY <1>6, <3>1
            <4> QED BY <1>3, <1>5, <4>1
        <3> QED BY <3>2, <3>3
    <2> QED BY <2>1, <2>2
<1>8. /\ started'[o] = (started[o] \/ written # {})
      /\ started[o] => due'[o] = due[o] \ {Q[i] : i \in written}
      /\ ~ started[o] /\ written # {} => due'[o] = {Q[i] : i \in stop .. n}
      /\ fBookmarks'[o] = [s \in Slots |-> IF s \in AvailSlots(o) THEN last
                                           ELSE fBookmarks[o][s]]
      /\ fNeededByOutput' = fNeededByOutput \cup {last}
    BY <1>2, <1>t DEF last
<1>9. \A x \in Outputs \ {o} : /\ sent'[x] = sent[x] /\ due'[x] = due[x]
                               /\ started'[x] = started[x]
                               /\ fBookmarks'[x] = fBookmarks[x]
    BY <1>2, <1>t
<1>10. StreamTypeOK'
    <2>1. sent' \in [Outputs -> SUBSET Packets]
        <3>1. sent'[o] \subseteq Packets
            BY <1>3, <1>5, <1>7, <1>t
        <3> QED BY <1>2, <1>t, <3>1
    <2>2. due' \in [Outputs -> SUBSET Packets]
        <3>1. due'[o] \subseteq Packets
            <4>1. {Q[i] : i \in stop .. n} \subseteq Packets
                BY <1>3, <1>5
            <4> QED BY <1>2, <1>t, <4>1
        <3> QED BY <1>2, <1>t, <3>1
    <2>3. started' \in [Outputs -> BOOLEAN]
        BY <1>2, <1>t
    <2>4. fBookmarks' \in [Outputs -> [Slots -> Packets \cup {NoPacket}]]
        <3>1. fBookmarks'[o] \in [Slots -> Packets \cup {NoPacket}]
            BY <1>3, <1>5, <1>8, <1>t
        <3> QED BY <1>2, <1>t, <3>1
    <2>5. fNeededByOutput' \subseteq Packets
        BY <1>3, <1>5, <1>8 DEF Inv, StreamTypeOK
    <2> QED BY <1>1, <2>1, <2>2, <2>3, <2>4, <2>5 DEF Inv, StreamTypeOK
<1>11. Queued' = Queued
    BY <1>1 DEF Queued
<1>12. Marks'
    BY <1>1, <1>5, <1>8, <1>11 DEF Inv, Marks
<1>13. ASSUME NEW x \in Outputs \ {o}
       PROVE  InPlace(x)'
    <2>1. Taken(x)' = Taken(x)
        BY <1>9 DEF Taken
    <2>2. x \in served' <=> x \in served
        BY <1>1
    <2> QED BY <1>1, <1>8, <1>9, <1>11, <2>1, <2>2
            DEF Inv, InPlace, SentFirst, OneBookmark, DueAhead
<1>14. SentFirst(o)'
    <2>1. sent'[o] \subseteq Queued
        BY <1>3, <1>5, <1>7 DEF Inv, InPlace, SentFirst
    <2>2. ASSUME NEW p \in sent'[o], NEW q \in Queued, At(Q, q) < At(Q, p)
          PROVE  q \in sent'[o]
        <3>1. CASE p \in sent[o]
            BY <1>7, <2>2, <3>1 DEF Inv, InPlace, SentFirst
        <3>2. CASE p \notin sent[o]
            <4>1. PICK i \in 1 .. k : p = Q[i]
                BY <1>7, <3>2
            <4>2. At(Q, q) \in 1 .. k /\ q = Q[At(Q, q)]
                BY <1>3, <1>5, <2>2, <4>1
            <4> QED BY <1>7, <4>2
        <3> QED BY <3>1, <3>2
    <2> QED BY <1>1, <1>11, <2>1, <2>2 DEF SentFirst
<1>15. ASSUME ~ astray[o]
       PROVE  OneBookmark(o)' /\ DueAhead(o)'
    <2>1. OneBookmark(o) /\ DueAhead(o) /\ SentFirst(o)
        BY <1>15 DEF Inv, InPlace
    <2>2. PICK a \in Slots :
              /\ AvailSlots(o) = {a}
              /\ \A s \in Slots \ {a} : fBookmarks[o][s] = NoPacket
              /\ Taken(o) # {} => Taken(o) = {a} /\ StartPacket(o) = fBookmarks[o][a]
        BY <2>1, OneSlot
    <2>3. fBookmarks'[o][a] = last /\ \A s \in Slots \ {a} : fBookmarks'[o][s] = NoPacket
        BY <1>8, <2>2
    <2>4. last # NoPacket
        BY <1>3, <1>5, SenderAssumption
    <2>5. Taken(o)' = {a}
        BY <2>3, <2>4 DEF Taken
    <2>6. OneBookmark(o)'
        BY <1>5, <1>8, <1>11, <2>3, <2>5 DEF OneBookmark
    <2>7. ASSUME started[o], NEW p \in due'[o]
          PROVE  /\ p \in Queued \ sent'[o] /\ At(Q, last) <= At(Q, p)
        <3>1. p \in due[o] /\ p \notin {Q[i] : i \in written}
            BY <1>8, <2>7
        <3>2. p \in Queued \ sent[o] /\ Taken(o) = {a} /\ StartPacket(o) = fBookmarks[o][a]
            BY <2>1, <2>2, <2>7, <3>1 DEF DueAhead, OneBookmark
        <3>3. start <= At(Q, p)
            BY <1>4, <2>1, <2>7, <3>1, <3>2 DEF DueAhead
        <3>4. At(Q, p) >= stop
            <4>1. At(Q, p) \notin written
                BY <1>3, <3>1, <3>2
            <4> QED BY <1>3, <1>4, <1>5, <1>6, <2>7, <3>2, <3>3, <4>1
        <3>5. last = Q[stop] /\ At(Q, last) = stop
            BY <1>3, <1>5, <3>2, <3>4
        <3>6. p \notin sent'[o]
            BY <1>3, <1>5, <1>7, <3>2, <3>4
        <3> QED BY <3>2, <3>4, <3>5, <3>6
    <2>8. ASSUME ~ started[o], written # {}, NEW p \in due'[o]
          PROVE  /\ p \in Queued \ sent'[o] /\ At(Q, last) <= At(Q, p)
        <3>1. PICK i \in stop .. n : p = Q[i]
            BY <1>8, <2>8
        <3>2. PICK w \in written : w \in 1 .. stop - 1 /\ Q[w] \notin sent[o]
            BY <1>6, <2>8
        <3>3. p \in Queued /\ At(Q, p) = i /\ Q[w] \in Queued /\ At(Q, Q[w]) < At(Q, p)
            BY <1>3, <1>5, <3>1, <3>2
        <3>4. p \notin sent[o]
            BY <2>1, <3>2, <3>3 DEF SentFirst
        <3>5. p \notin sent'[o]
            <4>1. \A j \in 1 .. k : j \in 1 .. n /\ j < i
                BY <1>3, <1>5, <3>1
            <4>2. \A j \in 1 .. k : Q[j] # p
                BY <1>3, <3>3, <4>1
            <4> QED BY <1>7, <3>4, <4>2
        <3>6. last = Q[stop] /\ At(Q, last) = stop
            BY <1>3, <1>5, <3>1
        <3> QED BY <3>1, <3>3, <3>5, <3>6, <1>5
    <2>9. DueAhead(o)'
        BY <1>1, <1>8, <1>11, <2>3, <2>5, <2>7, <2>8 DEF DueAhead
    <2> QED BY <2>6, <2>9
<1>16. InPlace(o)'
    BY <1>1, <1>14, <1>15 DEF InPlace
<1> QED BY <1>10, <1>12, <1>13, <1>16 DEF Inv

LEMMA RemoveStep ==
    ASSUME Inv, RemoveOldPackets
    PROVE  Inv'
<1> DEFINE removed == {p \in LookedAt : TooOld(p)}
           kept == Queued \ removed
<1>1. /\ run = "reflect" /\ run' = "out"
      /\ fPacketQueue' \in InOrder(kept)
      /\ fNeededByOutput' = fNeededByOutput \ LookedAt
      /\ fFirstPacketInQueueForNewOutput' = NoPacket /\ fNextTimeToRun' = "later"
      /\ idleTimer' = TRUE
      /\ age' = [p \in Packets |-> IF p \in removed THEN 0 ELSE age[p]]
      /\ sent' = [o \in Outputs |-> sent[o] \ removed]
      /\ due' = [o \in Outputs |-> due[o] \ removed]
      /\ astray' = [o \in Outputs |-> \/ astray[o]
                                      \/ /\ o \notin served
                                         /\ \E s \in Slots : fBookmarks[o][s] \in removed]
      /\ UNCHANGED <<datagrams, armed, events, fHasNewPackets, toServe, plays>>
      /\ UNCHANGED <<fBookmarks, started, served>>
    BY DEF RemoveOldPackets
<1>2. /\ fPacketQueue \in Seq(Packets) /\ Once(fPacketQueue)
      /\ Range(fPacketQueue) = Queued /\ Queued \subseteq Packets
    BY Places DEF Inv, StreamTypeOK, Marks, Queued
<1>3. /\ removed \subseteq LookedAt
      /\ \A p \in removed : p \notin fNeededByOutput
    BY DEF TooOld
<1>4. Cardinality(kept) \in Nat
    <2>1. IsFiniteSet(kept)
        BY <1>2, SenderAssumption, FS_Subset
    <2> QED BY <2>1, FS_CardinalityType
<1> HIDE DEF removed
<1>5. /\ fPacketQueue' \in [1 .. Cardinality(kept) -> kept]
      /\ Range(fPacketQueue') = kept
      /\ \A i, j \in DOMAIN fPacketQueue' :
            i < j => At(fPacketQueue, fPacketQueue'[i]) < At(fPacketQueue, fPacketQueue'[j])
    BY <1>1 DEF InOrder, Place, At
<1>6. /\ fPacketQueue' \in Seq(Packets) /\ Once(fPacketQueue')
      /\ \A p, q \in kept : At(fPacketQueue', p) < At(fPacketQueue', q)
                               <=> At(fPacketQueue, p) < At(fPacketQueue, q)
      /\ \A p, q \in kept : At(fPacketQueue', p) <= At(fPacketQueue', q)
                               <=> At(fPacketQueue, p) <= At(fPacketQueue, q)
    <2> HIDE DEF kept
    <2>1. kept \in SUBSET Range(fPacketQueue)
        BY <1>2 DEF kept
    <2> DEFINE n == Cardinality(kept)
               R == fPacketQueue'
               Q == fPacketQueue
    <2>2. /\ n \in Nat /\ R \in [1 .. n -> kept] /\ Range(R) = kept
          /\ Q \in Seq(Packets) /\ Once(Q) /\ kept \in SUBSET Range(Q)
          /\ \A i, j \in DOMAIN R : i < j => At(Q, R[i]) < At(Q, R[j])
        BY <1>2, <1>4, <1>5, <2>1
    <2>3. /\ R \in Seq(Packets) /\ Once(R)
          /\ \A p, q \in kept : At(R, p) < At(R, q) <=> At(Q, p) < At(Q, q)
          /\ \A p, q \in kept : At(R, p) <= At(R, q) <=> At(Q, p) <= At(Q, q)
        <3> HIDE DEF n, R, Q
        <3> QED BY ONLY <2>2, PlacesLeft
    <2> QED BY <2>3
<1>7. Queued' = kept
    BY <1>5 DEF Queued
<1>8. StreamTypeOK'
    <2>1. age' \in [Packets -> 0 .. sMaxPacketAgeMSec + 1]
        <3>1. 0 \in 0 .. sMaxPacketAgeMSec + 1
            BY SenderAssumption
        <3> QED BY <1>1, <3>1 DEF Inv, StreamTypeOK
    <2>2. astray' \in [Outputs -> BOOLEAN]
        BY <1>1 DEF Inv, StreamTypeOK
    <2> QED BY <1>1, <1>6, <2>1, <2>2 DEF Inv, StreamTypeOK
<1>9. Marks'
    BY <1>1, <1>3, <1>6, <1>7 DEF Inv, Marks
<1>10. ASSUME NEW o \in Outputs
       PROVE  InPlace(o)'
    <2>1. /\ InPlace(o)
          /\ Taken(o)' = Taken(o)
          /\ sent'[o] = sent[o] \ removed /\ due'[o] = due[o] \ removed
          /\ started'[o] = started[o]
        BY <1>1 DEF Inv, Taken
    <2>2. SentFirst(o)'
        BY <1>6, <1>7, <2>1 DEF InPlace, SentFirst
    <2>3. ASSUME ~ astray'[o]
          PROVE  OneBookmark(o)' /\ DueAhead(o)'
        <3>1. /\ ~ astray[o]
              /\ o \in served \/ \A s \in Slots : fBookmarks[o][s] \notin removed
            BY <1>1, <2>3
        <3>2. OneBookmark(o) /\ DueAhead(o)
            BY <2>1, <3>1 DEF InPlace
        <3>3. \A s \in Taken(o) : fBookmarks[o][s] \in kept
            BY <1>1, <1>3, <3>1, <3>2 DEF OneBookmark, Taken
        <3>4. OneBookmark(o)'
            BY <1>1, <1>7, <2>1, <3>2, <3>3 DEF OneBookmark
        <3>5. DueAhead(o)'
            BY <1>1, <1>6, <1>7, <2>1, <3>2, <3>3 DEF DueAhead
        <3> QED BY <3>4, <3>5
    <2> QED BY <2>2, <2>3 DEF InPlace
<1> QED BY <1>8, <1>9, <1>10 DEF Inv

-----------------------------------------------------------------------------
LEMMA InvStep == Inv /\ [StreamNext]_streamVars => Inv'
<1> SUFFICES ASSUME Inv, [StreamNext]_streamVars PROVE Inv'
    OBVIOUS
<1> USE OtherSteps
<1>1. ASSUME NEW o \in Outputs, Play(o) \/ Pause(o)
      PROVE  Inv'
    BY <1>1, PlayStep
<1>2. ASSUME NEW p \in Packets, PushPacket(p) \/ ReceiveMedia(p)
      PROVE  Inv'
    BY <1>2, PacketStep
<1>3. ASSUME NEW o \in Outputs, PassOver(o) \/ SendPacketsToOutput(o) \/ SendNothing(o)
      PROVE  Inv'
    BY <1>3, SendStep
<1>4. CASE ReflectStep
    BY <1>2, <1>3, <1>4, ReflectBeginStep, RemoveStep DEF ReflectStep
<1> QED BY <1>1, <1>2, <1>4 DEF StreamNext

LEMMA InvHolds == StreamSpec => []Inv
    BY InvInit, InvStep, PTL DEF StreamSpec

\* The variables keep their types; what a bookmark, a mark or the start of the
\* client buffer points to is a packet.
THEOREM SenderTypes == StreamSpec => []StreamTypeOK
<1>1. Inv => StreamTypeOK
    BY DEF Inv
<1> QED BY <1>1, InvHolds, PTL

\* When ReflectPackets has ended, an output that was served finds its bookmark in
\* the queue, however old the packet it is blocked on: SendPacketsToOutput has
\* marked it, and RemoveOldPackets (ReflectorStream.cpp) keeps what is marked.
THEOREM BlockedPacketStays == StreamSpec => []BookmarkIsKept
<1>1. Inv => BookmarkIsKept
    <2> SUFFICES ASSUME Inv, NEW o \in served, ~ astray[o]
                 PROVE  BookMarkSlots(o) # {}
        BY DEF BookmarkIsKept
    <2>1. OneBookmark(o)
        BY DEF Inv, InPlace, StreamTypeOK
    <2> QED BY <2>1 DEF OneBookmark, BookMarkSlots, Taken
<1> QED BY <1>1, InvHolds, PTL

\* No packet that is still in the queue is skipped, and none is passed by the
\* number of the last packet sent, while packets come in, age out and are used
\* again, and while the output blocks, pauses and plays.
THEOREM InTurn == StreamSpec => []NothingSkipped
<1>1. Inv => NothingSkipped
    <2> SUFFICES ASSUME Inv, NEW o \in Outputs, started[o], ~ astray[o], NEW p \in due[o]
                 PROVE  /\ p \in Queued \ sent[o]
                        /\ \E s \in BookMarkSlots(o) : Place(fBookmarks[o][s]) <= Place(p)
        BY DEF NothingSkipped
    <2>1. OneBookmark(o) /\ DueAhead(o)
        BY DEF Inv, InPlace
    <2>2. PICK s \in Taken(o) : fBookmarks[o][s] \in Queued
        BY <2>1 DEF OneBookmark
    <2>3. p \in Queued \ sent[o] /\ At(fPacketQueue, fBookmarks[o][s]) <= At(fPacketQueue, p)
        BY <2>1, <2>2 DEF DueAhead
    <2>4. s \in BookMarkSlots(o)
        BY <2>2 DEF BookMarkSlots, Taken
    <2>5. Place(fBookmarks[o][s]) <= Place(p)
        BY <2>3 DEF Place, At
    <2> QED BY <2>3, <2>4, <2>5
<1> QED BY <1>1, InvHolds, PTL
=============================================================================
