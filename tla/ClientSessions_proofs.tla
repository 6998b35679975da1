------------------------ MODULE ClientSessions_proofs ------------------------
(***************************************************************************)
(* Theorems about ClientSessions for any finite sets of connections and of *)
(* RTP sessions.  Counted is the inductive invariant.  The counts are      *)
(* right because each step moves one connection and one reference; a count *)
(* of zero then means that nobody works on the session, which is what Run  *)
(* relies on when it takes the session out of the map.  Held adds the      *)
(* holders of a connection: as long as one actor at a time handles the     *)
(* pointer of a session, fObjectHolders counts the sessions that point     *)
(* at the connection.                                                      *)
(***************************************************************************)
EXTENDS ClientSessions, FiniteSetTheorems, TLAPS

\* Between two requests a connection has no RTP session; while it serves one, or
\* tears one down, it has.
StageShowsSession ==
    \A c \in RTSPSessions :
        /\ fState[c] = "reading" => fRTPSession[c] = None
        /\ fState[c] \in {"working", "tearing", "updating", "dropping", "dropped"}
               => fRTPSession[c] # None

\* A session that is not in the map has no references.
OnlyMappedIsCounted == \A p \in RTPSessions : ~ InMap(p) => fRefCount[p] = 0

Counted ==
    /\ TypeOK
    /\ ResolvedIsActive /\ RefsMatchUsers
    /\ StageShowsSession /\ OnlyMappedIsCounted

\* The count of the users of a session is a number.
LEMMA UsersAreFinite ==
    ASSUME NEW p
    PROVE  /\ IsFiniteSet(Users(p))
           /\ Cardinality(Users(p)) \in Nat
           /\ Cardinality(Users(p)) = 0 <=> Users(p) = {}
<1>1. IsFiniteSet(Users(p))
    BY FS_Subset, ConstantsAssumption DEF Users
<1> QED BY <1>1, FS_CardinalityType, FS_EmptySet

\* The users of every session, when one connection goes from a session to another.
LEMMA UsersAfterMove ==
    ASSUME fRTPSession \in [RTSPSessions -> RTPSessions \cup {None}],
           NEW c \in RTSPSessions, NEW v \in RTPSessions \cup {None},
           fRTPSession' = [fRTPSession EXCEPT ![c] = v],
           NEW p \in RTPSessions
    PROVE  Cardinality(Users(p))' =
               Cardinality(Users(p)) + (IF v = p THEN 1 ELSE 0)
                                     - (IF fRTPSession[c] = p THEN 1 ELSE 0)
<1>1. Users(p)' = IF v = p THEN Users(p) \cup {c} ELSE Users(p) \ {c}
    BY DEF Users
<1>2. c \in Users(p) <=> fRTPSession[c] = p
    BY DEF Users
<1>3. /\ Cardinality(Users(p)) \in Nat
      /\ c \notin Users(p) => Cardinality(Users(p) \cup {c}) = Cardinality(Users(p)) + 1
      /\ c \in Users(p) => Cardinality(Users(p) \ {c}) = Cardinality(Users(p)) - 1
    BY UsersAreFinite, FS_AddElement, FS_RemoveElement
<1>4. /\ c \in Users(p) => Users(p) \cup {c} = Users(p)
      /\ c \notin Users(p) => Users(p) \ {c} = Users(p)
    OBVIOUS
<1>5. CASE v = p
    <2>1. Users(p)' = Users(p) \cup {c}
        BY <1>1, <1>5
    <2>2. CASE c \in Users(p)
        <3>1. Users(p)' = Users(p)
            BY <1>4, <2>1, <2>2
        <3>2. fRTPSession[c] = p
            BY <1>2, <2>2
        <3>3. Cardinality(Users(p))' = Cardinality(Users(p)) /\ Cardinality(Users(p)) \in Nat
            BY <1>3, <3>1
        <3> HIDE DEF Users
        <3> QED BY ONLY <1>5, <3>2, <3>3
    <2>3. CASE c \notin Users(p)
        BY <1>2, <1>3, <1>4, <1>5, <2>1, <2>3
    <2> QED BY <2>2, <2>3
<1>6. CASE v # p
    <2>1. Users(p)' = Users(p) \ {c}
        BY <1>1, <1>6
    <2>2. CASE c \in Users(p)
        BY <1>2, <1>3, <1>4, <1>6, <2>1, <2>2
    <2>3. CASE c \notin Users(p)
        BY <1>2, <1>3, <1>4, <1>6, <2>1, <2>3
    <2> QED BY <2>2, <2>3
<1> QED BY <1>5, <1>6

\* A session in use has a reference to give back.
LEMMA UsedIsReferenced ==
    ASSUME Counted, NEW c \in RTSPSessions, fRTPSession[c] # None
    PROVE  /\ fRTPSession[c] \in RTPSessions
           /\ fRefCount[fRTPSession[c]] >= 1
<1>1. fRTPSession[c] \in RTPSessions
    BY DEF Counted, TypeOK
<1>2. c \in Users(fRTPSession[c])
    BY DEF Users
<1>3. /\ Cardinality(Users(fRTPSession[c])) \in Nat
      /\ Cardinality(Users(fRTPSession[c])) # 0
    BY <1>2, UsersAreFinite
<1>4. fRefCount[fRTPSession[c]] =
          Cardinality(Users(fRTPSession[c])) + forgotten[fRTPSession[c]]
    BY <1>1 DEF Counted, RefsMatchUsers
<1>5. forgotten[fRTPSession[c]] \in Nat
    BY <1>1 DEF Counted, TypeOK
<1> QED BY <1>1, <1>3, <1>4, <1>5

\* The holder counter stays below its modulus.
LEMMA HoldersStayTyped ==
    ASSUME NEW n \in 0 .. HolderModulus - 1
    PROVE  /\ (n + HolderModulus - 1) % HolderModulus \in 0 .. HolderModulus - 1
           /\ (n + 1) % HolderModulus \in 0 .. HolderModulus - 1
<1>1. HolderModulus \in Nat /\ HolderModulus > 0
    BY ConstantsAssumption, FS_CardinalityType
<1> QED BY <1>1

LEMMA CountedInit == Init => Counted
<1> SUFFICES ASSUME Init PROVE Counted
    OBVIOUS
<1>1. HolderModulus \in Nat /\ HolderModulus > 0
    BY ConstantsAssumption, FS_CardinalityType
<1>2. TypeOK
    <2>1. /\ fState \in [RTSPSessions -> Stages]
          /\ fLive \in [RTSPSessions -> BOOLEAN]
          /\ fRTPSession \in [RTSPSessions -> RTPSessions \cup {None}]
          /\ lastID \in [RTSPSessions -> RTPSessions \cup {None}]
          /\ lastLen \in [RTSPSessions -> BOOLEAN]
          /\ connKilled \in [RTSPSessions -> BOOLEAN]
        BY DEF Init, Stages
    <2>2. fObjectHolders \in [RTSPSessions -> 0 .. HolderModulus - 1]
        BY <1>1 DEF Init
    <2>3. /\ sessionKilled \in [RTPSessions -> BOOLEAN]
          /\ refreshed \in [RTPSessions -> BOOLEAN]
          /\ fRTSPSession \in [RTPSessions -> RTSPSessions \cup {None}]
          /\ fRefCount \in [RTPSessions -> Nat]
          /\ forgotten \in [RTPSessions -> Nat]
          /\ told \subseteq RTPSessions /\ raced \in BOOLEAN
        BY DEF Init
    <2>4. life \in [RTPSessions -> Active \cup {"unborn", "closing", "signalling", "deleted"}]
        BY DEF Init
    <2>5. owed \in [RTSPSessions \cup RTPSessions -> RTSPSessions \cup {None}]
        BY DEF Init
    <2> QED BY <2>1, <2>2, <2>3, <2>4, <2>5 DEF TypeOK
<1>3. RefsMatchUsers
    <2>1. \A p \in RTPSessions : Users(p) = {}
        BY ConstantsAssumption DEF Init, Users
    <2>2. \A p \in RTPSessions : Cardinality(Users(p)) = 0
        BY <2>1, UsersAreFinite
    <2> QED BY <2>2 DEF Init, RefsMatchUsers
<1>4. ResolvedIsActive /\ StageShowsSession /\ OnlyMappedIsCounted
    BY DEF Init, ResolvedIsActive, StageShowsSession, OnlyMappedIsCounted
<1> QED BY <1>2, <1>3, <1>4 DEF Counted

-----------------------------------------------------------------------------
LEMMA TypeOKStep == ASSUME Counted, [Next]_vars PROVE TypeOK'
<1> USE DEF connVars, sessionVars
<1>t. TypeOK
    BY DEF Counted
<1>m. /\ \A c \in RTSPSessions : fObjectHolders[c] \in 0 .. HolderModulus - 1
      /\ \A n \in 0 .. HolderModulus - 1 :
             /\ (n + HolderModulus - 1) % HolderModulus \in 0 .. HolderModulus - 1
             /\ (n + 1) % HolderModulus \in 0 .. HolderModulus - 1
    BY <1>t, HoldersStayTyped DEF TypeOK
<1>w. \A c \in RTSPSessions :
          fState[c] \in {"working", "tearing", "updating", "dropping", "dropped"}
              => fRTPSession[c] \in RTPSessions
    BY <1>t DEF Counted, StageShowsSession, TypeOK
<1>r. \A c \in RTSPSessions : fRTPSession[c] # None =>
          fRTPSession[c] \in RTPSessions /\ fRefCount[fRTPSession[c]] - 1 \in Nat
    <2> SUFFICES ASSUME NEW c \in RTSPSessions, fRTPSession[c] # None
                 PROVE  /\ fRTPSession[c] \in RTPSessions
                        /\ fRefCount[fRTPSession[c]] - 1 \in Nat
        OBVIOUS
    <2>1. /\ fRTPSession[c] \in RTPSessions
          /\ fRefCount[fRTPSession[c]] >= 1
        BY UsedIsReferenced
    <2> QED BY <1>t, <2>1 DEF TypeOK
<1>o. ASSUME NEW x \in RTSPSessions \cup RTPSessions, NEW c \in RTSPSessions,
             DecrementObjectHolderCount(x, c)
      PROVE  /\ fObjectHolders' \in [RTSPSessions -> 0 .. HolderModulus - 1]
             /\ owed' \in [RTSPSessions \cup RTPSessions -> RTSPSessions \cup {None}]
    BY <1>o, <1>t, <1>m DEF DecrementObjectHolderCount, TypeOK
<1>l. ASSUME NEW x \in RTSPSessions \cup RTPSessions, NEW p \in RTPSessions, LetGo(x, p)
      PROVE  /\ fObjectHolders' \in [RTSPSessions -> 0 .. HolderModulus - 1]
             /\ owed' \in [RTSPSessions \cup RTPSessions -> RTSPSessions \cup {None}]
             /\ raced' \in BOOLEAN
    <2>1. raced' \in BOOLEAN
        BY <1>l, <1>t DEF LetGo, TypeOK
    <2>2. CASE fRTSPSession[p] = None
        BY <1>l, <1>t, <2>1, <2>2 DEF LetGo, TypeOK
    <2>3. CASE fRTSPSession[p] # None
        <3>1. fRTSPSession[p] \in RTSPSessions
            BY <1>t, <2>3 DEF TypeOK
        <3> QED BY <1>l, <1>o, <2>1, <2>3, <3>1 DEF LetGo
    <2> QED BY <2>2, <2>3
<1>s. ASSUME NEW x \in RTSPSessions \cup RTPSessions, SignalOwed(x)
      PROVE  /\ connKilled' \in [RTSPSessions -> BOOLEAN]
             /\ owed' \in [RTSPSessions \cup RTPSessions -> RTSPSessions \cup {None}]
    BY <1>s, <1>t DEF SignalOwed, TypeOK
<1>f. ASSUME NEW x \in RTSPSessions \cup RTPSessions, NEW p, FinishTeardown(x, p)
      PROVE  /\ connKilled' \in [RTSPSessions -> BOOLEAN]
             /\ owed' \in [RTSPSessions \cup RTPSessions -> RTSPSessions \cup {None}]
             /\ fRTSPSession' \in [RTPSessions -> RTSPSessions \cup {None}]
             /\ sessionKilled' \in [RTPSessions -> BOOLEAN]
    BY <1>f, <1>s, <1>t DEF FinishTeardown, TypeOK
<1>c. ASSUME NEW c \in RTSPSessions, NEW alive \in BOOLEAN, CleanupRequest(c, alive)
      PROVE  /\ fRefCount' \in [RTPSessions -> Nat]
             /\ fRTPSession' \in [RTSPSessions -> RTPSessions \cup {None}]
             /\ lastID' \in [RTSPSessions -> RTPSessions \cup {None}]
             /\ lastLen' \in [RTSPSessions -> BOOLEAN]
    BY <1>c, <1>t, <1>r DEF CleanupRequest, Release, TypeOK
<1>g. ASSUME NEW c \in RTSPSessions, NEW st \in Stages, Goto(c, st)
      PROVE  fState' \in [RTSPSessions -> Stages]
    BY <1>g, <1>t DEF Goto, TypeOK
<1>1. ASSUME NEW c \in RTSPSessions, FindRTPSession(c) PROVE TypeOK'
    <2>1. /\ fRTPSession' \in [RTSPSessions -> RTPSessions \cup {None}]
          /\ fRefCount' \in [RTPSessions -> Nat]
          /\ refreshed' \in [RTPSessions -> BOOLEAN]
        BY <1>1, <1>t DEF FindRTPSession, TypeOK, InMap
    <2>2. fState' \in [RTSPSessions -> Stages]
        BY <1>1, <1>g DEF FindRTPSession, Stages
    <2>3. UNCHANGED <<fLive, lastID, lastLen, fObjectHolders, connKilled, life,
                      sessionKilled, fRTSPSession, owed, told, forgotten, raced>>
        BY <1>1 DEF FindRTPSession
    <2> QED BY <1>t, <2>1, <2>2, <2>3 DEF TypeOK
<1>2. ASSUME NEW c \in RTSPSessions, CreateNewRTPSession(c) PROVE TypeOK'
    BY <1>2, <1>t DEF CreateNewRTPSession, TypeOK, Stages, Active, Goto
<1>3. ASSUME NEW c \in RTSPSessions,
             AnswerWithoutSession(c) \/ Lose(c) \/ GiveUp(c) \/ WakeDead(c)
      PROVE  TypeOK'
    BY <1>3, <1>t DEF AnswerWithoutSession, Lose, GiveUp, WakeDead,
                      TypeOK, Stages, Goto
<1>20. ASSUME NEW c \in RTSPSessions, HandleIncomingDataPacket(c) PROVE TypeOK'
    <2>1. /\ fRTPSession' \in [RTSPSessions -> RTPSessions \cup {None}]
          /\ fRefCount' \in [RTPSessions -> Nat]
          /\ refreshed' \in [RTPSessions -> BOOLEAN]
        BY <1>20, <1>t DEF HandleIncomingDataPacket, TypeOK
    <2>2. fState' \in [RTSPSessions -> Stages]
        BY <1>20, <1>g DEF HandleIncomingDataPacket, Stages
    <2>3. UNCHANGED <<fLive, lastID, lastLen, fObjectHolders, connKilled, life,
                      sessionKilled, fRTSPSession, owed, told, forgotten, raced>>
        BY <1>20 DEF HandleIncomingDataPacket
    <2> QED BY <1>t, <2>1, <2>2, <2>3 DEF TypeOK
<1>4. ASSUME NEW c \in RTSPSessions, CallModules(c) PROVE TypeOK'
    <2>1. fState' \in [RTSPSessions -> Stages]
        BY <1>4, <1>g DEF CallModules, Stages
    <2>2. lastLen' \in [RTSPSessions -> BOOLEAN]
        BY <1>4, <1>t DEF CallModules, TypeOK
    <2>3. UNCHANGED <<fLive, fRTPSession, lastID, fObjectHolders, connKilled,
                      sessionVars, owed, told, forgotten, raced>>
        BY <1>4 DEF CallModules
    <2> QED BY <1>t, <2>1, <2>2, <2>3 DEF sessionVars, TypeOK
<1>5. ASSUME NEW c \in RTSPSessions, BeginTeardown(c) PROVE TypeOK'
    BY <1>5, <1>t, <1>l, <1>w DEF BeginTeardown, TypeOK, Stages, Goto
<1>6. ASSUME NEW c \in RTSPSessions, EndTeardown(c) PROVE TypeOK'
    BY <1>6, <1>t, <1>f DEF EndTeardown, TypeOK, Stages, Goto
<1>7. ASSUME NEW c \in RTSPSessions, PostProcess(c) PROVE TypeOK'
    BY <1>7, <1>t, <1>l, <1>r DEF PostProcess, TypeOK, Stages, Goto
<1>8. ASSUME NEW c \in RTSPSessions, EndUpdate(c) PROVE TypeOK'
    BY <1>8, <1>t, <1>m, <1>s DEF EndUpdate, TypeOK, Stages, Goto
<1>9. ASSUME NEW c \in RTSPSessions, FinishRequest(c) PROVE TypeOK'
    BY <1>9, <1>t, <1>c, <1>r DEF FinishRequest, TypeOK, Stages, Goto
<1>10. ASSUME NEW c \in RTSPSessions, ResolveLast(c) PROVE TypeOK'
    <2>1. /\ fRTPSession' \in [RTSPSessions -> RTPSessions \cup {None}]
          /\ fRefCount' \in [RTPSessions -> Nat]
        BY <1>10, <1>t DEF ResolveLast, TypeOK, InMap
    <2>2. fState' \in [RTSPSessions -> Stages]
        BY <1>10, <1>g DEF ResolveLast, Stages
    <2>3. forgotten' \in [RTPSessions -> Nat]
        BY <1>10, <1>t DEF ResolveLast, TypeOK
    <2>4. UNCHANGED <<fLive, lastID, lastLen, fObjectHolders, connKilled, life,
                      sessionKilled, refreshed, fRTSPSession, owed, told, raced>>
        BY <1>10 DEF ResolveLast
    <2> QED BY <1>t, <2>1, <2>2, <2>3, <2>4 DEF TypeOK
<1>11. ASSUME NEW c \in RTSPSessions, DropSession(c) PROVE TypeOK'
    BY <1>11, <1>t, <1>l, <1>w DEF DropSession, TypeOK, Stages, Goto
<1>12. ASSUME NEW c \in RTSPSessions, EndDrop(c) PROVE TypeOK'
    <2>1. /\ fRTPSession[c] \in RTPSessions
          /\ fRefCount[fRTPSession[c]] - 1 \in Nat
        BY <1>12, <1>w, <1>r, ConstantsAssumption DEF EndDrop
    <2>2. /\ fRefCount' \in [RTPSessions -> Nat]
          /\ fRTPSession' \in [RTSPSessions -> RTPSessions \cup {None}]
          /\ fState' \in [RTSPSessions -> Stages]
        BY <1>12, <1>t, <1>g, <2>1 DEF EndDrop, Release, TypeOK, Stages
    <2>3. FinishTeardown(c, fRTPSession[c])
          /\ UNCHANGED <<refreshed, fLive, lastID, lastLen, fObjectHolders, life, told,
                         forgotten, raced>>
        BY <1>12 DEF EndDrop
    <2> QED BY <1>t, <1>f, <2>2, <2>3 DEF TypeOK
<1>13. ASSUME NEW c \in RTSPSessions, EndRun(c) PROVE TypeOK'
    BY <1>13, <1>t, <1>c DEF EndRun, TypeOK, Stages, Goto
<1>14. ASSUME NEW p \in RTPSessions, Kill(p) \/ RunKilled(p) PROVE TypeOK'
    BY <1>14, <1>t DEF Kill, RunKilled, TryLater, TypeOK, Active
<1>21. ASSUME NEW p \in RTPSessions, Refresh(p) \/ TimerScan(p) PROVE TypeOK'
    BY <1>21, <1>t DEF Refresh, TimerScan, TypeOK
<1>15. ASSUME NEW p \in RTPSessions, SendPacketsTeardown(p) PROVE TypeOK'
    BY <1>15, <1>t, <1>l DEF SendPacketsTeardown, TypeOK, Active
<1>16. ASSUME NEW p \in RTPSessions, EndSendPacketsTeardown(p) PROVE TypeOK'
    BY <1>16, <1>t, <1>f DEF EndSendPacketsTeardown, TypeOK, Active
<1>17. ASSUME NEW p \in RTPSessions, Destroy(p) PROVE TypeOK'
    BY <1>17, <1>t, <1>o DEF Destroy, TypeOK, Active
<1>18. ASSUME NEW p \in RTPSessions, EndDestroy(p) PROVE TypeOK'
    BY <1>18, <1>t, <1>s DEF EndDestroy, TypeOK, Active
<1>19. CASE UNCHANGED vars
    BY <1>19, <1>t DEF vars, TypeOK
<1> QED BY <1>1, <1>2, <1>3, <1>4, <1>5, <1>6, <1>7, <1>8, <1>9, <1>10, <1>11,
           <1>12, <1>13, <1>14, <1>15, <1>16, <1>17, <1>18, <1>19, <1>20, <1>21
        DEF Next, ClientStep, RTSPRun, RTPRun

-----------------------------------------------------------------------------
LEMMA StageStep ==
    ASSUME Counted, [Next]_vars PROVE StageShowsSession'
<1> USE ConstantsAssumption DEF StageShowsSession, Goto
<1>t. /\ fState \in [RTSPSessions -> Stages]
      /\ fRTPSession \in [RTSPSessions -> RTPSessions \cup {None}]
      /\ StageShowsSession
    BY DEF Counted, TypeOK
<1>1. ASSUME NEW c \in RTSPSessions,
             \/ FindRTPSession(c) \/ CreateNewRTPSession(c) \/ AnswerWithoutSession(c)
             \/ HandleIncomingDataPacket(c) \/ Lose(c)
      PROVE  StageShowsSession'
    BY <1>1, <1>t DEF FindRTPSession, CreateNewRTPSession, AnswerWithoutSession,
                      HandleIncomingDataPacket, Lose, InMap
<1>2. ASSUME NEW c \in RTSPSessions,
             \/ CallModules(c) \/ BeginTeardown(c) \/ EndTeardown(c)
             \/ EndUpdate(c) \/ GiveUp(c) \/ DropSession(c) \/ WakeDead(c)
      PROVE  StageShowsSession'
    BY <1>2, <1>t DEF CallModules, BeginTeardown, EndTeardown, EndUpdate, GiveUp,
                      DropSession, WakeDead
<1>3. ASSUME NEW c \in RTSPSessions, PostProcess(c) PROVE StageShowsSession'
    BY <1>3, <1>t DEF PostProcess
<1>4. ASSUME NEW c \in RTSPSessions, FinishRequest(c) \/ EndDrop(c) \/ EndRun(c)
      PROVE  StageShowsSession'
    BY <1>4, <1>t DEF FinishRequest, EndDrop, EndRun, CleanupRequest
<1>5. ASSUME NEW c \in RTSPSessions, ResolveLast(c) PROVE StageShowsSession'
    BY <1>5, <1>t DEF ResolveLast, InMap
<1>6. ASSUME NEW p \in RTPSessions,
             \/ Kill(p) \/ Refresh(p) \/ TimerScan(p)
             \/ SendPacketsTeardown(p) \/ EndSendPacketsTeardown(p)
             \/ RunKilled(p) \/ Destroy(p) \/ EndDestroy(p)
      PROVE  UNCHANGED <<fState, fRTPSession>>
    BY <1>6 DEF Kill, Refresh, TimerScan, SendPacketsTeardown, EndSendPacketsTeardown,
                RunKilled, Destroy, EndDestroy, connVars
<1>7. CASE UNCHANGED <<fState, fRTPSession>>
    BY <1>7, <1>t
<1>8. CASE UNCHANGED vars
    BY <1>8, <1>7 DEF vars, connVars
<1> HIDE DEF StageShowsSession
<1> QED BY <1>1, <1>2, <1>3, <1>4, <1>5, <1>6, <1>7, <1>8
        DEF Next, ClientStep, RTSPRun, RTPRun

\* What Counted says of the references.
RefsCounted == ResolvedIsActive /\ RefsMatchUsers /\ OnlyMappedIsCounted

\* A connection takes one more reference; the one it had before is forgotten.
LEMMA TakeReference ==
    ASSUME Counted, NEW c \in RTSPSessions, NEW p \in RTPSessions,
           InMap(p)', \A q \in RTPSessions : InMap(q) => InMap(q)',
           fRTPSession' = [fRTPSession EXCEPT ![c] = p],
           fRefCount' = [fRefCount EXCEPT ![p] = @ + 1],
           \A q \in RTPSessions :
               forgotten'[q] = forgotten[q] + IF fRTPSession[c] = q THEN 1 ELSE 0
    PROVE  RefsCounted'
<1>1. /\ fRTPSession \in [RTSPSessions -> RTPSessions \cup {None}]
      /\ fRefCount \in [RTPSessions -> Nat]
      /\ forgotten \in [RTPSessions -> Nat]
    BY DEF Counted, TypeOK
<1>2. ResolvedIsActive'
    BY <1>1 DEF Counted, ResolvedIsActive
<1>3. ASSUME NEW q \in RTPSessions
      PROVE  fRefCount'[q] = Cardinality(Users(q))' + forgotten'[q]
    <2>1. Cardinality(Users(q))' =
              Cardinality(Users(q)) + (IF p = q THEN 1 ELSE 0)
                                    - (IF fRTPSession[c] = q THEN 1 ELSE 0)
        <3>1. /\ fRTPSession \in [RTSPSessions -> RTPSessions \cup {None}]
              /\ p \in RTPSessions \cup {None}
            BY <1>1
        <3> QED BY ONLY <3>1, UsersAfterMove, c \in RTSPSessions, q \in RTPSessions,
                        fRTPSession' = [fRTPSession EXCEPT ![c] = p]
    <2>2. fRefCount'[q] = fRefCount[q] + IF p = q THEN 1 ELSE 0
        BY <1>1
    <2>3. fRefCount[q] = Cardinality(Users(q)) + forgotten[q]
        BY DEF Counted, RefsMatchUsers
    <2>4. /\ Cardinality(Users(q)) \in Nat
          /\ forgotten[q] \in Nat
          /\ forgotten'[q] = forgotten[q] + IF fRTPSession[c] = q THEN 1 ELSE 0
        BY <1>1, UsersAreFinite
    <2> HIDE DEF Users
    <2> QED BY <2>1, <2>2, <2>3, <2>4
<1>4. OnlyMappedIsCounted'
    BY <1>1 DEF Counted, OnlyMappedIsCounted
<1> QED BY <1>2, <1>3, <1>4 DEF RefsCounted, RefsMatchUsers

\* A connection gives its reference back, if it has one.
LEMMA GiveBackReference ==
    ASSUME Counted, NEW c \in RTSPSessions, UNCHANGED <<life, forgotten>>,
           fRTPSession' = [fRTPSession EXCEPT ![c] = None],
           IF fRTPSession[c] = None THEN UNCHANGED fRefCount ELSE Release(fRTPSession[c])
    PROVE  RefsCounted'
<1>1. /\ fRTPSession \in [RTSPSessions -> RTPSessions \cup {None}]
      /\ fRefCount \in [RTPSessions -> Nat]
      /\ forgotten \in [RTPSessions -> Nat]
      /\ None \notin RTPSessions
    BY ConstantsAssumption DEF Counted, TypeOK
<1>2. \A q : InMap(q)' <=> InMap(q)
    BY DEF InMap
<1>3. ResolvedIsActive'
    BY <1>1, <1>2 DEF Counted, ResolvedIsActive
<1>4. ASSUME NEW q \in RTPSessions
      PROVE  fRefCount'[q] = fRefCount[q] - IF fRTPSession[c] = q THEN 1 ELSE 0
    BY <1>1 DEF Release
<1>5. ASSUME NEW q \in RTPSessions
      PROVE  fRefCount'[q] = Cardinality(Users(q))' + forgotten'[q]
    <2>1. Cardinality(Users(q))' =
              Cardinality(Users(q)) + (IF None = q THEN 1 ELSE 0)
                                    - (IF fRTPSession[c] = q THEN 1 ELSE 0)
        <3>1. /\ fRTPSession \in [RTSPSessions -> RTPSessions \cup {None}]
              /\ None \in RTPSessions \cup {None}
            BY <1>1
        <3> QED BY ONLY <3>1, UsersAfterMove, c \in RTSPSessions, q \in RTPSessions,
                        fRTPSession' = [fRTPSession EXCEPT ![c] = None]
    <2>2. fRefCount[q] = Cardinality(Users(q)) + forgotten[q]
        BY DEF Counted, RefsMatchUsers
    <2>3. Cardinality(Users(q)) \in Nat /\ forgotten[q] \in Nat /\ None # q
        BY <1>1, UsersAreFinite
    <2> HIDE DEF Users
    <2> QED BY <1>4, <2>1, <2>2, <2>3
<1>6. OnlyMappedIsCounted'
    <2>1. ASSUME NEW q \in RTPSessions, ~ InMap(q) PROVE fRefCount'[q] = 0
        <3>1. fRTPSession[c] # q
            BY <2>1, <1>1 DEF Counted, ResolvedIsActive
        <3>2. fRefCount[q] = 0
            BY <2>1 DEF Counted, OnlyMappedIsCounted
        <3> QED BY <1>4, <3>1, <3>2
    <2> QED BY <1>2, <2>1 DEF OnlyMappedIsCounted
<1> QED BY <1>3, <1>5, <1>6 DEF RefsCounted, RefsMatchUsers

\* The references stay; a session leaves the map only if it has none.
LEMMA LeaveMap ==
    ASSUME Counted, UNCHANGED <<fRTPSession, fRefCount, forgotten>>,
           \A q \in RTPSessions : ~ InMap(q)' => fRefCount[q] = 0
    PROVE  RefsCounted'
<1>1. ResolvedIsActive'
    <2> SUFFICES ASSUME NEW c \in RTSPSessions, fRTPSession[c] # None
                 PROVE  InMap(fRTPSession[c])'
        BY DEF ResolvedIsActive
    <2>1. fRTPSession[c] \in RTPSessions /\ fRefCount[fRTPSession[c]] >= 1
        BY UsedIsReferenced
    <2> QED BY <2>1
<1>2. RefsMatchUsers'
    BY DEF Counted, RefsMatchUsers, Users
<1>3. OnlyMappedIsCounted'
    BY DEF OnlyMappedIsCounted
<1> QED BY <1>1, <1>2, <1>3 DEF RefsCounted

LEMMA RefsStep ==
    ASSUME Counted, [Next]_vars PROVE RefsCounted'
<1> USE DEF connVars, sessionVars
<1>t. /\ fState \in [RTSPSessions -> Stages]
      /\ fRTPSession \in [RTSPSessions -> RTPSessions \cup {None}]
      /\ forgotten \in [RTPSessions -> Nat]
      /\ fRefCount \in [RTPSessions -> Nat]
      /\ life \in [RTPSessions -> Active \cup {"unborn", "closing", "signalling", "deleted"}]
      /\ None \notin RTPSessions
    BY ConstantsAssumption DEF Counted, TypeOK
<1>u. \A q \in RTPSessions : ~ InMap(q) => fRefCount[q] = 0
    BY DEF Counted, OnlyMappedIsCounted
<1>1. ASSUME NEW c \in RTSPSessions, FindRTPSession(c) \/ HandleIncomingDataPacket(c)
      PROVE  RefsCounted'
    <2>1. PICK p \in RTPSessions : /\ InMap(p)
                                   /\ fRTPSession' = [fRTPSession EXCEPT ![c] = p]
                                   /\ fRefCount' = [fRefCount EXCEPT ![p] = @ + 1]
        BY <1>1 DEF FindRTPSession, HandleIncomingDataPacket, InMap
    <2>2. fRTPSession[c] = None /\ UNCHANGED <<life, forgotten>>
        BY <1>1 DEF FindRTPSession, HandleIncomingDataPacket, Counted, StageShowsSession
    <2>3. \A q \in RTPSessions :
              forgotten'[q] = forgotten[q] + IF fRTPSession[c] = q THEN 1 ELSE 0
        BY <2>2, <1>t
    <2>4. \A q \in RTPSessions : InMap(q)' <=> InMap(q)
        BY <2>2 DEF InMap
    <2> QED BY <2>1, <2>3, <2>4, TakeReference
<1>2. ASSUME NEW c \in RTSPSessions, CreateNewRTPSession(c) PROVE RefsCounted'
    <2>1. PICK p \in RTPSessions : /\ life[p] = "unborn"
                                   /\ life' = [life EXCEPT ![p] = "active"]
                                   /\ fRTPSession' = [fRTPSession EXCEPT ![c] = p]
                                   /\ fRefCount' = [fRefCount EXCEPT ![p] = 1]
        BY <1>2 DEF CreateNewRTPSession
    <2>2. fRTPSession[c] = None /\ UNCHANGED forgotten
        BY <1>2 DEF CreateNewRTPSession, Counted, StageShowsSession
    <2>3. \A q \in RTPSessions :
              forgotten'[q] = forgotten[q] + IF fRTPSession[c] = q THEN 1 ELSE 0
        BY <2>2, <1>t
    <2>4. /\ InMap(p)' /\ ~ InMap(p)
          /\ \A q \in RTPSessions : InMap(q) => InMap(q)'
        BY <2>1, <1>t DEF InMap, Active
    <2>5. fRefCount' = [fRefCount EXCEPT ![p] = @ + 1]
        <3>1. fRefCount[p] + 1 = 1
            BY <2>4, <1>u
        <3> QED BY ONLY <2>1, <3>1
    <2> QED BY <2>1, <2>3, <2>4, <2>5, TakeReference
<1>3. ASSUME NEW c \in RTSPSessions, ResolveLast(c) PROVE RefsCounted'
    <2>1. CASE fObjectHolders[c] > 0 /\ lastLen[c] /\ InMap(lastID[c])
        <3>1. /\ fRTPSession' = [fRTPSession EXCEPT ![c] = lastID[c]]
              /\ fRefCount' = [fRefCount EXCEPT ![lastID[c]] = @ + 1]
              /\ \A q \in RTPSessions :
                     forgotten'[q] = forgotten[q] + IF fRTPSession[c] = q THEN 1 ELSE 0
              /\ UNCHANGED life
            BY <1>3, <2>1 DEF ResolveLast
        <3>2. \A q : InMap(q)' <=> InMap(q)
            BY <3>1 DEF InMap
        <3>3. lastID[c] \in RTPSessions
            BY <2>1 DEF InMap
        <3> QED BY <2>1, <3>1, <3>2, <3>3, TakeReference
    <2>2. CASE ~ (fObjectHolders[c] > 0 /\ lastLen[c] /\ InMap(lastID[c]))
        <3>1. UNCHANGED <<fRTPSession, fRefCount, forgotten, life>>
            BY <1>3, <2>2 DEF ResolveLast
        <3> QED BY <3>1, <1>u, LeaveMap DEF InMap
    <2> QED BY <2>1, <2>2
<1>4. ASSUME NEW c \in RTSPSessions, FinishRequest(c) \/ EndRun(c) PROVE RefsCounted'
    BY <1>4, GiveBackReference DEF FinishRequest, EndRun, CleanupRequest
<1>5. ASSUME NEW c \in RTSPSessions, EndDrop(c) PROVE RefsCounted'
    <2>1. fRTPSession[c] # None
        BY <1>5 DEF EndDrop, Counted, StageShowsSession
    <2> QED BY <1>5, <2>1, GiveBackReference DEF EndDrop
<1>6. ASSUME NEW c \in RTSPSessions,
             \/ AnswerWithoutSession(c) \/ Lose(c) \/ CallModules(c) \/ BeginTeardown(c)
             \/ EndTeardown(c) \/ PostProcess(c) \/ EndUpdate(c) \/ GiveUp(c)
             \/ DropSession(c) \/ WakeDead(c)
      PROVE  UNCHANGED <<fRTPSession, fRefCount, forgotten, life>>
    BY <1>6 DEF AnswerWithoutSession, Lose, CallModules, BeginTeardown, EndTeardown,
                PostProcess, EndUpdate, GiveUp, DropSession, WakeDead
<1>7. ASSUME NEW p \in RTPSessions, RunKilled(p) PROVE RefsCounted'
    <2>1. UNCHANGED <<fRTPSession, fRefCount, forgotten>>
        BY <1>7 DEF RunKilled
    <2>2. \/ fRefCount[p] = 0 /\ life' = [life EXCEPT ![p] = "closing"]
          \/ UNCHANGED life
        BY <1>7 DEF RunKilled, MayUnRegister
    <2>3. \A q \in RTPSessions : ~ InMap(q)' => fRefCount[q] = 0
        BY <2>2, <1>t, <1>u DEF InMap
    <2> QED BY <2>1, <2>3, LeaveMap
<1>8. ASSUME NEW p \in RTPSessions,
             \/ SendPacketsTeardown(p) \/ EndSendPacketsTeardown(p)
             \/ Destroy(p) \/ EndDestroy(p)
      PROVE  RefsCounted'
    <2>1. UNCHANGED <<fRTPSession, fRefCount, forgotten>>
        BY <1>8 DEF SendPacketsTeardown, EndSendPacketsTeardown, Destroy, EndDestroy
    <2>2. \A q \in RTPSessions : InMap(q)' <=> InMap(q)
        BY <1>8, <1>t DEF SendPacketsTeardown, EndSendPacketsTeardown, Destroy,
                          EndDestroy, InMap, Active
    <2> QED BY <2>1, <2>2, <1>u, LeaveMap
<1>9. ASSUME NEW p \in RTPSessions, Kill(p) \/ Refresh(p) \/ TimerScan(p)
      PROVE  UNCHANGED <<fRTPSession, fRefCount, forgotten, life>>
    BY <1>9 DEF Kill, Refresh, TimerScan
<1>10. CASE UNCHANGED <<fRTPSession, fRefCount, forgotten, life>>
    BY <1>10, <1>u, LeaveMap DEF InMap
<1>11. CASE UNCHANGED vars
    BY <1>10, <1>11 DEF vars
<1> QED BY <1>1, <1>2, <1>3, <1>4, <1>5, <1>6, <1>7, <1>8, <1>9, <1>10, <1>11
        DEF Next, ClientStep, RTSPRun, RTPRun

LEMMA CountedInvariant == Spec => []Counted
<1>1. Counted /\ [Next]_vars => Counted'
    BY TypeOKStep, StageStep, RefsStep DEF Counted, RefsCounted
<1> QED BY <1>1, CountedInit, PTL DEF Spec

\* The variables of connections and sessions keep their types: no reference count
\* goes below zero, for any number of connections.
THEOREM TypeCorrect == Spec => []TypeOK
<1>1. Counted => TypeOK
    BY DEF Counted
<1> QED BY <1>1, CountedInvariant, PTL

\* While a connection works on an RTP session the session stays in the map: Run
\* takes it out only at a count of zero (RTPSession.cpp:562-571).
THEOREM NoSessionClosesUnderARequest == Spec => []ResolvedIsActive
<1>1. Counted => ResolvedIsActive
    BY DEF Counted
<1> QED BY <1>1, CountedInvariant, PTL

\* The reference count is the number of connections that work on the session, and
\* of the references that the end of a connection has forgotten
\* (RTSPSession.cpp:1106).
THEOREM ReferencesAreAccountedFor == Spec => []RefsMatchUsers
<1>1. Counted => RefsMatchUsers
    BY DEF Counted
<1> QED BY <1>1, CountedInvariant, PTL

-----------------------------------------------------------------------------
(* The holders. *)

HoldersOf(c) == {p \in RTPSessions : Holds(p, c)}

\* Nobody starts to handle a session that somebody handles: that is a race.
OneHandler ==
    \A p \in RTPSessions : \A x, y \in Handling(p) : x = y

Exact == \A c \in RTSPSessions : fObjectHolders[c] = Cardinality(HoldersOf(c))

NoneDeleted == \A c \in RTSPSessions : fState[c] = "deleted" => HoldersOf(c) = {}

Settled == OneHandler /\ Exact /\ NoneDeleted

Held == Counted /\ (~raced => Settled)

\* The number of the holders of a connection is below the modulus.
LEMMA HoldersAreFew ==
    ASSUME NEW c
    PROVE  /\ IsFiniteSet(HoldersOf(c))
           /\ Cardinality(HoldersOf(c)) \in 0 .. HolderModulus - 1
           /\ HolderModulus \in Nat
           /\ Cardinality(HoldersOf(c)) = 0 <=> HoldersOf(c) = {}
<1>1. HoldersOf(c) \subseteq RTPSessions /\ IsFiniteSet(RTPSessions)
    BY ConstantsAssumption DEF HoldersOf
<1>2. /\ IsFiniteSet(HoldersOf(c))
      /\ Cardinality(HoldersOf(c)) <= Cardinality(RTPSessions)
    BY <1>1, FS_Subset
<1>3. Cardinality(HoldersOf(c)) \in Nat /\ Cardinality(RTPSessions) \in Nat
    BY <1>1, <1>2, FS_CardinalityType
<1>4. HolderModulus \in Nat /\ HolderModulus > Cardinality(RTPSessions)
    BY ConstantsAssumption
<1>5. Cardinality(HoldersOf(c)) = 0 <=> HoldersOf(c) = {}
    BY <1>2, FS_EmptySet
<1> HIDE DEF HoldersOf
<1> QED BY <1>2, <1>3, <1>4, <1>5

\* One holder less, or one more, wraps at neither end.
LEMMA OneHolderLess ==
    ASSUME NEW c, NEW p \in HoldersOf(c), NEW n, n = Cardinality(HoldersOf(c))
    PROVE  (n + HolderModulus - 1) % HolderModulus = Cardinality(HoldersOf(c) \ {p})
<1>1. /\ IsFiniteSet(HoldersOf(c)) /\ HolderModulus \in Nat
      /\ n \in 0 .. HolderModulus - 1
      /\ n # 0
    BY HoldersAreFew
<1>2. Cardinality(HoldersOf(c) \ {p}) = n - 1
    BY <1>1, FS_RemoveElement
<1>3. (n + HolderModulus - 1) % HolderModulus = n - 1
    <2>1. /\ n - 1 \in 0 .. HolderModulus - 1
          /\ n + HolderModulus - 1 = HolderModulus * 1 + (n - 1)
        BY <1>1
    <2> QED BY <1>1, <2>1
<1> QED BY <1>2, <1>3

LEMMA OneHolderMore ==
    ASSUME NEW c, NEW p \in RTPSessions, p \notin HoldersOf(c),
           NEW n, n = Cardinality(HoldersOf(c))
    PROVE  (n + 1) % HolderModulus = Cardinality(HoldersOf(c) \cup {p})
<1>1. /\ IsFiniteSet(HoldersOf(c)) /\ HolderModulus \in Nat
      /\ n \in 0 .. HolderModulus - 1
    BY HoldersAreFew
<1>2. Cardinality(HoldersOf(c) \cup {p}) = n + 1
    BY <1>1, FS_AddElement
<1>3. HoldersOf(c) \cup {p} \subseteq RTPSessions /\ IsFiniteSet(RTPSessions)
    BY ConstantsAssumption DEF HoldersOf
<1>4. n + 1 <= Cardinality(RTPSessions) /\ Cardinality(RTPSessions) \in Nat
    BY <1>2, <1>3, FS_Subset, FS_CardinalityType
<1>5. n + 1 \in 0 .. HolderModulus - 1
    BY <1>1, <1>4, ConstantsAssumption
<1>6. (n + 1) % HolderModulus = n + 1
    BY <1>1, <1>5
<1> QED BY <1>2, <1>6

\* A step that touches neither pointers, counters nor handlers.
LEMMA Quiet ==
    ASSUME Settled, UNCHANGED <<fRTSPSession, fObjectHolders>>,
           \A q \in RTPSessions : Handling(q)' = Handling(q),
           \A c \in RTSPSessions : fState'[c] = "deleted" =>
               fState[c] = "deleted" \/ fObjectHolders[c] = 0
    PROVE  Settled'
<1>1. \A c : HoldersOf(c)' = HoldersOf(c)
    BY DEF HoldersOf, Holds
<1>2. OneHandler'
    BY DEF Settled, OneHandler
<1>3. Exact'
    BY <1>1 DEF Settled, Exact
<1>4. NoneDeleted'
    <2> SUFFICES ASSUME NEW c \in RTSPSessions, fState'[c] = "deleted"
                 PROVE  HoldersOf(c) = {}
        BY <1>1 DEF NoneDeleted
    <2>1. CASE fObjectHolders[c] = 0
        BY <2>1, HoldersAreFew DEF Settled, Exact
    <2> QED BY <2>1 DEF Settled, NoneDeleted
<1> QED BY <1>2, <1>3, <1>4 DEF Settled

\* Somebody begins to handle a session.
LEMMA Begin ==
    ASSUME TypeOK, Settled, NEW x \in RTSPSessions \cup RTPSessions, NEW p \in RTPSessions,
           LetGo(x, p), ~raced', UNCHANGED fRTSPSession,
           Handling(p)' = Handling(p) \cup {x},
           \A q \in RTPSessions \ {p} : Handling(q)' = Handling(q),
           \A c \in RTSPSessions : fState'[c] = "deleted" => fState[c] = "deleted"
    PROVE  Settled'
<1>1. Handling(p) = {}
    BY DEF LetGo
<1>2. OneHandler'
    BY <1>1 DEF Settled, OneHandler
<1>3. \A c : HoldersOf(c)' = HoldersOf(c) \ {p}
    BY DEF HoldersOf, Holds
<1>4. \A c : p \in HoldersOf(c) <=> fRTSPSession[p] = c
    BY <1>1 DEF HoldersOf, Holds
<1>5. Exact'
    <2> SUFFICES ASSUME NEW c \in RTSPSessions
                 PROVE  fObjectHolders'[c] = Cardinality(HoldersOf(c)')
        BY DEF Exact
    <2>1. fObjectHolders[c] = Cardinality(HoldersOf(c))
        BY DEF Settled, Exact
    <2>2. CASE fRTSPSession[p] = c
        <3>1. fObjectHolders'[c] = (fObjectHolders[c] + HolderModulus - 1) % HolderModulus
            BY <2>2, ConstantsAssumption DEF LetGo, DecrementObjectHolderCount, TypeOK
        <3>2. p \in HoldersOf(c)
            BY <1>4, <2>2
        <3> QED BY <1>3, <2>1, <3>1, <3>2, OneHolderLess
    <2>3. CASE fRTSPSession[p] # c
        <3>1. fObjectHolders'[c] = fObjectHolders[c]
            BY <2>3 DEF LetGo, DecrementObjectHolderCount, TypeOK
        <3>2. HoldersOf(c)' = HoldersOf(c)
            BY <1>3, <1>4, <2>3
        <3> QED BY <2>1, <3>1, <3>2
    <2> QED BY <2>2, <2>3
<1>6. NoneDeleted'
    BY <1>3 DEF Settled, NoneDeleted
<1> QED BY <1>2, <1>5, <1>6 DEF Settled

\* A session is let go for good: its pointer is NULL when it has no handler again.
LEMMA Drop ==
    ASSUME TypeOK, Settled, NEW p \in RTPSessions, Handling(p) # {},
           fRTSPSession' = [fRTSPSession EXCEPT ![p] = None],
           UNCHANGED fObjectHolders,
           Handling(p)' = {},
           \A q \in RTPSessions \ {p} : Handling(q)' = Handling(q),
           \A c \in RTSPSessions : fState'[c] = "deleted" => fState[c] = "deleted"
    PROVE  Settled'
<1>1. \A c \in RTSPSessions : HoldersOf(c)' = HoldersOf(c)
    BY ConstantsAssumption DEF HoldersOf, Holds, TypeOK
<1>2. OneHandler'
    BY DEF Settled, OneHandler
<1> QED BY <1>1, <1>2 DEF Settled, Exact, NoneDeleted

-----------------------------------------------------------------------------
Handles == {"tearing", "updating", "dropped"}

\* A connection that begins or ends to handle a session is the only change.
LEMMA HandlersOfConnection ==
    ASSUME NEW c \in RTSPSessions, NEW st,
           fState \in [RTSPSessions -> Stages],
           fRTPSession \in [RTSPSessions -> RTPSessions \cup {None}],
           fState' = [fState EXCEPT ![c] = st],
           \A d \in RTSPSessions \ {c} : fRTPSession'[d] = fRTPSession[d],
           \A q \in RTPSessions : life'[q] = "tearing" <=> life[q] = "tearing",
           NEW q \in RTPSessions
    PROVE  /\ st \in Handles /\ fRTPSession'[c] = q => Handling(q)' = Handling(q) \cup {c}
           /\ ~ (st \in Handles /\ fRTPSession'[c] = q) => Handling(q)' = Handling(q) \ {c}
           /\ c \in Handling(q) <=> (fState[c] \in Handles /\ fRTPSession[c] = q)
<1>1. c \notin RTPSessions
    BY ConstantsAssumption
<1> QED BY <1>1 DEF Handling, Handles

\* The other lemma of this kind: a session whose own Run handles it.
LEMMA HandlersOfSession ==
    ASSUME NEW p \in RTPSessions, UNCHANGED <<fState, fRTPSession>>,
           \A q \in RTPSessions \ {p} : life'[q] = life[q],
           NEW q \in RTPSessions
    PROVE  /\ q # p => Handling(q)' = Handling(q)
           /\ (life'[p] = "tearing" <=> life[p] = "tearing") => Handling(q)' = Handling(q)
           /\ life'[p] = "tearing" => Handling(p)' = Handling(p) \cup {p}
           /\ life'[p] # "tearing" => Handling(p)' = Handling(p) \ {p}
           /\ life[p] = "tearing" => p \in Handling(p)
<1>1. p \notin RTSPSessions
    BY ConstantsAssumption
<1> QED BY <1>1 DEF Handling

LEMMA SettledStep ==
    ASSUME Counted, Settled, [Next]_vars, ~raced'
    PROVE  Settled'
<1> USE DEF connVars, sessionVars
<1>t. TypeOK
    BY DEF Counted
<1>u. /\ fState \in [RTSPSessions -> Stages]
      /\ fRTPSession \in [RTSPSessions -> RTPSessions \cup {None}]
      /\ life \in [RTPSessions -> Active \cup {"unborn", "closing", "signalling", "deleted"}]
      /\ None \notin RTPSessions
    BY <1>t, ConstantsAssumption DEF TypeOK
<1>w. \A c \in RTSPSessions :
          fState[c] \in {"working", "tearing", "updating", "dropping", "dropped"}
              => fRTPSession[c] \in RTPSessions
    BY <1>u DEF Counted, StageShowsSession
\* Quiet steps of a connection.
<1>q. ASSUME NEW c \in RTSPSessions, NEW st, Goto(c, st),
             fState[c] \notin Handles, st \notin Handles,
             st = "deleted" => fObjectHolders[c] = 0,
             \A d \in RTSPSessions \ {c} : fRTPSession'[d] = fRTPSession[d],
             \A p \in RTPSessions : life'[p] = "tearing" <=> life[p] = "tearing",
             UNCHANGED <<fRTSPSession, fObjectHolders>>
      PROVE  Settled'
    <2>1. fState' = [fState EXCEPT ![c] = st]
        BY <1>q DEF Goto
    <2>2. ASSUME NEW p \in RTPSessions PROVE Handling(p)' = Handling(p)
        <3>1. /\ ~ (st \in Handles /\ fRTPSession'[c] = p) => Handling(p)' = Handling(p) \ {c}
              /\ c \in Handling(p) <=> (fState[c] \in Handles /\ fRTPSession[c] = p)
            BY <1>q, <1>u, <2>1, HandlersOfConnection
        <3> QED BY <1>q, <3>1
    <2>3. \A d \in RTSPSessions : fState'[d] = "deleted" =>
              fState[d] = "deleted" \/ fObjectHolders[d] = 0
        BY <1>q, <1>u, <2>1
    <2> QED BY <1>q, <2>2, <2>3, Quiet
\* A connection begins to handle its session.
<1>b. ASSUME NEW c \in RTSPSessions, NEW st \in Handles, Goto(c, st),
             fRTPSession[c] \in RTPSessions, LetGo(c, fRTPSession[c]),
             fState[c] \notin Handles,
             UNCHANGED <<fRTPSession, life, fRTSPSession>>
      PROVE  Settled'
    <2>1. fState' = [fState EXCEPT ![c] = st]
        BY <1>b DEF Goto
    <2> PICK p \in RTPSessions : p = fRTPSession[c]
        BY <1>b
    <2>2. ASSUME NEW q \in RTPSessions
          PROVE  Handling(q)' = IF q = p THEN Handling(q) \cup {c} ELSE Handling(q)
        <3>1. /\ st \in Handles /\ fRTPSession'[c] = q => Handling(q)' = Handling(q) \cup {c}
              /\ ~ (st \in Handles /\ fRTPSession'[c] = q) => Handling(q)' = Handling(q) \ {c}
              /\ c \in Handling(q) <=> (fState[c] \in Handles /\ fRTPSession[c] = q)
            BY <1>b, <1>u, <2>1, HandlersOfConnection
        <3> QED BY <1>b, <3>1
    <2>3. \A d \in RTSPSessions : fState'[d] = "deleted" => fState[d] = "deleted"
        BY <1>b, <1>u, <2>1 DEF Handles
    <2>4. LetGo(c, p)
        BY <1>b
    <2> QED BY <1>b, <1>t, <2>2, <2>3, <2>4, Begin
\* A connection ends its Teardown.
<1>d. ASSUME NEW c \in RTSPSessions, NEW st \in Stages \ Handles, Goto(c, st), st # "deleted",
             fRTPSession[c] \in RTPSessions, FinishTeardown(c, fRTPSession[c]),
             fState[c] \in Handles,
             \A d \in RTSPSessions \ {c} : fRTPSession'[d] = fRTPSession[d],
             UNCHANGED <<life, fObjectHolders>>
      PROVE  Settled'
    <2>1. fState' = [fState EXCEPT ![c] = st]
        BY <1>d DEF Goto
    <2> PICK p \in RTPSessions : p = fRTPSession[c]
        BY <1>d
    <2>2. \A q \in RTPSessions :
              /\ Handling(q)' = Handling(q) \ {c}
              /\ c \in Handling(q) <=> q = p
        BY <1>d, <1>u, <2>1, HandlersOfConnection
    <2>3. Handling(p) = {c}
        BY <1>d, <2>2 DEF Settled, OneHandler
    <2>4. /\ Handling(p) # {} /\ Handling(p)' = {}
          /\ \A q \in RTPSessions \ {p} : Handling(q)' = Handling(q)
        BY <1>d, <2>2, <2>3
    <2>5. \A d \in RTSPSessions : fState'[d] = "deleted" => fState[d] = "deleted"
        BY <1>d, <1>u, <2>1
    <2>6. fRTSPSession' = [fRTSPSession EXCEPT ![p] = None]
        BY <1>d DEF FinishTeardown
    <2> QED BY <1>d, <1>t, <2>4, <2>5, <2>6, Drop
<1>1. ASSUME NEW c \in RTSPSessions, ClientStep(c) PROVE Settled'
    <2>1. CASE FindRTPSession(c) \/ HandleIncomingDataPacket(c) \/ AnswerWithoutSession(c)
        <3>1. PICK st \in {"working", "post", "sending"} : Goto(c, st)
            BY <2>1 DEF FindRTPSession, HandleIncomingDataPacket, AnswerWithoutSession
        <3>2. /\ fState[c] = "reading"
              /\ \A d \in RTSPSessions \ {c} : fRTPSession'[d] = fRTPSession[d]
              /\ UNCHANGED <<fRTSPSession, fObjectHolders, life>>
            BY <2>1, <1>u DEF FindRTPSession, HandleIncomingDataPacket, AnswerWithoutSession
        <3> QED BY <3>1, <3>2, <1>q DEF Handles
    <2>2. CASE CreateNewRTPSession(c)
        <3>1. /\ fState[c] = "reading" /\ Goto(c, "working")
              /\ \A d \in RTSPSessions \ {c} : fRTPSession'[d] = fRTPSession[d]
              /\ UNCHANGED <<fRTSPSession, fObjectHolders>>
            BY <2>2, <1>u DEF CreateNewRTPSession
        <3>2. \A p \in RTPSessions : life'[p] = "tearing" <=> life[p] = "tearing"
            BY <2>2, <1>u DEF CreateNewRTPSession
        <3> QED BY <3>1, <3>2, <1>q DEF Handles
    <2>3. CASE Lose(c)
        <3>1. UNCHANGED <<fState, fRTPSession, life, fRTSPSession, fObjectHolders>>
            BY <2>3 DEF Lose
        <3>2. \A q : Handling(q)' = Handling(q)
            BY <3>1 DEF Handling
        <3> QED BY <3>1, <3>2, Quiet
    <2> QED BY <1>1, <2>1, <2>2, <2>3 DEF ClientStep
<1>2. ASSUME NEW c \in RTSPSessions, CallModules(c) \/ GiveUp(c) \/ WakeDead(c)
      PROVE  Settled'
    <2>1. PICK st \in {"post", "ending"} : Goto(c, st)
        BY <1>2 DEF CallModules, GiveUp, WakeDead
    <2>2. /\ fState[c] \notin Handles
          /\ UNCHANGED <<fRTPSession, fRTSPSession, fObjectHolders, life>>
        BY <1>2 DEF CallModules, GiveUp, WakeDead, Handles
    <2> QED BY <2>1, <2>2, <1>q DEF Handles
<1>3. ASSUME NEW c \in RTSPSessions, FinishRequest(c) PROVE Settled'
    <2>1. PICK st \in {"reading", "ending"} : Goto(c, st)
        BY <1>3 DEF FinishRequest
    <2>2. /\ fState[c] = "sending"
          /\ \A d \in RTSPSessions \ {c} : fRTPSession'[d] = fRTPSession[d]
          /\ UNCHANGED <<fRTSPSession, fObjectHolders, life>>
        BY <1>3, <1>u DEF FinishRequest, CleanupRequest
    <2> QED BY <2>1, <2>2, <1>q DEF Handles
<1>4. ASSUME NEW c \in RTSPSessions, ResolveLast(c) PROVE Settled'
    <2>1. PICK st \in {"dropping", "final"} : Goto(c, st)
        BY <1>4 DEF ResolveLast
    <2>2. /\ fState[c] = "ending"
          /\ \A d \in RTSPSessions \ {c} : fRTPSession'[d] = fRTPSession[d]
          /\ UNCHANGED <<fRTSPSession, fObjectHolders, life>>
        BY <1>4, <1>u DEF ResolveLast
    <2> QED BY <2>1, <2>2, <1>q DEF Handles
<1>5. ASSUME NEW c \in RTSPSessions, EndRun(c) PROVE Settled'
    <2>1. PICK st \in {"deleted", "dead"} :
              Goto(c, st) /\ (st = "deleted" => fObjectHolders[c] = 0)
        BY <1>5 DEF EndRun, MayDelete
    <2>2. /\ fState[c] = "final"
          /\ \A d \in RTSPSessions \ {c} : fRTPSession'[d] = fRTPSession[d]
          /\ UNCHANGED <<fRTSPSession, fObjectHolders, life>>
        BY <1>5, <1>u DEF EndRun, CleanupRequest
    <2> QED BY <2>1, <2>2, <1>q DEF Handles
<1>6. ASSUME NEW c \in RTSPSessions, BeginTeardown(c) \/ DropSession(c) PROVE Settled'
    <2>1. PICK st \in {"tearing", "dropped"} : Goto(c, st)
        BY <1>6 DEF BeginTeardown, DropSession
    <2>2. /\ fState[c] \in {"working", "dropping"}
          /\ LetGo(c, fRTPSession[c])
          /\ UNCHANGED <<fRTPSession, fRTSPSession, life>>
        BY <1>6 DEF BeginTeardown, DropSession
    <2> QED BY <2>1, <2>2, <1>w, <1>b DEF Handles
<1>7. ASSUME NEW c \in RTSPSessions, PostProcess(c) PROVE Settled'
    <2>1. /\ fState[c] = "post"
          /\ UNCHANGED <<fRTPSession, fRTSPSession, life>>
          /\ \/ /\ fRTPSession[c] # None
                /\ LetGo(c, fRTPSession[c]) /\ Goto(c, "updating")
             \/ Goto(c, "sending") /\ UNCHANGED fObjectHolders
        BY <1>7 DEF PostProcess
    <2>2. CASE Goto(c, "sending") /\ UNCHANGED fObjectHolders
        BY <2>1, <2>2, <1>q DEF Handles
    <2>3. CASE fRTPSession[c] # None /\ LetGo(c, fRTPSession[c]) /\ Goto(c, "updating")
        <3>1. fRTPSession[c] \in RTPSessions
            BY <2>3, <1>u
        <3> QED BY <2>1, <2>3, <3>1, <1>b DEF Handles
    <2> QED BY <2>1, <2>2, <2>3
<1>8. ASSUME NEW c \in RTSPSessions, EndTeardown(c) \/ EndDrop(c) PROVE Settled'
    <2>1. PICK st \in {"post", "final"} : Goto(c, st)
        BY <1>8 DEF EndTeardown, EndDrop
    <2>2. /\ fState[c] \in {"tearing", "dropped"}
          /\ FinishTeardown(c, fRTPSession[c])
          /\ \A d \in RTSPSessions \ {c} : fRTPSession'[d] = fRTPSession[d]
          /\ UNCHANGED <<fObjectHolders, life>>
        BY <1>8, <1>u DEF EndTeardown, EndDrop
    <2>3. st \in Stages \ Handles /\ st # "deleted" /\ fState[c] \in Handles
        BY <2>1, <2>2 DEF Stages, Handles
    <2>4. fRTPSession[c] \in RTPSessions
        BY <2>2, <1>w
    <2> QED BY <2>1, <2>2, <2>3, <2>4, <1>d
<1>9. ASSUME NEW c \in RTSPSessions, EndUpdate(c) PROVE Settled'
    <2> PICK p \in RTPSessions : p = fRTPSession[c]
        BY <1>9, <1>w DEF EndUpdate
    <2>1. /\ fState' = [fState EXCEPT ![c] = "sending"]
          /\ fState[c] = "updating"
          /\ fRTSPSession' = [fRTSPSession EXCEPT ![p] = c]
          /\ fObjectHolders' = [fObjectHolders EXCEPT ![c] = (@ + 1) % HolderModulus]
          /\ UNCHANGED <<fRTPSession, life>>
        BY <1>9, <1>w DEF EndUpdate, Goto
    <2>2. \A q \in RTPSessions :
              /\ Handling(q)' = Handling(q) \ {c}
              /\ c \in Handling(q) <=> q = p
        <3> SUFFICES ASSUME NEW q \in RTPSessions
                     PROVE  /\ Handling(q)' = Handling(q) \ {c}
                            /\ c \in Handling(q) <=> q = p
            OBVIOUS
        <3>1. "sending" \notin Handles /\ fState[c] \in Handles
            BY <2>1 DEF Handles
        <3> QED BY <1>u, <2>1, <3>1, HandlersOfConnection
    <2>3. Handling(p) = {c} /\ Handling(p)' = {}
        <3>1. c \in Handling(p) /\ Handling(p)' = Handling(p) \ {c}
            BY <2>2
        <3>2. \A x, y \in Handling(p) : x = y
            BY DEF Settled, OneHandler
        <3> QED BY ONLY <3>1, <3>2
    <2>4. \A q \in RTPSessions \ {p} : Handling(q)' = Handling(q)
        BY <2>2
    <2>5. OneHandler'
        BY <2>2 DEF Settled, OneHandler
    <2>6. /\ p \notin HoldersOf(c)
          /\ HoldersOf(c)' = HoldersOf(c) \cup {p}
          /\ \A d \in RTSPSessions \ {c} : HoldersOf(d)' = HoldersOf(d)
        <3>1. fRTSPSession \in [RTPSessions -> RTSPSessions \cup {None}]
            BY <1>t DEF TypeOK
        <3>2. ASSUME NEW d \in RTSPSessions, NEW q \in RTPSessions \ {p}
              PROVE  Holds(q, d)' <=> Holds(q, d)
            <4>1. fRTSPSession'[q] = fRTSPSession[q] /\ Handling(q)' = Handling(q)
                BY <2>1, <2>4, <3>1, <3>2
            <4> QED BY <4>1 DEF Holds
        <3>3. ASSUME NEW d \in RTSPSessions
              PROVE  ~ Holds(p, d) /\ (Holds(p, d)' <=> d = c)
            <4>1. fRTSPSession'[p] = c
                BY <2>1, <3>1
            <4>2. Handling(p) # {} /\ Handling(p)' = {}
                BY <2>3
            <4> QED BY ONLY <4>1, <4>2 DEF Holds
        <3> HIDE DEF Holds
        <3> QED BY <3>2, <3>3 DEF HoldersOf
    <2>7. Exact'
        <3> SUFFICES ASSUME NEW d \in RTSPSessions
                     PROVE  fObjectHolders'[d] = Cardinality(HoldersOf(d)')
            BY DEF Exact
        <3>1. fObjectHolders[d] = Cardinality(HoldersOf(d))
            BY DEF Settled, Exact
        <3>2. CASE d = c
            <4>1. fObjectHolders'[c] = (fObjectHolders[c] + 1) % HolderModulus
                BY <1>t, <2>1 DEF TypeOK
            <4> QED BY <2>1, <2>6, <3>1, <3>2, <4>1, OneHolderMore
        <3>3. CASE d # c
            BY <1>t, <2>1, <2>6, <3>1, <3>3 DEF TypeOK
        <3> QED BY <3>2, <3>3
    <2>8. NoneDeleted'
        BY <1>u, <2>1, <2>6 DEF Settled, NoneDeleted
    <2> QED BY <2>5, <2>7, <2>8 DEF Settled
<1>10. ASSUME NEW p \in RTPSessions,
              \/ Kill(p) \/ Refresh(p) \/ TimerScan(p) \/ RunKilled(p) \/ EndDestroy(p)
       PROVE  Settled'
    <2>1. /\ UNCHANGED <<fState, fRTPSession, fRTSPSession, fObjectHolders>>
          /\ \A q \in RTPSessions : life'[q] = "tearing" <=> life[q] = "tearing"
        BY <1>10, <1>u DEF Kill, Refresh, TimerScan, RunKilled, EndDestroy
    <2>2. \A q \in RTPSessions : Handling(q)' = Handling(q)
        BY <2>1 DEF Handling
    <2> QED BY <2>1, <2>2, Quiet
<1>11. ASSUME NEW p \in RTPSessions, SendPacketsTeardown(p) PROVE Settled'
    <2>1. /\ LetGo(p, p) /\ life' = [life EXCEPT ![p] = "tearing"]
          /\ UNCHANGED <<fState, fRTPSession, fRTSPSession>>
        BY <1>11 DEF SendPacketsTeardown
    <2>2. /\ Handling(p)' = Handling(p) \cup {p}
          /\ \A q \in RTPSessions \ {p} : Handling(q)' = Handling(q)
        BY <1>u, <2>1, HandlersOfSession
    <2> QED BY <1>t, <2>1, <2>2, Begin
<1>12. ASSUME NEW p \in RTPSessions, EndSendPacketsTeardown(p) PROVE Settled'
    <2>1. /\ life[p] = "tearing" /\ life' = [life EXCEPT ![p] = "active"]
          /\ FinishTeardown(p, p)
          /\ UNCHANGED <<fState, fRTPSession, fObjectHolders>>
        BY <1>12 DEF EndSendPacketsTeardown
    <2>2. /\ Handling(p)' = Handling(p) \ {p} /\ p \in Handling(p)
          /\ \A q \in RTPSessions \ {p} : Handling(q)' = Handling(q)
        BY <1>u, <2>1, HandlersOfSession
    <2>3. Handling(p) # {} /\ Handling(p)' = {}
        BY <2>2 DEF Settled, OneHandler
    <2> QED BY <1>t, <2>1, <2>2, <2>3, Drop DEF FinishTeardown
<1>13. ASSUME NEW p \in RTPSessions, Destroy(p) PROVE Settled'
    <2>1. /\ life[p] = "closing" /\ life' = [life EXCEPT ![p] = "signalling"]
          /\ fRTSPSession' = [fRTSPSession EXCEPT ![p] = None]
          /\ UNCHANGED <<fState, fRTPSession>>
          /\ IF fRTSPSession[p] = None THEN UNCHANGED <<fObjectHolders, owed>>
             ELSE DecrementObjectHolderCount(p, fRTSPSession[p])
        BY <1>13 DEF Destroy
    <2>2. \A q \in RTPSessions : Handling(q)' = Handling(q)
        BY <1>u, <2>1, HandlersOfSession
    <2>3. Handling(p) = {}
        <3>1. \A c \in RTSPSessions : fRTPSession[c] # p
            BY <2>1, <1>u DEF Counted, ResolvedIsActive, InMap, Active
        <3> QED BY <2>1, <3>1 DEF Handling
    <2>4. /\ \A c \in RTSPSessions : HoldersOf(c)' = HoldersOf(c) \ {p}
          /\ \A c \in RTSPSessions : p \in HoldersOf(c) <=> fRTSPSession[p] = c
        BY <1>t, <2>1, <2>2, <2>3, ConstantsAssumption DEF HoldersOf, Holds, TypeOK
    <2>5. Exact'
        <3> SUFFICES ASSUME NEW c \in RTSPSessions
                     PROVE  fObjectHolders'[c] = Cardinality(HoldersOf(c)')
            BY DEF Exact
        <3>1. fObjectHolders[c] = Cardinality(HoldersOf(c))
            BY DEF Settled, Exact
        <3>2. CASE fRTSPSession[p] = c
            <4>1. fObjectHolders'[c] = (fObjectHolders[c] + HolderModulus - 1) % HolderModulus
                BY <1>t, <2>1, <3>2, ConstantsAssumption DEF DecrementObjectHolderCount, TypeOK
            <4> QED BY <2>4, <3>1, <3>2, <4>1, OneHolderLess
        <3>3. CASE fRTSPSession[p] # c
            <4>1. fObjectHolders'[c] = fObjectHolders[c]
                BY <1>t, <2>1, <3>3 DEF DecrementObjectHolderCount, TypeOK
            <4>2. HoldersOf(c)' = HoldersOf(c)
                BY <2>4, <3>3
            <4> QED BY <3>1, <4>1, <4>2
        <3> QED BY <3>2, <3>3
    <2>6. OneHandler' /\ NoneDeleted'
        BY <2>1, <2>2, <2>4 DEF Settled, OneHandler, NoneDeleted
    <2> QED BY <2>5, <2>6 DEF Settled
<1>14. CASE UNCHANGED vars
    <2>1. UNCHANGED <<fState, fRTPSession, life, fRTSPSession, fObjectHolders>>
        BY <1>14 DEF vars
    <2>2. \A q : Handling(q)' = Handling(q)
        BY <2>1 DEF Handling
    <2> QED BY <2>1, <2>2, Quiet
<1> QED BY <1>1, <1>2, <1>3, <1>4, <1>5, <1>6, <1>7, <1>8, <1>9, <1>10, <1>11,
           <1>12, <1>13, <1>14
        DEF Next, RTSPRun, RTPRun

\* Who has raced once has raced.
LEMMA RacedStays ==
    ASSUME [Next]_vars, raced PROVE raced'
<1> USE DEF connVars, sessionVars
<1>1. ASSUME NEW c \in RTSPSessions, ClientStep(c) PROVE raced' = raced
    BY <1>1 DEF ClientStep, FindRTPSession, CreateNewRTPSession, AnswerWithoutSession,
                HandleIncomingDataPacket, Lose
<1>2. ASSUME NEW c \in RTSPSessions, RTSPRun(c) PROVE raced'
    <2>1. CASE \/ CallModules(c) \/ EndTeardown(c) \/ EndUpdate(c) \/ FinishRequest(c)
               \/ GiveUp(c) \/ ResolveLast(c) \/ EndDrop(c) \/ EndRun(c) \/ WakeDead(c)
        BY <2>1 DEF CallModules, EndTeardown, EndUpdate, FinishRequest, GiveUp,
                    ResolveLast, EndDrop, EndRun, WakeDead
    <2>2. CASE BeginTeardown(c) \/ PostProcess(c) \/ DropSession(c)
        BY <2>2 DEF BeginTeardown, PostProcess, DropSession, LetGo
    <2> QED BY <1>2, <2>1, <2>2 DEF RTSPRun
<1>3. ASSUME NEW p \in RTPSessions,
             \/ Kill(p) \/ Refresh(p) \/ TimerScan(p) \/ SendPacketsTeardown(p) \/ RTPRun(p)
      PROVE  raced'
    BY <1>3 DEF Kill, Refresh, TimerScan, SendPacketsTeardown, RTPRun,
                EndSendPacketsTeardown, RunKilled, Destroy, EndDestroy, LetGo
<1>4. CASE UNCHANGED vars
    BY <1>4 DEF vars
<1> QED BY <1>1, <1>2, <1>3, <1>4 DEF Next

LEMMA SettledInit == Init => Settled
<1> SUFFICES ASSUME Init PROVE Settled
    OBVIOUS
<1>1. \A p \in RTPSessions : Handling(p) = {}
    BY DEF Init, Handling
<1>2. \A c \in RTSPSessions : HoldersOf(c) = {}
    BY ConstantsAssumption DEF Init, HoldersOf, Holds
<1>3. \A c \in RTSPSessions : Cardinality(HoldersOf(c)) = 0
    BY <1>2, HoldersAreFew
<1> QED BY <1>1, <1>2, <1>3 DEF Init, Settled, OneHandler, Exact, NoneDeleted

LEMMA HeldInvariant == Spec => []Held
<1>1. Init => Held
    BY CountedInit, SettledInit DEF Held
<1>2. Held /\ [Next]_vars => Held'
    <2> SUFFICES ASSUME Held, [Next]_vars PROVE Held'
        OBVIOUS
    <2>1. Counted'
        BY TypeOKStep, StageStep, RefsStep DEF Held, Counted, RefsCounted
    <2>2. ~raced' => Settled'
        BY SettledStep, RacedStays DEF Held
    <2> QED BY <2>1, <2>2 DEF Held
<1> QED BY <1>1, <1>2, PTL DEF Spec

\* Unless two actors handle one pointer at once, fObjectHolders of a connection is
\* the number of RTP sessions that point at it: it never wraps, and no decrement is
\* lost or made twice (RTSPSessionInterface.cpp:160-170).
THEOREM HoldersAreCounted == Spec => []HoldersCounted
<1>1. Held => HoldersCounted
    BY DEF Held, Settled, Exact, HoldersCounted, HoldersOf
<1> QED BY <1>1, HeldInvariant, PTL

\* A connection that an RTP session points at is not deleted (RTSPSessionInterface.h:
\* 64), with the same exception.
THEOREM HeldOutlivesHolders == Spec => []HeldIsNotDeleted
<1>1. Held => HeldIsNotDeleted
    BY DEF Held, Settled, NoneDeleted, HeldIsNotDeleted, HoldersOf
<1> QED BY <1>1, HeldInvariant, PTL
=============================================================================
