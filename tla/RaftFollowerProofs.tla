------------------------- MODULE RaftFollowerProofs -------------------------
(***************************************************************************)
(* The steps of followers: the calls that one refuses and accepts, the     *)
(* snapshots it installs, the applier and Snapshot do what LogPreserved    *)
(* and CommitPreserved ask of a step.                                      *)
(***************************************************************************)
EXTENDS RaftStepProofs

-----------------------------------------------------------------------------
(* AppendEntries, refused *)

\* A call from a leader promotes nobody, and its callee follows.
LEMMA FollowLeaderRoles ==
  ASSUME TypeOK, NEW i \in Server, NEW term \in Nat, FollowLeader(i, term)
  PROVE  /\ RolesStep /\ NoPromotion
         /\ currentTerm'[i] = term
<1> DEFINE x == IF term > currentTerm[i] \/ role[i] = "Candidate" THEN "Follower" ELSE role[i]
<1>1. /\ role' = [role EXCEPT ![i] = x] /\ currentTerm' = [currentTerm EXCEPT ![i] = term]
      /\ term >= currentTerm[i]
  BY Zenon DEF FollowLeader
<1>2. currentTerm[i] \in Nat
  BY Zenon DEF TypeOK
<1>3. x # "Candidate" /\ (x = "Leader" => role[i] = "Leader" /\ term = currentTerm[i])
  BY <1>1, <1>2
<1> HIDE DEF x
<1>4. RolesStep
  BY Zenon, <1>1, <1>3, OneRole
<1>5. NoPromotion
  BY Zenon, <1>1, <1>3 DEF TypeOK, NoPromotion
<1>6. currentTerm'[i] = term
  BY Zenon, <1>1 DEF TypeOK
<1>7. QED
  BY Zenon, <1>4, <1>5, <1>6

\* AppendEntries promotes nobody.
LEMMA AppendRoles ==
  ASSUME TypeOK, NEW m \in aeArgs, AppendEntries(m)
  PROVE  RolesStep /\ NoPromotion
<1>1. m.to \in Server /\ m.term \in Nat
  BY Zenon DEF TypeOK, AppendEntriesArgs
<1>2. CASE RejectAppend(m)
  BY Zenon, <1>2, SameRoles DEF RejectAppend, electionVars, NoPromotion
<1>3. CASE FollowLeader(m.to, m.term)
  BY Zenon, <1>1, <1>3, FollowLeaderRoles
<1>4. QED
  BY Zenon, <1>2, <1>3 DEF AppendEntries, MissingPrev, ConflictingPrev, AcceptAppend

\* Types of an AppendEntries call.
AppendTypes(m) ==
  /\ m.from \in Server /\ m.to \in Server /\ m.term \in Nat
  /\ m.prevLogIndex \in Nat /\ m.entries \in Seq(Entry) /\ Len(m.entries) \in Nat
  /\ m.leaderCommit \in Nat

\* Types of a call.
LEMMA AppendTyped ==
  ASSUME TypeOK, NEW m \in aeArgs
  PROVE  AppendTypes(m)
<1>1. m \in AppendEntriesArgs
  BY Zenon DEF TypeOK
<1>2. /\ m.from \in Server /\ m.to \in Server /\ m.term \in Nat
      /\ m.prevLogIndex \in Nat /\ m.entries \in Seq(Entry) /\ m.leaderCommit \in Nat
  BY Zenon, <1>1 DEF AppendEntriesArgs
<1>3. QED
  BY Zenon, <1>2, LenType DEF AppendTypes

\* What a peer knows to be committed is what every leader of its term or a later one has.
LEMMA CommittedInLater ==
  ASSUME Majorities, NEW H, NEW T, NEW A, LogInv(H, T), CommitInv(H, T, A), TypeOK, NEW i \in Server,
         NEW t \in T, currentTerm[i] <= t, NEW n \in Nat, n <= commitIndex[i]
  PROVE  Reaches(i, H, t, n)
<1>1. Histories(H, T) /\ A \in Acks /\ Elected(H, T, A, currentTerm)
  BY Zenon DEF LogInv, CommitInv
<1>2. Stands(H, T, A)
  BY Zenon, <1>1, ElectedStands
<1>3. LastTypes(i, H, T)
  BY Zenon, LastTyped
<1>4. PICK c \in Nat : c = commitIndex[i]
  BY Zenon DEF TypeOK
<1>5. PICK w \in T : w = LastLogTerm(i)
  BY Zenon, <1>3 DEF LastTypes
<1>6. Len(H[w]) \in Nat /\ currentTerm[i] \in Nat /\ LastLogIndex(i) \in Nat
  BY Zenon, <1>3, <1>5 DEF LastTypes
<1>7. Len(H[t]) \in Nat
  BY Zenon, <1>1, HistoryType
<1>8. c <= LastLogIndex(i) /\ Committed(c, currentTerm[i], H[w], H, T, A)
  BY Zenon, <1>4, <1>5 DEF CommitInv, CommitFits, KnownCommitted
<1>9. AgreeUpTo(H[w], H[t], c)
  BY Zenon, <1>1, <1>2, <1>6, <1>8, CommittedStands
<1>10. AgreeUpTo(H[w], H[t], n)
  BY Zenon, <1>4, <1>6, <1>7, <1>9, AgreeShorter
<1>11. n <= LastLogIndex(i)
  BY Zenon, <1>4, <1>6, <1>8, AtMost
<1>12. QED
  BY Zenon, <1>5, <1>10, <1>11 DEF Reaches

\* AppendEntries, refused: the conflict it names lets the leader back up.
LEMMA RefusedAdvances ==
  \A H, T, A :
    Ready(H, T, A) /\ (\E m \in aeArgs : RejectAppend(m) \/ MissingPrev(m) \/ ConflictingPrev(m)) =>
      Advances(H, T, A)
\* What a call that follows its term's leader says about that leader's log.
<1>AppendReach. ASSUME NEW H, NEW T, Histories(H, T), NEW m, AppendTypes(m), AppendFollows(m, H, T)
      PROVE  /\ m.prevLogIndex <= Len(H[m.term])
             /\ TermOf(H[m.term], m.prevLogIndex) \in Nat
  <2> USE <1>AppendReach
  <2>1. m.term \in T /\ m.prevLogIndex + Len(m.entries) <= Len(H[m.term])
    BY Zenon DEF AppendFollows, Carries
  <2>2. Len(H[m.term]) \in Nat
    BY Zenon, <2>1, HistoryType
  <2>3. m.prevLogIndex <= Len(H[m.term]) /\ m.prevLogIndex \in 0..Len(H[m.term])
    BY <2>1, <2>2 DEF AppendTypes
  <2>4. QED
    BY Zenon, <2>1, <2>3, HistoryTerm
<1>RefusedLog. ASSUME NEW H, NEW T, LogInv(H, T), TypeOK, NEW m \in aeArgs,
             RejectAppend(m) \/ MissingPrev(m) \/ ConflictingPrev(m)
      PROVE  LogStep(H, T, H, T)
  <2> USE <1>RefusedLog
  <2> DEFINE i == m.to
  <2>0. AppendTypes(m) /\ HeldTypes(i)
    BY Zenon, AppendTyped, HeldTyped DEF AppendTypes
  <2>1. UNCHANGED logVars /\ (Persist(i) \/ UNCHANGED persister)
    BY Zenon DEF RejectAppend, MissingPrev, ConflictingPrev, PersistIf, logVars
  <2>2. \A j \in Server : Keeps(j)
    BY Zenon, <2>0, <2>1, PersistKeeps, KeptIsKept DEF AppendTypes
  <2>3. \A j \in Server : role'[j] = "Leader" => role[j] = "Leader"
    BY Zenon, AppendRoles DEF AppendEntries, NoPromotion
  <2>4. aeArgs' = aeArgs /\ isArgs' = isArgs
    BY Zenon DEF RejectAppend, MissingPrev, ConflictingPrev, isNet
  <2>5. AppendFollows(m, H, T) /\ Histories(H, T)
    BY Zenon DEF LogInv
  <2>6. /\ m.prevLogIndex <= Len(H[m.term]) /\ TermOf(H[m.term], m.prevLogIndex) \in Nat
        /\ m.term \in T /\ m.prevLogTerm = TermOf(H[m.term], m.prevLogIndex)
    BY Zenon, <2>0, <2>5, <1>AppendReach DEF AppendFollows
  <2> HIDE DEF i
  <2>7. ASSUME NEW r, NEW term, NEW ct, NEW ci,
               r = [from |-> i, to |-> m.from, reqTerm |-> m.term,
                    prevLogIndex |-> m.prevLogIndex, count |-> Len(m.entries), term |-> term,
                    success |-> FALSE, conflictTerm |-> ct, conflictIndex |-> ci],
               \/ term # m.term
               \/ ci # m.prevLogIndex + 1 /\ ct # m.prevLogTerm
        PROVE  Refuses(r, H, T)
    <3>1. /\ r.reqTerm = m.term /\ r.prevLogIndex = m.prevLogIndex /\ r.term = term
          /\ r.conflictTerm = ct /\ r.conflictIndex = ci
      BY Zenon, <2>7
    <3>2. QED
      BY Zenon, <2>6, <2>7, <3>1 DEF Refuses
  <2>8. ASSUME NEW r \in aeReplies', r \notin aeReplies PROVE Refuses(r, H, T)
    <3>1. CASE RejectAppend(m)
      <4>1. m.term < currentTerm[i] /\ AnswerAppend(m, currentTerm[i], FALSE, 0, 0)
        BY Zenon, <3>1 DEF RejectAppend, i
      <4>2. currentTerm[i] # m.term
        BY SMTT(30), <2>0, <4>1 DEF AppendTypes, HeldTypes
      <4>3. QED
        BY Zenon, <2>7, <2>8, <4>1, <4>2 DEF AnswerAppend, i
    <3>2. CASE MissingPrev(m)
      <4> DEFINE first == IF m.prevLogIndex < lastIncludedIndex[i]
                          THEN lastIncludedIndex[i] ELSE LastLogIndex(i)
      <4>1. ~InLog(i, m.prevLogIndex) /\ AnswerAppend(m, m.term, FALSE, -1, first + 1)
        BY ZenonT(30), <3>2 DEF MissingPrev, i
      <4>2. first + 1 # m.prevLogIndex + 1
        BY SMTT(30), <2>0, <4>1 DEF AppendTypes, HeldTypes, InLog
      <4>3. -1 # m.prevLogTerm
        BY <2>6
      <4> HIDE DEF first
      <4>4. r = [from |-> i, to |-> m.from, reqTerm |-> m.term,
                 prevLogIndex |-> m.prevLogIndex, count |-> Len(m.entries), term |-> m.term,
                 success |-> FALSE, conflictTerm |-> -1, conflictIndex |-> first + 1]
        BY ZenonT(30), <2>8, <4>1 DEF AnswerAppend, i
      <4>5. QED
        BY SMTT(30), <2>7, <4>2, <4>3, <4>4
    <3>3. CASE ConflictingPrev(m)
      <4>1. PICK first \in lastIncludedIndex[i]..m.prevLogIndex :
              AnswerAppend(m, m.term, FALSE, TermAt(i, m.prevLogIndex), first)
        BY Zenon, <3>3 DEF ConflictingPrev, i
      <4>2. TermAt(i, m.prevLogIndex) # m.prevLogTerm
        BY ZenonT(30), <3>3 DEF ConflictingPrev, i
      <4>3. first # m.prevLogIndex + 1
        BY SMTT(30), <2>0, <4>1 DEF AppendTypes, HeldTypes
      <4>4. r = [from |-> i, to |-> m.from, reqTerm |-> m.term,
                 prevLogIndex |-> m.prevLogIndex, count |-> Len(m.entries), term |-> m.term,
                 success |-> FALSE, conflictTerm |-> TermAt(i, m.prevLogIndex), conflictIndex |-> first]
        BY Zenon, <2>8, <4>1 DEF AnswerAppend, i
      <4>5. QED
        BY SMTT(30), <2>7, <4>2, <4>3, <4>4
    <3>4. QED
      BY Zenon, <3>1, <3>2, <3>3
  <2>9. QED
    BY Zenon, <2>2, <2>3, <2>4, <2>8, QuietLog
<1>MissingIndex. ASSUME Majorities, NEW H, NEW T, NEW A, LogInv(H, T), CommitInv(H, T, A), TypeOK, NEW m \in aeArgs,
             m.term >= currentTerm[m.to], ~InLog(m.to, m.prevLogIndex),
             NEW first, first = IF m.prevLogIndex < lastIncludedIndex[m.to]
                                THEN lastIncludedIndex[m.to] ELSE LastLogIndex(m.to)
      PROVE  first + 1 \in 1..Len(H[m.term]) + 1
  <2> USE <1>MissingIndex
  <2>1. m.to \in Server /\ m.term \in Nat /\ m.prevLogIndex \in Nat /\ Len(m.entries) \in Nat
    BY Zenon, AppendTyped DEF AppendTypes
  <2>2. m.term \in T /\ m.prevLogIndex + Len(m.entries) <= Len(H[m.term]) /\ Histories(H, T)
    BY Zenon DEF LogInv, AppendFollows, Carries
  <2>3. Len(H[m.term]) \in Nat
    BY Zenon, <2>2, HistoryType
  <2>4. HeldTypes(m.to)
    BY Zenon, <2>1, HeldTyped
  <2>5. lastIncludedIndex[m.to] \in Nat /\ LastLogIndex(m.to) \in Nat /\ currentTerm[m.to] \in Nat
    BY Zenon, <2>4 DEF HeldTypes
  <2>6. commitIndex[m.to] \in Nat /\ lastApplied[m.to] \in Nat
    BY Zenon, <2>1 DEF TypeOK
  <2>7. lastIncludedIndex[m.to] <= commitIndex[m.to]
    BY ZenonT(30), <2>1, <2>5, <2>6, AtMost DEF CommitInv, ApplyFits
  <2>8. currentTerm[m.to] <= m.term
    BY ONLY SMTT(30), m.term >= currentTerm[m.to], <2>1, <2>5
  <2>9. Reaches(m.to, H, m.term, lastIncludedIndex[m.to])
    BY ZenonT(30), <2>1, <2>2, <2>5, <2>7, <2>8, CommittedInLater
  <2>10. lastIncludedIndex[m.to] <= Len(H[m.term])
    BY ZenonT(30), <2>9 DEF Reaches, AgreeUpTo
  <2>11. CASE m.prevLogIndex < lastIncludedIndex[m.to]
    BY SMTT(30), <2>3, <2>5, <2>10, <2>11
  <2>12. CASE ~(m.prevLogIndex < lastIncludedIndex[m.to])
    <3>1. LastLogIndex(m.to) < m.prevLogIndex
      BY SMTT(30), <2>1, <2>5, <2>12 DEF InLog
    <3>2. first = LastLogIndex(m.to)
      BY Zenon, <2>12
    <3>3. QED
      BY SMTT(30), <2>1, <2>2, <2>3, <2>5, <3>1, <3>2
  <2>13. QED
    BY Zenon, <2>11, <2>12
<1>ConflictIndex. ASSUME NEW H, NEW T, LogInv(H, T), TypeOK, NEW m \in aeArgs,
             InLog(m.to, m.prevLogIndex), TermAt(m.to, m.prevLogIndex) # m.prevLogTerm,
             NEW first \in lastIncludedIndex[m.to]..m.prevLogIndex,
             \A k \in first..m.prevLogIndex : TermAt(m.to, k) = TermAt(m.to, m.prevLogIndex)
      PROVE  first \in 1..Len(H[m.term]) + 1
  <2> USE <1>ConflictIndex
  <2>1. m.to \in Server /\ m.term \in Nat /\ m.prevLogIndex \in Nat /\ Len(m.entries) \in Nat
    BY Zenon, AppendTyped DEF AppendTypes
  <2>2. /\ m.term \in T /\ m.prevLogIndex + Len(m.entries) <= Len(H[m.term]) /\ Histories(H, T)
        /\ m.prevLogTerm = TermOf(H[m.term], m.prevLogIndex)
    BY Zenon DEF LogInv, AppendFollows, Carries
  <2>3. Len(H[m.term]) \in Nat
    BY Zenon, <2>2, HistoryType
  <2>4. HeldTypes(m.to) /\ LastTypes(m.to, H, T)
    BY Zenon, <2>1, HeldTyped, LastTyped
  <2>5. lastIncludedIndex[m.to] \in Nat /\ LastLogIndex(m.to) \in Nat
    BY Zenon, <2>4 DEF HeldTypes
  <2>6. PICK w \in T : w = LastLogTerm(m.to)
    BY Zenon, <2>4 DEF LastTypes
  <2>7. Follows(m.to, H[w]) /\ LastLogIndex(m.to) <= Len(H[w]) /\ Len(H[w]) \in Nat
    BY Zenon, <2>1, <2>4, <2>6 DEF LogInv, PeerFollows, LastTypes
  <2>8. first # 0
    <3>1. SUFFICES ASSUME first = 0 PROVE FALSE
      BY Zenon
    <3>2. lastIncludedIndex[m.to] = 0 /\ 0 \in first..m.prevLogIndex
      BY SMTT(30), <2>1, <2>5, <3>1
    <3>3. InLog(m.to, 0)
      BY SMTT(30), <2>5, <3>2 DEF InLog
    <3>4. TermAt(m.to, 0) = TermOf(H[w], 0) /\ TermAt(m.to, m.prevLogIndex) = TermOf(H[w], m.prevLogIndex)
      BY Zenon, <2>4, <2>7, <3>3, FollowsTerm
    <3>5. TermOf(H[w], m.prevLogIndex) = 0
      BY ZenonT(30), <3>2, <3>4 DEF TermOf
    <3>6. m.prevLogIndex \in 0..Len(H[w])
      BY SMTT(30), <2>1, <2>5, <2>7 DEF InLog
    <3>7. ~(m.prevLogIndex > 0)
      <4>1. m.prevLogIndex > 0 => TermOf(H[w], m.prevLogIndex) > 0
        BY Zenon, <2>2, <3>6, HistoryTerm
      <4>2. QED
        BY ONLY <4>1, <3>5
    <3>8. m.prevLogIndex = 0
      BY ONLY SMTT(30), <2>1, <3>7
    <3>9. QED
      BY Zenon, <2>2, <3>4, <3>8 DEF TermOf
  <2>9. m.prevLogIndex + Len(m.entries) <= Len(H[m.term])
    BY Zenon, <2>2
  <2>10. QED
    BY ONLY SMTT(30), first \in lastIncludedIndex[m.to]..m.prevLogIndex, <2>1, <2>3, <2>5, <2>8, <2>9
<1>RefusedCommit. ASSUME Majorities, NEW H, NEW T, NEW A, LogInv(H, T), CommitInv(H, T, A), TypeOK, NEW m \in aeArgs,
             RejectAppend(m) \/ MissingPrev(m) \/ ConflictingPrev(m)
      PROVE  CommitStep(H, T, A, H, T, A)
  <2> USE <1>RefusedCommit
  <2>1. m.to \in Server /\ m.term \in Nat /\ m.term \in T /\ currentTerm[m.to] \in Nat
    BY Zenon, AppendTyped DEF AppendTypes, LogInv, AppendFollows, TypeOK
  <2>2. /\ UNCHANGED <<votes, logVars, applyVars, leaderVars>> /\ rvReplies' = rvReplies /\ rvArgs' = rvArgs
        /\ aeArgs' = aeArgs /\ isArgs' = isArgs /\ isReplies' = isReplies
    BY Zenon DEF RejectAppend, MissingPrev, ConflictingPrev, FollowLeader, electionVars, rvNet, isNet
  <2>3. NoPromotion
    BY Zenon, AppendRoles DEF AppendEntries
  <2>4. SameBut(H, T, A)
    BY Zenon, <2>2, <2>3, RestSame DEF NoPromotion
  <2>5. AcksStep(H, T, A, H, T, A)
    BY Zenon, SameAcks DEF LogInv, CommitInv
  <2>6. CallsStep(H, T, A)
    BY Zenon, <2>2, SameCalls
  <2>7. ASSUME NEW r \in aeReplies', r \notin aeReplies PROVE AppendAnswers(r, H, T, A)
    <3>1. CASE RejectAppend(m)
      <4>1. ~r.success /\ r.term = currentTerm[m.to] /\ r.reqTerm = m.term /\ m.term < currentTerm[m.to]
        <5>1. AnswerAppend(m, currentTerm[m.to], FALSE, 0, 0) /\ m.term < currentTerm[m.to]
          BY Zenon, <3>1 DEF RejectAppend
        <5>2. r = [from |-> m.to, to |-> m.from, reqTerm |-> m.term,
                   prevLogIndex |-> m.prevLogIndex, count |-> Len(m.entries), term |-> currentTerm[m.to],
                   success |-> FALSE, conflictTerm |-> 0, conflictIndex |-> 0]
          BY Zenon, <2>7, <5>1 DEF AnswerAppend
        <5>3. QED
          BY Zenon, <5>1, <5>2
      <4>2. ~(r.term <= r.reqTerm)
        BY SMTT(30), <2>1, <4>1
      <4>3. QED
        BY ZenonT(30), <4>1, <4>2 DEF AppendAnswers
    <3>2. CASE MissingPrev(m)
      <4>1. PICK first : first = IF m.prevLogIndex < lastIncludedIndex[m.to]
                                 THEN lastIncludedIndex[m.to] ELSE LastLogIndex(m.to)
        BY ZenonT(30)
      <4>2. ~r.success /\ r.reqTerm = m.term /\ r.conflictIndex = first + 1
        <5>1. AnswerAppend(m, m.term, FALSE, -1, first + 1)
          BY Zenon, <3>2, <4>1 DEF MissingPrev
        <5>2. r = [from |-> m.to, to |-> m.from, reqTerm |-> m.term,
                   prevLogIndex |-> m.prevLogIndex, count |-> Len(m.entries), term |-> m.term,
                   success |-> FALSE, conflictTerm |-> -1, conflictIndex |-> first + 1]
          BY Zenon, <2>7, <5>1 DEF AnswerAppend
        <5>3. QED
          BY Zenon, <5>2
      <4>3. m.term >= currentTerm[m.to] /\ ~InLog(m.to, m.prevLogIndex)
        BY Zenon, <3>2 DEF MissingPrev, FollowLeader
      <4>4. first + 1 \in 1..Len(H[m.term]) + 1
        BY Zenon, <4>1, <4>3, <1>MissingIndex
      <4>5. QED
        BY Zenon, <2>1, <4>2, <4>4 DEF AppendAnswers
    <3>3. CASE ConflictingPrev(m)
      <4>1. PICK first \in lastIncludedIndex[m.to]..m.prevLogIndex :
              /\ \A k \in first..m.prevLogIndex : TermAt(m.to, k) = TermAt(m.to, m.prevLogIndex)
              /\ AnswerAppend(m, m.term, FALSE, TermAt(m.to, m.prevLogIndex), first)
        BY ZenonT(30), <3>3 DEF ConflictingPrev
      <4>2. ~r.success /\ r.reqTerm = m.term /\ r.conflictIndex = first
        <5>1. r = [from |-> m.to, to |-> m.from, reqTerm |-> m.term,
                   prevLogIndex |-> m.prevLogIndex, count |-> Len(m.entries), term |-> m.term,
                   success |-> FALSE, conflictTerm |-> TermAt(m.to, m.prevLogIndex), conflictIndex |-> first]
          BY Zenon, <2>7, <4>1 DEF AnswerAppend
        <5>2. QED
          BY Zenon, <5>1
      <4>3. InLog(m.to, m.prevLogIndex) /\ TermAt(m.to, m.prevLogIndex) # m.prevLogTerm
        BY Zenon, <3>3 DEF ConflictingPrev
      <4>4. first \in 1..Len(H[m.term]) + 1
        BY Zenon, <4>1, <4>3, <1>ConflictIndex
      <4>5. QED
        BY Zenon, <2>1, <4>2, <4>4 DEF AppendAnswers
    <3>4. QED
      BY Zenon, <3>1, <3>2, <3>3
  <2>8. AnswersStep(H, T, A)
    BY Zenon, <2>2, <2>7 DEF AnswersStep
  <2>9. QED
    BY ZenonT(30), <2>4, <2>5, <2>6, <2>8 DEF CommitStep, SameBut
<1> SUFFICES ASSUME NEW H, NEW T, NEW A, LogInv(H, T), CommitInv(H, T, A), ElectionInv, TypeOK', RolesStep,
                    NEW m \in aeArgs, RejectAppend(m) \/ MissingPrev(m) \/ ConflictingPrev(m)
             PROVE  Advances(H, T, A)
  BY Zenon DEF Ready
<1>0. TypeOK /\ DiskInv /\ Majorities
  BY Zenon DEF ElectionInv, DiskInv
<1>1. QED
  BY Zenon, <1>0, <1>RefusedLog, <1>RefusedCommit DEF Advances

-----------------------------------------------------------------------------
(* AppendEntries, accepted *)

\* c is a followed by b.
Joins(c, a, b) ==
  /\ Len(c) = Len(a) + Len(b)
  /\ \A k \in 1..Len(a) : c[k] = a[k]
  /\ \A k \in 1..Len(b) : c[Len(a) + k] = b[k]

\* Two sequences in a row.
LEMMA Concatenated ==
  ASSUME NEW S, NEW a \in Seq(S), NEW b \in Seq(S)
  PROVE  a \o b \in Seq(S) /\ Joins(a \o b, a, b)
  BY DEF Joins

\* Leaders' logs with the same term at an index agree up to it.
LEMMA HistoriesMatch ==
  ASSUME NEW H, NEW T, Histories(H, T), NEW t \in T, NEW u \in T,
         NEW k \in Nat, k <= Len(H[t]), k <= Len(H[u]), TermOf(H[t], k) = TermOf(H[u], k)
  PROVE  AgreeUpTo(H[t], H[u], k)
<1>1. Len(H[t]) \in Nat /\ Len(H[u]) \in Nat
  BY Zenon, HistoryType
<1>2. k \in 0..Len(H[t]) /\ k \in 0..Len(H[u])
  BY <1>1
<1> DEFINE w == TermOf(H[t], k)
<1>3. AgreeUpTo(H[t], H[w], k) /\ AgreeUpTo(H[u], H[w], k) /\ w \in T
  BY Zenon, <1>2, HistoryTerm
<1> HIDE DEF w
<1>4. Len(H[w]) \in Nat
  BY Zenon, <1>3, HistoryType
<1>5. AgreeUpTo(H[w], H[u], k)
  BY <1>1, <1>3, <1>4, AgreeShorter
<1>6. QED
  BY Zenon, <1>3, <1>5, AgreeTransitive

\* A peer that does not lead its call's term: the caller does.
LEMMA CalleeFollows ==
  ASSUME ElectionInv, TypeOK', NEW m \in aeArgs \cup isArgs, m.from # m.to, m.to \in Server,
         m.term \in Nat, FollowLeader(m.to, m.term)
  PROVE  role'[m.to] = "Follower" /\ currentTerm'[m.to] = m.term
<1>1. ElectionSafety /\ TypeOK
  BY Zenon, ElectionInvSafe DEF ElectionInv, DiskInv
<1>2. currentTerm'[m.to] = m.term
  BY Zenon, <1>1, FollowLeaderRoles
<1>3. RolesStep /\ (role'[m.to] = "Leader" => role[m.to] = "Leader")
  BY Zenon, <1>1, FollowLeaderRoles DEF NoPromotion
<1>4. role'[m.to] # "Leader"
  <2>1. role'[m.to] = "Leader" => role[m.to] = "Leader" /\ currentTerm[m.to] = m.term
    BY Zenon, <1>2, <1>3 DEF RolesStep
  <2>2. QED
    BY Zenon, <1>1, <2>1 DEF ElectionSafety
<1>5. role'[m.to] # "Candidate"
  <2>1. role' = [role EXCEPT ![m.to] =
           IF m.term > currentTerm[m.to] \/ role[m.to] = "Candidate" THEN "Follower" ELSE role[m.to]]
    BY Zenon DEF FollowLeader
  <2>2. role'[m.to] =
          IF m.term > currentTerm[m.to] \/ role[m.to] = "Candidate" THEN "Follower" ELSE role[m.to]
    BY Zenon, <1>1, <2>1 DEF TypeOK
  <2>3. QED
    BY <2>2
<1>6. role'[m.to] \in Role
  BY Zenon DEF TypeOK
<1>7. QED
  BY Zenon, <1>2, <1>4, <1>5, <1>6 DEF Role

\* After it took what a leader sent, a peer holds what that leader does.
LEMMA TakenReaches ==
  ASSUME NEW H, NEW T, Histories(H, T), TypeOK', NEW i \in Server, NEW t \in T, Follows(i, H[t])'
  PROVE  Reaches(i, H, t, LastLogIndex(i))'
<1>1. HeldTypes(i)'
  BY Zenon, HeldTypedNext
<1>2. FollowsToLast(i, H, T, t)'
  BY Zenon, <1>1, FollowsLastNext
<1>3. AgreeUpTo(H[t], H[LastLogTerm(i)'], LastLogIndex(i)')
  BY Zenon, <1>2 DEF FollowsToLast
<1>4. AgreeUpTo(H[LastLogTerm(i)'], H[t], LastLogIndex(i)')
  BY Zenon, <1>3 DEF AgreeUpTo
<1>5. LastLogIndex(i)' <= LastLogIndex(i)'
  BY <1>1 DEF HeldTypes
<1>6. QED
  BY Zenon, <1>4, <1>5 DEF Reaches

\* One peer keeps or takes, the others keep.
LEMMA OnePeerLog ==
  ASSUME NEW H, NEW T, LogInv(H, T), NEW i, Keeps(i) \/ (Takes(i, H, T) /\ role'[i] # "Leader"),
         \A j \in Server : j # i => LogKept(j),
         \A j \in Server : role'[j] = "Leader" => role[j] = "Leader",
         aeArgs' = aeArgs, isArgs' = isArgs,
         \A r \in aeReplies' : r \in aeReplies \/ r.success
  PROVE  LogStep(H, T, H, T)
<1>1. Histories(H, T) /\ Extends(H, H, T)
  BY Zenon, ExtendsSelf DEF LogInv
<1>2. \A j \in Server : j # i => Keeps(j)
  BY Zenon, KeptIsKept
<1>3. \A r \in aeReplies' : r \in aeReplies \/ Refuses(r, H, T)
  BY Zenon DEF Refuses
<1>4. QED
  BY Zenon, <1>1, <1>2, <1>3 DEF LogStep

\* Peer i acknowledges index n in its term.
Acknowledges(H, T, A, A2, i, t, n) ==
  AcksStep(H, T, A, H, T, A2) /\ n <= A2[i][t]

\* A peer acknowledges to the leader of its term what it holds of that leader's log.
LEMMA Acknowledging ==
  ASSUME NEW H, NEW T, NEW A \in Acks, Histories(H, T), NEW i \in Server,
         NEW t \in T, t = currentTerm'[i], NEW n \in Nat, Reaches(i, H, t, n)'
  PROVE  \E A2 : Acknowledges(H, T, A, A2, i, t, n)
<1>0. t \in Nat
  BY Zenon, HistoryType
<1>1. A[i][t] \in Nat
  BY Zenon, <1>0 DEF Acks
<1>2. CASE n <= A[i][t]
  BY Zenon, <1>2, SameAcks DEF Acknowledges
<1>3. CASE ~(n <= A[i][t])
  <2>1. A[i][t] <= n /\ n <= n
    BY <1>1, <1>3
  <2>2. PICK A2 : A2 = [A EXCEPT ![i] = [@ EXCEPT ![t] = n]]
    BY Zenon
  <2>3. AckRaised(A, A2, i, t, n)
    BY Zenon, <1>0, <2>1, <2>2, AckOne
  <2>4. n <= LastLogIndex(i)' /\ AgreeUpTo(H[LastLogTerm(i)'], H[t], n)
    BY Zenon DEF Reaches
  <2>5. ASSUME NEW j \in Server
        PROVE  NewAcks(A[j], A2[j], LastLogIndex(j)', LastLogTerm(j)', currentTerm'[j], H, T)
    BY Zenon, <2>3, <2>4 DEF NewAcks, AckRaised
  <2>6. AckStep(H, T, A, A2)
    BY Zenon, <2>3, <2>5 DEF AckStep, AckRaised
  <2>7. Grown(H, T, H) /\ NewlyElected(H, T, H, T, A2, currentTerm')
    BY Zenon, SameAcks, ElectedSame DEF AcksStep
  <2>8. QED
    BY Zenon, <2>1, <2>3, <2>6, <2>7 DEF AcksStep, Acknowledges, AckRaised
<1>4. QED
  BY Zenon, <1>2, <1>3

\* What a leader says is committed is so for a callee that holds it.
LEMMA ToldCommitted ==
  ASSUME NEW H, NEW T, Histories(H, T), NEW A \in Acks, NEW A2 \in Acks,
         \A j \in Server, u \in Nat : A[j][u] <= A2[j][u], TypeOK',
         NEW i \in Server, NEW t \in T, t = currentTerm'[i], LastLogTerm(i)' \in T,
         NEW n \in Nat, Reaches(i, H, t, n)', NEW b \in Nat, Committed(b, t, H[t], H, T, A),
         NEW c \in Nat, c <= n, c <= b, commitIndex'[i] = c
  PROVE  CommitFits(i, H, T, A2)'
<1>1. Extends(H, H, T)
  BY Zenon, ExtendsSelf
<1>2. t \in Nat /\ Len(H[t]) \in Nat
  BY Zenon, HistoryType
<1>3. PICK w \in T : w = LastLogTerm(i)'
  BY Zenon
<1>4. Len(H[w]) \in Nat
  BY Zenon, HistoryType
<1>5. PICK l \in Nat : l = LastLogIndex(i)'
  BY Zenon, HeldTypedNext DEF HeldTypes
<1>6. n <= l /\ AgreeUpTo(H[w], H[t], n)
  BY Zenon, <1>3, <1>5 DEF Reaches
<1>7. AgreeUpTo(H[w], H[t], c)
  BY Zenon, <1>2, <1>4, <1>6, AgreeShorter
<1>8. t <= t
  BY ONLY <1>2
<1>9. Committed(c, t, H[w], H, T, A2)
  BY Zenon, <1>1, <1>2, <1>7, <1>8, StillCommitted
<1>10. c <= l
  BY Zenon, <1>6, AtMost
<1>11. QED
  BY Zenon, <1>3, <1>5, <1>9, <1>10 DEF CommitFits, KnownCommitted

\* The callee does not lead, and the leaders among the others keep their beliefs.
LEMMA OtherLeaders ==
  ASSUME NEW H2, NEW A2, NEW i, role'[i] # "Leader", NoPromotion, UNCHANGED leaderVars,
         \A j \in Server : j # i => log'[j] = log[j] /\ lastIncludedIndex'[j] = lastIncludedIndex[j]
  PROVE  LeadersStep(H2, A2)
<1>1. ASSUME NEW j \in Server, role'[j] = "Leader"
      PROVE  /\ role[j] = "Leader" /\ LastLogIndex(j)' = LastLogIndex(j)
             /\ matchIndex'[j] = matchIndex[j] /\ nextIndex'[j] = nextIndex[j]
  <2>1. j # i
    BY Zenon, <1>1
  <2>2. LastLogIndex(j)' = LastLogIndex(j)
    BY Zenon, <2>1 DEF LastLogIndex
  <2>3. QED
    BY Zenon, <1>1, <2>2 DEF NoPromotion, leaderVars
<1>2. QED
  BY Zenon, <1>1, SameLeaders

\* A log and its snapshot are a part of s, and end at index n.
HoldsTo(base, bterm, entries, snapshot, s, n) ==
  Holds(base, bterm, entries, snapshot, s) /\ base + Len(entries) = n

\* es is the first b + kept entries of old, and news from after its first kept on.
Splices(es, old, b, kept, news) ==
  /\ Len(es) = b + Len(news)
  /\ \A k \in 1..b + kept : es[k] = old[k]
  /\ \A k \in 1..Len(news) - kept : es[b + kept + k] = news[kept + k]

\* What is held and what a call carries at the same index, in the logs they are of.
Meet(base, entries, s, prev, news, r, k) ==
  entries[prev - base + k] = s[prev + k] /\ news[k] = r[prev + k]

\* The test of the loop in AppendEntries, on the k-th entry of the call.
Agrees(m, k) ==
  LET i == m.to
      base == m.prevLogIndex - lastIncludedIndex[i]
  IN  base + k <= Len(log[i]) /\ log[i][base + k].term = m.entries[k].term

\* AppendEntries, accepted: the callee takes what it lacks and acknowledges it.
LEMMA AcceptAdvances ==
  \A H, T, A : Ready(H, T, A) /\ (\E m \in aeArgs : AcceptAppend(m)) => Advances(H, T, A)
\* The log that AppendEntries leaves: the entries kept, then the call's.
<1>MergedLog. ASSUME NEW old \in Seq(Entry), NEW news \in Seq(Entry), NEW b \in Nat, NEW kept \in Nat,
             kept < Len(news), b + kept <= Len(old)
      PROVE  Splices(Merged(old, b, kept, news), old, b, kept, news)
  <2> USE <1>MergedLog
  <2> DEFINE x == SubSeq(old, 1, b + kept)
             y == SubSeq(news, kept + 1, Len(news))
  <2>1. Len(old) \in Nat /\ Len(news) \in Nat
    OBVIOUS
  <2>2. b + kept \in 0..Len(old) /\ kept \in 0..Len(news)
    BY <2>1
  <2>3. x \in Seq(Entry) /\ Len(x) = b + kept /\ \A k \in 1..b + kept : x[k] = old[k]
    BY Zenon, <2>2, Prefixes
  <2>4. /\ y \in Seq(Entry) /\ Len(y) = Len(news) - kept
        /\ \A k \in 1..Len(news) - kept : y[k] = news[kept + k]
    BY Zenon, <2>2, Suffixes
  <2> HIDE DEF x, y
  <2>5. x \in Seq(Entry) /\ y \in Seq(Entry)
    BY Zenon, <2>3, <2>4
  <2>6. Joins(x \o y, x, y)
    BY Zenon, <2>5, Concatenated
  <2>7. Len(x) + Len(y) = b + Len(news) /\ kept # Len(news)
    BY <2>1, <2>3, <2>4
  <2>8. Merged(old, b, kept, news) = x \o y
    BY Zenon, <2>7 DEF Merged, x, y
  <2>9. QED
    BY Zenon, <2>3, <2>4, <2>6, <2>7, <2>8 DEF Joins, Splices
\* AppendEntries takes what is new to it of r, the caller's log.
<1>HoldsMerged. ASSUME NEW base \in Nat, NEW bterm, NEW entries \in Seq(Entry), NEW snapshot,
             NEW s, Holds(base, bterm, entries, snapshot, s), NEW r,
             NEW prev \in Nat, NEW news \in Seq(Entry), Carries(prev, news, r),
             NEW kept \in Nat, kept < Len(news),
             base <= prev, prev + kept <= base + Len(entries), AgreeUpTo(s, r, prev + kept)
      PROVE  HoldsTo(base, bterm, Merged(entries, prev - base, kept, news), snapshot, r, prev + Len(news))
  <2> USE <1>HoldsMerged
  <2> DEFINE b == prev - base
             es == Merged(entries, b, kept, news)
             cut == b + kept
  <2>0. Len(entries) \in Nat /\ Len(news) \in Nat
    BY Zenon, LenType
  <2>1. cut \in Nat /\ cut <= Len(entries) /\ base + cut = prev + kept /\ b \in Nat /\ base + b = prev
    BY <2>0
  <2> HIDE DEF b
  <2>11. Splices(es, entries, b, kept, news)
    BY Zenon, <2>1, <1>MergedLog
  <2>3. /\ Len(es) = b + Len(news)
        /\ \A k \in 1..cut : es[k] = entries[k]
        /\ \A k \in 1..Len(news) - kept : es[cut + k] = news[kept + k]
    BY Zenon, <2>11 DEF Splices
  <2>2. Len(es) = b + Len(news) /\ cut = b + kept
    BY Zenon, <2>3
  <2> HIDE DEF es, cut
  <2>4. base + Len(es) = prev + Len(news) /\ Len(es) \in Nat
    BY <2>0, <2>1, <2>2
  <2>5. base \in 0..prev + kept /\ prev + kept \in Nat
    BY <2>1
  <2>6. bterm = TermOf(r, base)
    <3>1. TermOf(s, base) = TermOf(r, base)
      BY Zenon, <2>5, AgreeTerms
    <3>2. QED
      BY Zenon, <3>1 DEF Holds
  <2>7. ASSUME NEW k \in 1..Len(es) PROVE es[k] = r[base + k]
    <3>1. CASE k <= cut
      <4>1. k \in 1..cut /\ k \in 1..Len(entries) /\ base + k \in 1..prev + kept
        BY <2>0, <2>1, <2>4, <3>1
      <4>2. QED
        BY Zenon, <2>3, <4>1 DEF Holds, Carries, AgreeUpTo
    <3>2. CASE k > cut
      <4>1. /\ k - cut \in 1..Len(news) - kept /\ kept + (k - cut) \in 1..Len(news)
            /\ cut + (k - cut) = k /\ prev + (kept + (k - cut)) = base + k
        BY SMTT(30), <2>0, <2>1, <2>2, <3>2
      <4>2. QED
        BY Zenon, <2>3, <4>1 DEF Carries
    <3>3. k <= cut \/ k > cut
      BY <2>1, <2>4
    <3>4. QED
      BY Zenon, <3>1, <3>2, <3>3
  <2>8. Records(snapshot, base, r)
    <3>1. \A k \in 1..base : k \in 1..prev + kept
      BY <2>5
    <3>2. QED
      BY Zenon, <3>1 DEF Holds, Records, AgreeUpTo
  <2>9. Carries(base, es, r)
    BY Zenon, <2>4, <2>7 DEF Carries
  <2>10. QED
    BY Zenon, <2>4, <2>6, <2>8, <2>9 DEF Holds, HoldsTo, es, b
\* What a peer and a call have at the same index is what the logs they are of have there.
<1>HeldAndCarried. ASSUME NEW base \in Nat, NEW bterm, NEW entries, Len(entries) \in Nat, NEW snapshot,
             NEW s, Holds(base, bterm, entries, snapshot, s),
             NEW prev \in Nat, NEW news, Len(news) \in Nat, NEW r, Carries(prev, news, r),
             NEW k \in 1..Len(news), base <= prev, prev - base + k <= Len(entries)
      PROVE  Meet(base, entries, s, prev, news, r, k)
  <2> USE <1>HeldAndCarried
  <2>1. prev - base + k \in 1..Len(entries) /\ base + (prev - base + k) = prev + k
    OBVIOUS
  <2>2. entries[prev - base + k] = s[base + (prev - base + k)]
    BY Zenon, <2>1 DEF Holds, Carries
  <2>3. news[k] = r[prev + k]
    BY Zenon DEF Carries
  <2>4. QED
    BY Zenon, <2>1, <2>2, <2>3 DEF Meet
\* What the loop walks over is what the leader has there.
<1>WalkedAgrees. ASSUME NEW H, NEW T, Histories(H, T), NEW m, AppendTypes(m), AppendFollows(m, H, T),
             HeldTypes(m.to), PeerFollows(m.to, H, T),
             InLog(m.to, m.prevLogIndex), TermAt(m.to, m.prevLogIndex) = m.prevLogTerm,
             NEW kept \in 0..Len(m.entries), kept > 0 => Agrees(m, kept)
      PROVE  Reaches(m.to, H, m.term, m.prevLogIndex + kept)
  <2> USE <1>WalkedAgrees
  <2> DEFINE i == m.to
             u == LastLogTerm(i)
             b == lastIncludedIndex[i]
             prev == m.prevLogIndex
  <2>1. /\ m.term \in T /\ Carries(prev, m.entries, H[m.term])
        /\ m.prevLogTerm = TermOf(H[m.term], prev)
    BY Zenon DEF AppendFollows
  <2>2. u \in T /\ Follows(i, H[u])
    BY Zenon DEF PeerFollows
  <2>3. Len(H[u]) \in Nat /\ Len(H[m.term]) \in Nat
    BY Zenon, <2>1, <2>2, HistoryType
  <2>4. b \in Nat /\ Len(log[i]) \in Nat /\ LastLogIndex(i) = b + Len(log[i])
    BY Zenon DEF HeldTypes
  <2>5. prev \in Nat /\ Len(m.entries) \in Nat
    BY Zenon DEF AppendTypes
  <2>6. prev \in b..LastLogIndex(i)
    BY Zenon DEF InLog
  <2>7. LastLogIndex(i) <= Len(H[u]) /\ prev + Len(m.entries) <= Len(H[m.term])
    BY Zenon, <2>1, <2>2, FollowsReach DEF Carries
  <2>8. Holds(b, lastIncludedTerm[i], log[i], persister[i].snapshot, H[u])
    BY Zenon, <2>2 DEF Follows
  <2> HIDE DEF i, u, b, prev
  <2>9. prev + kept <= LastLogIndex(i) /\ TermOf(H[u], prev + kept) = TermOf(H[m.term], prev + kept)
    <3>1. CASE kept = 0
      <4>1. TermAt(i, prev) = TermOf(H[u], prev)
        BY Zenon, <2>2, FollowsTerm DEF i, prev
      <4>2. prev + kept = prev /\ prev <= LastLogIndex(i)
        BY <2>4, <2>5, <2>6, <3>1
      <4>3. QED
        BY Zenon, <2>1, <4>1, <4>2 DEF i, prev
    <3>2. CASE kept # 0
      <4>1. kept \in 1..Len(m.entries) /\ kept > 0
        BY <2>5, <3>2
      <4>2. prev - b + kept <= Len(log[i]) /\ log[i][prev - b + kept].term = m.entries[kept].term
        BY Zenon, <4>1 DEF Agrees, i, b, prev
      <4>3. b <= prev /\ prev + kept <= LastLogIndex(i) /\ prev + kept # 0
        BY SMTT(30), <2>4, <2>5, <2>6, <4>1, <4>2
      <4>4. /\ log[i][prev - b + kept] = H[u][prev + kept]
            /\ m.entries[kept] = H[m.term][prev + kept]
        <5>1. Meet(b, log[i], H[u], prev, m.entries, H[m.term], kept)
          BY Zenon, <2>1, <2>4, <2>5, <2>8, <4>1, <4>2, <4>3, <1>HeldAndCarried
        <5>2. QED
          BY Zenon, <5>1 DEF Meet
      <4>5. QED
        BY Zenon, <4>2, <4>3, <4>4 DEF TermOf
    <3>3. QED
      BY Zenon, <3>1, <3>2
  <2>10. prev + kept \in Nat /\ prev + kept <= Len(H[u]) /\ prev + kept <= Len(H[m.term])
    <3>1. prev + kept <= LastLogIndex(i)
      BY Zenon, <2>9
    <3>2. QED
      BY SMTT(30), <2>3, <2>4, <2>5, <2>7, <3>1
  <2>11. AgreeUpTo(H[u], H[m.term], prev + kept)
    BY Zenon, <2>1, <2>2, <2>9, <2>10, HistoriesMatch
  <2>12. QED
    BY Zenon, <2>9, <2>11 DEF Reaches, i, u, prev
\* The loop walks over all that it already holds.
<1>ReachedAgrees. ASSUME NEW H, NEW T, Histories(H, T), NEW m, AppendTypes(m), AppendFollows(m, H, T),
             HeldTypes(m.to), PeerFollows(m.to, H, T), InLog(m.to, m.prevLogIndex),
             Reaches(m.to, H, m.term, m.prevLogIndex + Len(m.entries)),
             NEW k \in 1..Len(m.entries)
      PROVE  Agrees(m, k)
  <2> USE <1>ReachedAgrees
  <2> DEFINE i == m.to
             u == LastLogTerm(i)
             b == lastIncludedIndex[i]
             prev == m.prevLogIndex
  <2>1. m.term \in T /\ Carries(prev, m.entries, H[m.term])
    BY Zenon DEF AppendFollows
  <2>2. u \in T /\ Follows(i, H[u])
    BY Zenon DEF PeerFollows
  <2>3. Len(H[u]) \in Nat /\ Len(H[m.term]) \in Nat
    BY Zenon, <2>1, <2>2, HistoryType
  <2>4. b \in Nat /\ Len(log[i]) \in Nat /\ LastLogIndex(i) = b + Len(log[i])
    BY Zenon DEF HeldTypes
  <2>5. prev \in Nat /\ Len(m.entries) \in Nat
    BY Zenon DEF AppendTypes
  <2>6. prev \in b..LastLogIndex(i)
    BY Zenon DEF InLog
  <2>7. /\ prev + Len(m.entries) <= LastLogIndex(i)
        /\ AgreeUpTo(H[u], H[m.term], prev + Len(m.entries))
    BY Zenon DEF Reaches
  <2>8. Holds(b, lastIncludedTerm[i], log[i], persister[i].snapshot, H[u])
    BY Zenon, <2>2 DEF Follows
  <2> HIDE DEF i, u, b, prev
  <2>9. /\ b <= prev /\ prev - b + k <= Len(log[i])
        /\ prev + k \in 1..prev + Len(m.entries)
    BY SMTT(30), <2>4, <2>5, <2>6, <2>7
  <2>10. log[i][prev - b + k] = H[u][prev + k] /\ m.entries[k] = H[m.term][prev + k]
    <3>1. Meet(b, log[i], H[u], prev, m.entries, H[m.term], k)
      BY Zenon, <2>1, <2>4, <2>5, <2>8, <2>9, <1>HeldAndCarried
    <3>2. QED
      BY Zenon, <3>1 DEF Meet
  <2>11. H[u][prev + k] = H[m.term][prev + k]
    BY Zenon, <2>7, <2>9 DEF AgreeUpTo
  <2>12. QED
    BY Zenon, <2>9, <2>10, <2>11 DEF Agrees, i, b, prev
<1>AcceptLog. ASSUME NEW H, NEW T, LogInv(H, T), ElectionInv, TypeOK', NEW m \in aeArgs, AcceptAppend(m)
      PROVE  /\ LogStep(H, T, H, T) /\ role'[m.to] = "Follower" /\ currentTerm'[m.to] = m.term
             /\ Reaches(m.to, H, m.term, m.prevLogIndex + Len(m.entries))'
  <2> USE <1>AcceptLog
  <2> DEFINE i == m.to
             b == lastIncludedIndex[i]
             prev == m.prevLogIndex
             n == Len(m.entries)
  <2>0. TypeOK /\ Histories(H, T)
    BY Zenon DEF LogInv, ElectionInv, DiskInv
  <2>1. AppendTypes(m) /\ HeldTypes(i)
    BY Zenon, <2>0, AppendTyped, HeldTyped DEF AppendTypes
  <2>2. AppendFollows(m, H, T) /\ PeerFollows(i, H, T) /\ i \in Server
    BY Zenon, <2>1 DEF LogInv, AppendTypes
  <2>3. PICK kept \in 0..n :
          /\ \A k \in 1..kept : Agrees(m, k)
          /\ kept < n => ~Agrees(m, kept + 1)
          /\ log' = [log EXCEPT ![i] = Merged(@, prev - b, kept, m.entries)]
          /\ UNCHANGED <<lastIncludedIndex, lastIncludedTerm>>
          /\ PersistIf(m.term > currentTerm[i] \/ kept < n, i)
    BY Zenon DEF AcceptAppend, Agrees
  <2>4. /\ FollowLeader(i, m.term) /\ InLog(i, prev) /\ TermAt(i, prev) = m.prevLogTerm
        /\ aeArgs' = aeArgs /\ isArgs' = isArgs /\ AnswerAppend(m, m.term, TRUE, 0, 0)
    BY Zenon DEF AcceptAppend, isNet
  <2>5. role'[i] = "Follower" /\ currentTerm'[i] = m.term
    <3>1. m \in aeArgs \cup isArgs /\ m.from # m.to
      BY Zenon, <2>2 DEF AppendFollows
    <3>2. QED
      BY Zenon, <2>1, <2>4, <3>1, CalleeFollows DEF AppendTypes
  <2>6. \A j \in Server : role'[j] = "Leader" => role[j] = "Leader"
    BY Zenon, <2>0, AppendRoles DEF AppendEntries, NoPromotion
  <2>7. \A r \in aeReplies' : r \in aeReplies \/ r.success
    BY <2>4 DEF AnswerAppend
  <2>8. /\ persister'[i].snapshot = persister[i].snapshot
        /\ \A j \in Server : j # i => persister'[j] = persister[j]
    <3>1. CASE Persist(i)
      BY Zenon, <2>0, <2>2, <3>1, SavedSnapshot DEF Persist
    <3>2. QED
      BY Zenon, <2>3, <3>1 DEF PersistIf
  <2>9. /\ log'[i] = Merged(log[i], prev - b, kept, m.entries)
        /\ \A j \in Server : j # i => log'[j] = log[j]
    BY Zenon, <2>0, <2>2, <2>3 DEF TypeOK
  <2>10. \A j \in Server : j # i => LogKept(j)
    BY ZenonT(30), <2>3, <2>8, <2>9 DEF LogKept
  <2>11. kept \in Nat /\ n \in Nat /\ prev \in Nat /\ prev \in b..LastLogIndex(i) /\ b \in Nat
         /\ (kept > 0 => kept \in 1..kept)
    BY <2>1, <2>4 DEF AppendTypes, HeldTypes, InLog
  <2>12. Reaches(i, H, m.term, prev + kept)
    <3>1. kept > 0 => Agrees(m, kept)
      BY Zenon, <2>3, <2>11
    <3>2. QED
      BY Zenon, <2>0, <2>1, <2>2, <2>4, <3>1, <1>WalkedAgrees
  <2>13. CASE kept = n
    <3>1. LogKept(i)
      BY Zenon, <2>3, <2>8, <2>9, <2>13 DEF Merged, LogKept
    <3>2. Keeps(i)
      BY Zenon, <3>1, KeptIsKept
    <3>3. LastLogTerm(i)' = LastLogTerm(i) /\ LastLogIndex(i)' = LastLogIndex(i)
      BY Zenon, <3>2 DEF Keeps
    <3>4. Reaches(i, H, m.term, prev + n)'
      BY Zenon, <2>12, <2>13, <3>3 DEF Reaches
    <3>5. LogStep(H, T, H, T)
      BY Zenon, <2>4, <2>6, <2>7, <2>10, <3>2, OnePeerLog
    <3>6. QED
      BY Zenon, <2>5, <3>4, <3>5
  <2>14. CASE kept # n
    <3> DEFINE u == LastLogTerm(i)
               es == Merged(log[i], prev - b, kept, m.entries)
    <3>1. kept < n /\ kept + 1 \in 1..n /\ b <= prev
      BY <2>1, <2>11, <2>14 DEF HeldTypes
    <3>2. ~Reaches(i, H, m.term, prev + n)
      <4>1. ~Agrees(m, kept + 1)
        BY Zenon, <2>3, <3>1
      <4>2. QED
        BY Zenon, <2>0, <2>1, <2>2, <2>4, <3>1, <4>1, <1>ReachedAgrees
    <3>3. prev + kept <= b + Len(log[i]) /\ AgreeUpTo(H[u], H[m.term], prev + kept)
      BY Zenon, <2>12 DEF Reaches, LastLogIndex
    <3>4. Holds(b, lastIncludedTerm[i], log[i], persister[i].snapshot, H[u])
      BY Zenon, <2>2 DEF PeerFollows, Follows
    <3>5. Carries(prev, m.entries, H[m.term]) /\ m.term \in T
      BY Zenon, <2>2 DEF AppendFollows
    <3>6. log[i] \in Seq(Entry) /\ m.entries \in Seq(Entry)
      BY Zenon, <2>1 DEF HeldTypes, AppendTypes
    <3> HIDE DEF u
    <3>7. /\ Holds(b, lastIncludedTerm[i], es, persister[i].snapshot, H[m.term])
          /\ b + Len(es) = prev + n
      <4>1. HoldsTo(b, lastIncludedTerm[i], es, persister[i].snapshot, H[m.term], prev + n)
        BY Zenon, <2>11, <3>1, <3>3, <3>4, <3>5, <3>6, <1>HoldsMerged
      <4>2. QED
        BY Zenon, <4>1 DEF HoldsTo
    <3> HIDE DEF es
    <3>8. log'[i] = es /\ lastIncludedIndex'[i] = b /\ lastIncludedTerm'[i] = lastIncludedTerm[i]
      BY Zenon, <2>3, <2>9 DEF es
    <3>9. Follows(i, H[m.term])' /\ LastLogIndex(i)' = prev + n
      BY Zenon, <2>8, <3>7, <3>8 DEF Follows, LastLogIndex
    <3>10. Takes(i, H, T)
      BY Zenon, <2>5, <3>2, <3>5, <3>9 DEF Takes
    <3>11. LogStep(H, T, H, T)
      BY Zenon, <2>4, <2>5, <2>6, <2>7, <2>10, <3>10, OnePeerLog
    <3>12. Reaches(i, H, m.term, LastLogIndex(i))'
      BY Zenon, <2>0, <2>2, <3>5, <3>9, TakenReaches
    <3>13. Reaches(i, H, m.term, prev + n)'
      BY Zenon, <3>9, <3>12 DEF Reaches
    <3>14. QED
      BY Zenon, <2>5, <3>11, <3>13
  <2>15. QED
    BY Zenon, <2>13, <2>14
<1>AcceptCommit. ASSUME NEW H, NEW T, NEW A, LogInv(H, T), CommitInv(H, T, A), ElectionInv, TypeOK',
             NEW m \in aeArgs, AcceptAppend(m), LogInv(H, T)'
      PROVE  \E A2 : CommitStep(H, T, A, H, T, A2)
  <2> USE <1>AcceptCommit
  <2>0. TypeOK /\ Histories(H, T) /\ A \in Acks
    BY Zenon DEF ElectionInv, DiskInv, LogInv, CommitInv
  <2>1. AppendTypes(m)
    BY Zenon, <2>0, AppendTyped
  <2>2. PICK i \in Server : i = m.to
    BY Zenon, <2>1 DEF AppendTypes
  <2>3. PICK t \in T : t = m.term
    BY Zenon DEF LogInv, AppendFollows
  <2>4. m.prevLogIndex \in Nat /\ Len(m.entries) \in Nat /\ m.leaderCommit \in Nat
    BY Zenon, <2>1 DEF AppendTypes
  <2>5. PICK n \in Nat : n = m.prevLogIndex + Len(m.entries)
    BY <2>4
  <2>6. role'[i] = "Follower" /\ currentTerm'[i] = t /\ Reaches(i, H, t, n)'
    BY Zenon, <2>2, <2>3, <2>5, <1>AcceptLog
  <2>7. PICK A2 : Acknowledges(H, T, A, A2, i, t, n)
    BY Zenon, <2>0, <2>6, Acknowledging
  <2>8. AcksStep(H, T, A, H, T, A2) /\ n <= A2[i][t]
    BY Zenon, <2>7 DEF Acknowledges
  <2>9. A2 \in Acks /\ \A j \in Server, u \in Nat : A[j][u] <= A2[j][u]
    BY Zenon, <2>8 DEF AcksStep, AckStep
  <2>10. /\ votes' = votes /\ UNCHANGED leaderVars /\ rvReplies' = rvReplies /\ rvArgs' = rvArgs
         /\ aeArgs' = aeArgs /\ isArgs' = isArgs /\ isReplies' = isReplies
         /\ lastApplied' = lastApplied /\ lastIncludedIndex' = lastIncludedIndex
    BY Zenon DEF AcceptAppend, FollowLeader, rvNet, isNet
  <2>11. VotesStep(H, T, A2)
    BY Zenon, <2>10, SameVotes
  <2>12. CallsStep(H, T, A2)
    BY Zenon, <2>10, SameCalls
  <2>13. LeadersStep(H, A2)
    <3>1. NoPromotion
      BY Zenon, <2>0, AppendRoles DEF AppendEntries
    <3>2. ASSUME NEW j \in Server, j # i PROVE log'[j] = log[j]
      BY Zenon, <2>0, <2>2, <3>2 DEF AcceptAppend, TypeOK
    <3>3. role'[i] # "Leader"
      BY <2>6
    <3>4. QED
      BY Zenon, <2>10, <3>1, <3>2, <3>3, OtherLeaders
  <2>14. AnswersStep(H, T, A2)
    <3>1. ASSUME NEW r \in aeReplies', r \notin aeReplies PROVE AppendAnswers(r, H, T, A2)
      <4>0. AnswerAppend(m, m.term, TRUE, 0, 0)
        BY Zenon DEF AcceptAppend
      <4>1. /\ r.success /\ r.reqTerm = m.term /\ r.from = m.to
            /\ r.prevLogIndex = m.prevLogIndex /\ r.count = Len(m.entries)
        BY ONLY <3>1, <4>0 DEF AnswerAppend
      <4>2. QED
        BY Zenon, <2>2, <2>3, <2>5, <2>8, <4>1 DEF AppendAnswers
    <3>2. QED
      BY Zenon, <2>10, <3>1 DEF AnswersStep
  <2>15. PICK new : new = IF m.leaderCommit < n THEN m.leaderCommit ELSE n
    BY Zenon
  <2>16. new \in Nat /\ new <= n /\ new <= m.leaderCommit
    BY <2>4, <2>15
  <2>17. commitIndex' = [commitIndex EXCEPT ![i] = IF new > @ THEN new ELSE @]
    BY Zenon, <2>2, <2>5, <2>15 DEF AcceptAppend
  <2>18. ASSUME NEW j \in Server
         PROVE  /\ commitIndex[j] \in Nat /\ lastApplied[j] \in Nat /\ commitIndex'[j] \in Nat
                /\ commitIndex'[j] = commitIndex[j] \/ (j = i /\ commitIndex'[j] = new)
                /\ commitIndex[j] <= commitIndex'[j]
    <3>1. commitIndex \in [Server -> Nat] /\ lastApplied[j] \in Nat
      BY Zenon, <2>0 DEF TypeOK
    <3>2. QED
      BY ONLY SMTT(30), j \in Server, i \in Server, <2>16, <2>17, <3>1
  <2>19. ASSUME NEW j \in Server PROVE ApplyFits(j)'
    BY Zenon, <2>10, <2>18, AtMost DEF ApplyFits, CommitInv
  <2>20. ASSUME commitIndex'[i] = new PROVE CommitFits(i, H, T, A2)'
    <3>1. Committed(m.leaderCommit, t, H[t], H, T, A)
      BY Zenon, <2>3 DEF CommitInv, AppendCommits
    <3>2. LastLogTerm(i)' \in T
      BY Zenon DEF LogInv, PeerFollows
    <3>3. QED
      BY Zenon, <2>0, <2>4, <2>6, <2>9, <2>16, <2>20, <3>1, <3>2, ToldCommitted
  <2>21. CommitsStep(H, T, A2)
    BY Zenon, <2>18, <2>19, <2>20 DEF CommitsStep
  <2>22. QED
    BY Zenon, <2>8, <2>11, <2>12, <2>13, <2>14, <2>21 DEF CommitStep
<1> SUFFICES ASSUME NEW H, NEW T, NEW A, LogInv(H, T), CommitInv(H, T, A), ElectionInv, TypeOK', RolesStep,
                    votes \subseteq votes', NEW m \in aeArgs, AcceptAppend(m)
             PROVE  Advances(H, T, A)
  BY Zenon DEF Ready
<1>0. TypeOK /\ DiskInv /\ Majorities
  BY Zenon DEF ElectionInv, DiskInv
<1>1. LogStep(H, T, H, T)
  BY Zenon, <1>AcceptLog
<1>2. LogInv(H, T)'
  BY Zenon, <1>0, <1>1, LogPreserved
<1>3. \E A2 : CommitStep(H, T, A, H, T, A2)
  BY Zenon, <1>2, <1>AcceptCommit
<1>4. QED
  BY Zenon, <1>1, <1>3 DEF Advances

-----------------------------------------------------------------------------
(* InstallSnapshot *)

\* InstallSnapshot promotes nobody.
LEMMA InstallRoles ==
  ASSUME TypeOK, NEW m \in isArgs, InstallSnapshot(m)
  PROVE  RolesStep /\ NoPromotion
<1>1. m.to \in Server /\ m.term \in Nat
  BY Zenon DEF TypeOK, InstallSnapshotArgs
<1>2. CASE RejectSnapshot(m)
  BY Zenon, <1>2, SameRoles DEF RejectSnapshot, electionVars, NoPromotion
<1>3. CASE FollowLeader(m.to, m.term)
  BY Zenon, <1>1, <1>3, FollowLeaderRoles
<1>4. QED
  BY Zenon, <1>2, <1>3 DEF InstallSnapshot, IgnoreSnapshot, AcceptSnapshot

\* Snapshot and InstallSnapshot drop the entries up to an index the log holds.
LEMMA HoldsCut ==
  ASSUME NEW base \in Nat, NEW bterm, NEW entries \in Seq(Entry), NEW snapshot,
         NEW s, Holds(base, bterm, entries, snapshot, s),
         NEW index \in Nat, base < index, index <= base + Len(entries),
         NEW data, Records(data, index, s)
  PROVE  HoldsTo(index, TermOf(s, index), SubSeq(entries, (index + 1) - base, Len(entries)),
                 data, s, base + Len(entries))
<1> DEFINE d == index - base
           es == SubSeq(entries, d + 1, Len(entries))
<1>0. Len(entries) \in Nat
  BY Zenon, LenType
<1>1. d \in 0..Len(entries) /\ (index + 1) - base = d + 1 /\ base + d = index
  BY <1>0
<1> HIDE DEF d
<1>2. Len(es) = Len(entries) - d /\ \A k \in 1..Len(entries) - d : es[k] = entries[d + k]
  BY Zenon, <1>1, Suffixes
<1>3. Len(es) = Len(entries) - d
  BY Zenon, <1>2
<1> HIDE DEF es
<1>4. index + Len(es) = base + Len(entries)
  BY <1>0, <1>1, <1>3
<1>5. ASSUME NEW k \in 1..Len(es) PROVE es[k] = s[index + k]
  <2>1. k \in 1..Len(entries) - d /\ d + k \in 1..Len(entries) /\ base + (d + k) = index + k
    BY <1>0, <1>1, <1>3
  <2>2. QED
    BY Zenon, <1>2, <2>1 DEF Holds, Carries
<1>6. Carries(index, es, s)
  BY Zenon, <1>4, <1>5 DEF Holds, Carries
<1>7. QED
  BY Zenon, <1>1, <1>4, <1>6 DEF Holds, HoldsTo, es

\* Two logs that begin with what is held have the same commands there.
LEMMA HoldsSameCommands ==
  ASSUME NEW base \in Nat, NEW bterm, NEW entries, Len(entries) \in Nat, NEW snapshot,
         NEW s, Holds(base, bterm, entries, snapshot, s),
         NEW r, Holds(base, bterm, entries, snapshot, r),
         NEW index \in Nat, index <= base + Len(entries), NEW data, Records(data, index, r)
  PROVE  Records(data, index, s)
<1> SUFFICES ASSUME NEW k \in 1..index PROVE data[k] = s[k].command
  BY Zenon DEF Records
<1>1. data[k] = r[k].command
  BY Zenon DEF Records
<1>2. CASE k \in 1..base
  BY Zenon, <1>1, <1>2 DEF Holds, Records
<1>3. CASE k \notin 1..base
  <2>1. k - base \in 1..Len(entries) /\ base + (k - base) = k
    BY <1>3
  <2>2. entries[k - base] = s[base + (k - base)] /\ entries[k - base] = r[base + (k - base)]
    BY Zenon, <2>1 DEF Holds, Carries
  <2>3. QED
    BY Zenon, <1>1, <2>1, <2>2
<1>4. QED
  BY Zenon, <1>2, <1>3

\* Cutting the log behind a snapshot of its commands loses nothing.
LEMMA CutKeeps ==
  ASSUME NEW H, NEW T, Histories(H, T), TypeOK, TypeOK', NEW i \in Server, PeerFollows(i, H, T),
         NEW index \in Nat, index > lastIncludedIndex[i], index <= LastLogIndex(i),
         NEW data, Records(data, index, H[LastLogTerm(i)]),
         log'[i] = EntriesFrom(i, index + 1), lastIncludedIndex'[i] = index,
         lastIncludedTerm'[i] = TermAt(i, index), persister'[i].snapshot = data
  PROVE  Keeps(i)
<1> DEFINE b == lastIncludedIndex[i]
           es == SubSeq(log[i], (index + 1) - b, Len(log[i]))
           n == b + Len(log[i])
<1>1. HeldTypes(i) /\ HeldTypes(i)'
  BY Zenon, HeldTyped, HeldTypedNext
<1>2. LastLogTerm(i) \in T /\ Follows(i, H[LastLogTerm(i)])
  BY ZenonT(30) DEF PeerFollows
<1>3. b < index /\ index <= n /\ InLog(i, index)
  BY SMTT(30), <1>1 DEF HeldTypes, InLog
<1>4. log'[i] = es
  BY DEF EntriesFrom
<1>5. b \in Nat /\ log[i] \in Seq(Entry) /\ Len(log[i]) \in Nat /\ LastLogIndex(i) = n
  BY Zenon, <1>1 DEF HeldTypes
<1> HIDE DEF b, n, es
<1>6. ASSUME NEW s, Follows(i, s) PROVE Follows(i, s)' /\ LastLogIndex(i)' = LastLogIndex(i)
  <2>1. /\ Holds(b, lastIncludedTerm[i], log[i], persister[i].snapshot, s)
        /\ Holds(b, lastIncludedTerm[i], log[i], persister[i].snapshot, H[LastLogTerm(i)])
    BY ZenonT(30), <1>2, <1>6 DEF Follows, b
  <2>2. Records(data, index, s)
    <3>1. index <= b + Len(log[i])
      BY <1>3 DEF n
    <3>2. QED
      BY ONLY SMTT(30), <1>5, <2>1, <3>1, index \in Nat, Records(data, index, H[LastLogTerm(i)]),
         HoldsSameCommands
  <2>3. TermAt(i, index) = TermOf(s, index)
    BY <1>1, <1>3, <1>6, FollowsTerm
  <2>4. HoldsTo(index, TermOf(s, index), es, data, s, n)
    BY Zenon, <1>3, <1>5, <2>1, <2>2, HoldsCut DEF es, n
  <2>5. Holds(index, TermOf(s, index), es, data, s) /\ index + Len(es) = n
    BY Zenon, <2>4 DEF HoldsTo
  <2>6. QED
    BY Zenon, <1>4, <1>5, <2>3, <2>5 DEF Follows, LastLogIndex
<1>7. LastLogTerm(i)' = LastLogTerm(i) /\ LastLogIndex(i)' = LastLogIndex(i)
  <2>1. PICK u : u = LastLogTerm(i)
    BY Zenon
  <2>2. u \in T /\ Follows(i, H[u])
    BY Zenon, <1>2, <2>1
  <2>3. Follows(i, H[u])' /\ LastLogIndex(i)' = LastLogIndex(i)
    BY Zenon, <1>6, <2>2
  <2>4. FollowsToLast(i, H, T, u)
    BY Zenon, <1>1, <2>2, FollowsLast
  <2>5. FollowsToLast(i, H, T, u)'
    BY Zenon, <1>1, <2>2, <2>3, FollowsLastNext
  <2>6. /\ LastLogTerm(i) = TermOf(H[u], LastLogIndex(i))
        /\ LastLogTerm(i)' = TermOf(H[u], LastLogIndex(i)')
    BY Zenon, <2>4, <2>5 DEF FollowsToLast
  <2>7. QED
    BY Zenon, <2>3, <2>6
<1>8. QED
  BY Zenon, <1>6, <1>7 DEF Keeps

\* InstallSnapshot: a snapshot that is old news is acknowledged, another one taken.
LEMMA InstallAdvances ==
  \A H, T, A : Ready(H, T, A) /\ (\E m \in isArgs : InstallSnapshot(m)) => Advances(H, T, A)
\* InstallSnapshot drops a log that does not hold the snapshot's last entry.
<1>HoldsNothing. ASSUME NEW index \in Nat, NEW s, index <= Len(s), NEW data, Records(data, index, s)
      PROVE  Holds(index, TermOf(s, index), <<>>, data, s)
  <2> USE <1>HoldsNothing
  <2>1. Len(<<>>) = 0 /\ index + 0 = index /\ 1..0 = {}
    OBVIOUS
  <2>2. QED
    BY Zenon, <2>1 DEF Holds, Carries
<1>InstallTyped. ASSUME TypeOK, NEW m \in isArgs
      PROVE  /\ m.from \in Server /\ m.to \in Server /\ m.term \in Nat
             /\ m.lastIncludedIndex \in Nat
  <2> USE <1>InstallTyped
  <2>1. m \in InstallSnapshotArgs
    BY Zenon DEF TypeOK
  <2>2. QED
    BY <2>1 DEF InstallSnapshotArgs
<1>NoSnapshotLog. ASSUME NEW H, NEW T, LogInv(H, T), TypeOK, NEW m \in isArgs,
             RejectSnapshot(m) \/ IgnoreSnapshot(m)
      PROVE  LogStep(H, T, H, T)
  <2> USE <1>NoSnapshotLog
  <2>1. m.to \in Server
    BY Zenon, <1>InstallTyped
  <2>2. /\ UNCHANGED logVars /\ (Persist(m.to) \/ UNCHANGED persister)
        /\ aeArgs' = aeArgs /\ isArgs' = isArgs /\ aeReplies' = aeReplies
    BY Zenon DEF RejectSnapshot, IgnoreSnapshot, PersistIf, logVars, aeNet
  <2>3. \A j \in Server : Keeps(j)
    BY Zenon, <2>1, <2>2, PersistKeeps, KeptIsKept
  <2>4. \A j \in Server : role'[j] = "Leader" => role[j] = "Leader"
    BY Zenon, InstallRoles DEF InstallSnapshot, NoPromotion
  <2>5. QED
    BY Zenon, <2>2, <2>3, <2>4, QuietLog
<1>AcceptSnapshotLog. ASSUME NEW H, NEW T, LogInv(H, T), ElectionInv, TypeOK', NEW m \in isArgs, AcceptSnapshot(m)
      PROVE  /\ LogStep(H, T, H, T) /\ role'[m.to] = "Follower" /\ currentTerm'[m.to] = m.term
             /\ Reaches(m.to, H, m.term, m.lastIncludedIndex)'
  <2> USE <1>AcceptSnapshotLog
  <2> DEFINE i == m.to
             u == LastLogTerm(i)
             index == m.lastIncludedIndex
  <2>0. TypeOK /\ Histories(H, T)
    BY Zenon DEF LogInv, ElectionInv, DiskInv
  <2>1. /\ m.from \in Server /\ i \in Server /\ m.term \in Nat /\ index \in Nat /\ HeldTypes(i)
    BY Zenon, <2>0, <1>InstallTyped, HeldTyped
  <2>2. /\ m.from # m.to /\ m.term \in T /\ index <= Len(H[m.term])
        /\ m.lastIncludedTerm = TermOf(H[m.term], index)
        /\ Records(m.data, index, H[m.term])
    BY Zenon DEF LogInv, SnapshotFollows
  <2>3. PeerFollows(i, H, T) /\ u \in T /\ Follows(i, H[u])
    BY Zenon, <2>1 DEF LogInv, PeerFollows
  <2>4. /\ FollowLeader(i, m.term) /\ index > lastIncludedIndex[i] /\ Save(i, m.data)
        /\ aeArgs' = aeArgs /\ isArgs' = isArgs /\ aeReplies' = aeReplies
    BY Zenon DEF AcceptSnapshot, aeNet
  <2>5. role'[i] = "Follower" /\ currentTerm'[i] = m.term
    <3>1. m \in aeArgs \cup isArgs
      BY Zenon
    <3>2. QED
      BY Zenon, <2>1, <2>2, <2>4, <3>1, CalleeFollows
  <2>6. \A j \in Server : role'[j] = "Leader" => role[j] = "Leader"
    BY Zenon, <2>0, InstallRoles DEF InstallSnapshot, NoPromotion
  <2>7. /\ persister'[i].snapshot = m.data
        /\ \A j \in Server : j # i => persister'[j] = persister[j]
    BY Zenon, <2>0, <2>1, <2>4, SavedSnapshot
  <2>8. /\ log'[i] = IF HoldsEntry(i, index, m.lastIncludedTerm) THEN EntriesFrom(i, index + 1) ELSE <<>>
        /\ lastIncludedIndex'[i] = index
        /\ lastIncludedTerm'[i] = m.lastIncludedTerm
        /\ \A j \in Server : j # i => /\ log'[j] = log[j]
                                      /\ lastIncludedIndex'[j] = lastIncludedIndex[j]
                                      /\ lastIncludedTerm'[j] = lastIncludedTerm[j]
    BY Zenon, <2>0, <2>1 DEF AcceptSnapshot, TypeOK
  <2>9. \A j \in Server : j # i => LogKept(j)
    BY Zenon, <2>7, <2>8 DEF LogKept
  <2>10. index <= LastLogIndex(i) => TermAt(i, index) = TermOf(H[u], index) /\ index <= Len(H[u])
    <3>1. SUFFICES ASSUME index <= LastLogIndex(i)
                   PROVE  TermAt(i, index) = TermOf(H[u], index) /\ index <= Len(H[u])
      BY ZenonT(30)
    <3>2. InLog(i, index)
      BY SMTT(30), <2>1, <2>4, <3>1 DEF InLog, HeldTypes
    <3>3. LastLogIndex(i) <= Len(H[u]) /\ Len(H[u]) \in Nat /\ LastLogIndex(i) \in Nat
      BY Zenon, <2>0, <2>1, <2>3, FollowsReach, HistoryType DEF HeldTypes
    <3> HIDE DEF index, i, u
    <3>4. index <= Len(H[u])
      BY <2>1, <3>1, <3>3
    <3>5. QED
      BY Zenon, <2>1, <2>3, <3>2, <3>4, FollowsTerm
  <2> HIDE DEF i, u, index
  <2>11. CASE HoldsEntry(i, index, m.lastIncludedTerm)
    <3>1. index <= LastLogIndex(i) /\ TermAt(i, index) = m.lastIncludedTerm
      BY Zenon, <2>11 DEF HoldsEntry
    <3>2. AgreeUpTo(H[u], H[m.term], index)
      BY Zenon, <2>0, <2>1, <2>2, <2>3, <2>10, <3>1, HistoriesMatch
    <3>3. Records(m.data, index, H[u])
      BY Zenon, <2>2, <3>2 DEF Records, AgreeUpTo
    <3>4. Keeps(i)
      <4>1. log'[i] = EntriesFrom(i, index + 1) /\ lastIncludedTerm'[i] = TermAt(i, index)
        BY Zenon, <2>8, <2>11, <3>1
      <4>2. QED
        BY Zenon, <2>0, <2>1, <2>3, <2>4, <2>7, <2>8, <3>1, <3>3, <4>1, CutKeeps DEF u
    <3>5. LastLogTerm(i)' = u /\ LastLogIndex(i)' = LastLogIndex(i)
      BY Zenon, <3>4 DEF Keeps, u
    <3>6. Reaches(i, H, m.term, index)'
      BY Zenon, <3>1, <3>2, <3>5 DEF Reaches, index
    <3>7. LogStep(H, T, H, T)
      BY Zenon, <2>4, <2>6, <2>9, <3>4, OnePeerLog
    <3>8. QED
      BY Zenon, <2>5, <3>6, <3>7 DEF i, index
  <2>12. CASE ~HoldsEntry(i, index, m.lastIncludedTerm)
    <3>1. log'[i] = <<>>
      BY Zenon, <2>8, <2>12
    <3>2. LastLogIndex(i)' = index
      <4>1. LastLogIndex(i)' = index + Len(<<>>)
        BY Zenon, <2>8, <3>1 DEF LastLogIndex
      <4>2. QED
        BY <2>1, <4>1
    <3>3. Holds(index, TermOf(H[m.term], index), <<>>, m.data, H[m.term])
      BY Zenon, <2>1, <2>2, <1>HoldsNothing
    <3>4. Follows(i, H[m.term])'
      BY Zenon, <2>2, <2>7, <2>8, <3>1, <3>3 DEF Follows
    <3>5. ~Reaches(i, H, m.term, index)
      <4>1. SUFFICES ASSUME index <= LastLogIndex(i), AgreeUpTo(H[u], H[m.term], index)
                     PROVE  FALSE
        BY Zenon DEF Reaches, u
      <4>2. index \in 0..index
        BY <2>1
      <4>3. TermOf(H[u], index) = TermOf(H[m.term], index)
        BY Zenon, <2>1, <4>1, <4>2, AgreeTerms
      <4>4. QED
        BY Zenon, <2>2, <2>10, <2>12, <4>1, <4>3 DEF HoldsEntry
    <3>6. Takes(i, H, T)
      BY Zenon, <2>2, <2>5, <3>2, <3>4, <3>5 DEF Takes
    <3>7. LogStep(H, T, H, T)
      BY Zenon, <2>4, <2>5, <2>6, <2>9, <3>6, OnePeerLog
    <3>8. Reaches(i, H, m.term, LastLogIndex(i))'
      BY Zenon, <2>0, <2>1, <2>2, <3>4, TakenReaches
    <3>9. Reaches(i, H, m.term, index)'
      BY Zenon, <3>2, <3>8 DEF Reaches, index
    <3>10. QED
      BY Zenon, <2>5, <3>7, <3>9 DEF i, index
  <2>13. QED
    BY Zenon, <2>11, <2>12
<1>RejectSnapshotCommit. ASSUME NEW H, NEW T, NEW A, LogInv(H, T), CommitInv(H, T, A), TypeOK, NEW m \in isArgs, RejectSnapshot(m)
      PROVE  CommitStep(H, T, A, H, T, A)
  <2> USE <1>RejectSnapshotCommit
  <2>1. m.to \in Server /\ m.term \in Nat
    BY Zenon, <1>InstallTyped
  <2>2. /\ UNCHANGED <<electionVars, logVars, applyVars, leaderVars>> /\ rvReplies' = rvReplies /\ rvArgs' = rvArgs
        /\ aeArgs' = aeArgs /\ isArgs' = isArgs /\ aeReplies' = aeReplies
    BY Zenon DEF RejectSnapshot, rvNet, aeNet
  <2>3. ASSUME NEW r \in isReplies', r \notin isReplies PROVE SnapshotAnswers(r, T, A)
    <3>1. r.term = currentTerm[m.to] /\ r.reqTerm = m.term /\ m.term < currentTerm[m.to]
      BY <2>3 DEF RejectSnapshot, AnswerSnapshot
    <3>2. currentTerm[m.to] \in Nat
      BY Zenon, <2>1 DEF TypeOK
    <3>3. ~(r.term <= r.reqTerm)
      BY <2>1, <3>1, <3>2
    <3>4. QED
      BY Zenon, <3>3 DEF SnapshotAnswers
  <2>4. AnswersStep(H, T, A)
    BY Zenon, <2>2, <2>3 DEF AnswersStep
  <2>5. AcksStep(H, T, A, H, T, A) /\ SameBut(H, T, A)
    BY Zenon, <2>2, MailOnly
  <2>6. QED
    BY Zenon, <2>2, <2>4, <2>5, SameCalls DEF CommitStep, SameBut
\* What the callee of InstallSnapshot answers, it acknowledges.
<1>InstallAnswers. ASSUME NEW H, NEW T, NEW A2, NEW m, AnswerSnapshot(m), UNCHANGED aeReplies, m.term \in T,
             m.lastIncludedIndex <= A2[m.to][m.term]
      PROVE  AnswersStep(H, T, A2)
  <2> USE <1>InstallAnswers
  <2>1. ASSUME NEW r \in isReplies', r \notin isReplies PROVE SnapshotAnswers(r, T, A2)
    <3>1. r.from = m.to /\ r.reqTerm = m.term /\ r.lastIncludedIndex = m.lastIncludedIndex
      BY <2>1 DEF AnswerSnapshot
    <3>2. QED
      BY Zenon, <3>1 DEF SnapshotAnswers
  <2>2. QED
    BY Zenon, <2>1 DEF AnswersStep
<1>IgnoreCommit. ASSUME Majorities, NEW H, NEW T, NEW A, LogInv(H, T), CommitInv(H, T, A), TypeOK,
             NEW m \in isArgs, IgnoreSnapshot(m)
      PROVE  \E A2 : CommitStep(H, T, A, H, T, A2)
  <2> USE <1>IgnoreCommit
  <2>1. m.to \in Server /\ m.term \in Nat /\ m.lastIncludedIndex \in Nat
    BY Zenon, <1>InstallTyped
  <2>2. /\ UNCHANGED <<votes, logVars, applyVars, leaderVars>> /\ rvReplies' = rvReplies /\ rvArgs' = rvArgs
        /\ aeArgs' = aeArgs /\ isArgs' = isArgs /\ aeReplies' = aeReplies
    BY Zenon DEF IgnoreSnapshot, FollowLeader, rvNet, aeNet
  <2>3. FollowLeader(m.to, m.term) /\ m.lastIncludedIndex <= lastIncludedIndex[m.to] /\ AnswerSnapshot(m)
    BY Zenon DEF IgnoreSnapshot
  <2>4. NoPromotion /\ currentTerm'[m.to] = m.term
    BY Zenon, <2>1, <2>3, FollowLeaderRoles
  <2>5. /\ commitIndex[m.to] \in Nat /\ lastApplied[m.to] \in Nat /\ lastIncludedIndex[m.to] \in Nat
        /\ currentTerm[m.to] \in Nat
    BY Zenon, <2>1 DEF TypeOK
  <2>6. lastIncludedIndex[m.to] <= lastApplied[m.to] /\ lastApplied[m.to] <= commitIndex[m.to]
    BY Zenon, <2>1 DEF CommitInv, ApplyFits
  <2>7. m.lastIncludedIndex <= commitIndex[m.to]
    BY ONLY SMTT(30), <2>1, <2>3, <2>5, <2>6
  <2>8. currentTerm[m.to] <= m.term
    <3>1. m.term >= currentTerm[m.to]
      BY Zenon, <2>3 DEF FollowLeader
    <3>2. QED
      BY ONLY SMTT(30), <2>1, <2>5, <3>1
  <2>9. m.term \in T /\ Histories(H, T) /\ A \in Acks
    BY Zenon DEF LogInv, SnapshotFollows, CommitInv
  <2>10. Reaches(m.to, H, m.term, m.lastIncludedIndex)
    BY Zenon, <2>1, <2>7, <2>8, <2>9, CommittedInLater
  <2>11. Reaches(m.to, H, m.term, m.lastIncludedIndex)'
    BY Zenon, <2>2, <2>10 DEF Reaches, LastLogIndex, LastLogTerm, TermAt, logVars
  <2>12. PICK A2 : Acknowledges(H, T, A, A2, m.to, m.term, m.lastIncludedIndex)
    BY Zenon, <2>1, <2>4, <2>9, <2>11, Acknowledging
  <2>13. AcksStep(H, T, A, H, T, A2) /\ m.lastIncludedIndex <= A2[m.to][m.term]
    BY Zenon, <2>12 DEF Acknowledges
  <2>14. AnswersStep(H, T, A2)
    BY Zenon, <2>2, <2>3, <2>9, <2>13, <1>InstallAnswers
  <2>15. SameBut(H, T, A2)
    BY Zenon, <2>2, <2>4, RestSame DEF NoPromotion
  <2>16. QED
    BY Zenon, <2>2, <2>13, <2>14, <2>15, SameCalls DEF CommitStep, SameBut
<1>AcceptSnapshotCommit. ASSUME NEW H, NEW T, NEW A, LogInv(H, T), CommitInv(H, T, A), ElectionInv, TypeOK',
             NEW m \in isArgs, AcceptSnapshot(m), LogInv(H, T)'
      PROVE  \E A2 : CommitStep(H, T, A, H, T, A2)
  <2> USE <1>AcceptSnapshotCommit
  <2>0. TypeOK /\ Histories(H, T) /\ A \in Acks
    BY Zenon DEF ElectionInv, DiskInv, LogInv, CommitInv
  <2>1. PICK i \in Server : i = m.to
    BY Zenon, <2>0, <1>InstallTyped
  <2>2. PICK t \in T : t = m.term
    BY Zenon DEF LogInv, SnapshotFollows
  <2>3. PICK n \in Nat : n = m.lastIncludedIndex
    BY Zenon, <2>0, <1>InstallTyped
  <2>4. role'[i] = "Follower" /\ currentTerm'[i] = t /\ Reaches(i, H, t, n)'
    BY Zenon, <2>1, <2>2, <2>3, <1>AcceptSnapshotLog
  <2>5. PICK A2 : Acknowledges(H, T, A, A2, i, t, n)
    BY Zenon, <2>0, <2>4, Acknowledging
  <2>6. AcksStep(H, T, A, H, T, A2) /\ n <= A2[i][t]
    BY Zenon, <2>5 DEF Acknowledges
  <2>7. A2 \in Acks /\ \A j \in Server, u \in Nat : A[j][u] <= A2[j][u]
    BY Zenon, <2>6 DEF AcksStep, AckStep
  <2>8. /\ votes' = votes /\ UNCHANGED leaderVars /\ rvReplies' = rvReplies /\ rvArgs' = rvArgs
        /\ aeArgs' = aeArgs /\ isArgs' = isArgs /\ aeReplies' = aeReplies /\ AnswerSnapshot(m)
    BY Zenon DEF AcceptSnapshot, FollowLeader, rvNet, aeNet
  <2>9. /\ lastIncludedIndex' = [lastIncludedIndex EXCEPT ![i] = n]
        /\ commitIndex' = [commitIndex EXCEPT ![i] = IF @ < n THEN n ELSE @]
        /\ lastApplied' = [lastApplied EXCEPT ![i] = IF @ < n THEN n ELSE @]
    BY Zenon, <2>1, <2>3 DEF AcceptSnapshot, AdvanceTo
  <2>10. VotesStep(H, T, A2)
    BY Zenon, <2>8, SameVotes
  <2>11. CallsStep(H, T, A2)
    BY Zenon, <2>8, SameCalls
  <2>12. AnswersStep(H, T, A2)
    BY Zenon, <2>1, <2>2, <2>3, <2>6, <2>8, <1>InstallAnswers
  <2>13. LeadersStep(H, A2)
    <3>1. NoPromotion
      BY Zenon, <2>0, InstallRoles DEF InstallSnapshot
    <3>2. ASSUME NEW j \in Server, j # i PROVE log'[j] = log[j] /\ lastIncludedIndex'[j] = lastIncludedIndex[j]
      BY Zenon, <2>0, <2>1, <3>2 DEF AcceptSnapshot, TypeOK
    <3>3. role'[i] # "Leader"
      BY <2>4
    <3>4. QED
      BY Zenon, <2>8, <3>1, <3>2, <3>3, OtherLeaders
  <2>14. ASSUME NEW j \in Server
         PROVE  /\ lastIncludedIndex'[j] <= lastApplied'[j] /\ lastApplied'[j] <= commitIndex'[j]
                /\ commitIndex'[j] = commitIndex[j] \/ (j = i /\ commitIndex'[j] = n)
    <3>1. lastApplied \in [Server -> Nat] /\ commitIndex \in [Server -> Nat] /\ lastIncludedIndex \in [Server -> Nat]
      BY Zenon, <2>0 DEF TypeOK
    <3>2. lastIncludedIndex[j] <= lastApplied[j] /\ lastApplied[j] <= commitIndex[j]
      BY Zenon DEF CommitInv, ApplyFits
    <3>3. QED
      BY ONLY SMTT(30), i \in Server, j \in Server, n \in Nat, <2>9, <3>1, <3>2
  <2>15. ASSUME commitIndex'[i] = n PROVE CommitFits(i, H, T, A2)'
    <3>1. Committed(n, t, H[t], H, T, A)
      BY Zenon, <2>2, <2>3 DEF CommitInv, SnapshotCommits
    <3>2. LastLogTerm(i)' \in T /\ n <= n
      <4>1. LastLogTerm(i)' \in T
        BY Zenon DEF LogInv, PeerFollows
      <4>2. QED
        BY <4>1
    <3>3. QED
      BY Zenon, <2>0, <2>4, <2>7, <2>15, <3>1, <3>2, ToldCommitted
  <2>16. CommitsStep(H, T, A2)
    BY Zenon, <2>14, <2>15 DEF CommitsStep, ApplyFits
  <2>17. QED
    BY Zenon, <2>6, <2>10, <2>11, <2>12, <2>13, <2>16 DEF CommitStep
<1> SUFFICES ASSUME NEW H, NEW T, NEW A, LogInv(H, T), CommitInv(H, T, A), ElectionInv, TypeOK', RolesStep,
                    votes \subseteq votes', NEW m \in isArgs, InstallSnapshot(m)
             PROVE  Advances(H, T, A)
  BY Zenon DEF Ready
<1>0. TypeOK /\ DiskInv /\ Majorities
  BY Zenon DEF ElectionInv, DiskInv
<1>1. CASE RejectSnapshot(m)
  BY Zenon, <1>0, <1>1, <1>NoSnapshotLog, <1>RejectSnapshotCommit DEF Advances
<1>2. CASE IgnoreSnapshot(m)
  BY Zenon, <1>0, <1>2, <1>NoSnapshotLog, <1>IgnoreCommit DEF Advances
<1>3. CASE AcceptSnapshot(m)
  <2>1. LogStep(H, T, H, T)
    BY Zenon, <1>3, <1>AcceptSnapshotLog
  <2>2. LogInv(H, T)'
    BY Zenon, <1>0, <2>1, LogPreserved
  <2>3. \E A2 : CommitStep(H, T, A, H, T, A2)
    BY Zenon, <1>3, <2>2, <1>AcceptSnapshotCommit
  <2>4. QED
    BY Zenon, <2>1, <2>3 DEF Advances
<1>4. QED
  BY Zenon, <1>1, <1>2, <1>3 DEF InstallSnapshot

-----------------------------------------------------------------------------
(* The applier and Snapshot *)

\* The commands it holds are those of the whole log.
LEMMA HoldsCommands ==
  ASSUME NEW bterm, NEW entries \in Seq(Entry), NEW snapshot \in Seq(Command),
         NEW s, Holds(Len(snapshot), bterm, entries, snapshot, s),
         NEW c, c = snapshot \o [k \in DOMAIN entries |-> entries[k].command]
  PROVE  /\ c \in Seq(Command) /\ Len(c) = Len(snapshot) + Len(entries)
         /\ Records(c, Len(snapshot) + Len(entries), s)
<1> DEFINE tail == [k \in DOMAIN entries |-> entries[k].command]
           base == Len(snapshot)
<1>1. DOMAIN entries = 1..Len(entries) /\ Len(entries) \in Nat /\ base \in Nat
  OBVIOUS
<1>2. \A k \in 1..Len(entries) : entries[k].command \in Command
  <2>1. \A k \in 1..Len(entries) : entries[k] \in Entry
    BY <1>1
  <2>2. QED
    BY <2>1 DEF Entry
<1>3. /\ tail \in Seq(Command) /\ Len(tail) = Len(entries)
      /\ \A k \in 1..Len(entries) : tail[k] = entries[k].command
  BY SMTT(30), <1>1, <1>2
<1> HIDE DEF tail
<1>4. c = snapshot \o tail /\ tail \in Seq(Command)
  BY <1>3 DEF tail
<1>5. /\ c \in Seq(Command) /\ Len(c) = base + Len(tail)
      /\ \A k \in 1..base : c[k] = snapshot[k]
      /\ \A k \in 1..Len(tail) : c[base + k] = tail[k]
  <2>1. c \in Seq(Command) /\ Joins(c, snapshot, tail)
    BY Zenon, <1>4, Concatenated
  <2>2. QED
    BY Zenon, <2>1 DEF Joins
<1> HIDE DEF base
<1>6. ASSUME NEW k \in 1..base + Len(entries) PROVE c[k] = s[k].command
  <2>1. CASE k <= base
    <3>1. k \in 1..base
      BY <1>1, <2>1
    <3>2. QED
      BY Zenon, <1>5, <3>1 DEF Holds, Records, base
  <2>2. CASE k > base
    <3>1. k - base \in 1..Len(entries) /\ base + (k - base) = k
      BY <1>1, <2>2
    <3>2. entries[k - base] = s[k]
      BY Zenon, <3>1 DEF Holds, Carries, base
    <3>3. c[k] = tail[k - base] /\ tail[k - base] = entries[k - base].command
      BY Zenon, <1>3, <1>5, <3>1
    <3>4. QED
      BY Zenon, <3>2, <3>3
  <2>3. k <= base \/ k > base
    BY <1>1
  <2>4. QED
    BY Zenon, <2>1, <2>2, <2>3
<1>7. QED
  BY Zenon, <1>3, <1>5, <1>6 DEF Records, base

\* All the commands a peer holds are those of the leader it follows.
LEMMA CommandsRecord ==
  ASSUME DiskInv, NEW i \in Server, NEW s, Follows(i, s)
  PROVE  /\ Commands(i) \in Seq(Command) /\ Len(Commands(i)) = LastLogIndex(i)
         /\ Records(Commands(i), LastLogIndex(i), s)
<1>1. HeldTypes(i) /\ Len(persister[i].snapshot) = lastIncludedIndex[i]
  BY Zenon, HeldTyped DEF DiskInv, SnapshotsCover
<1>2. log[i] \in Seq(Entry) /\ persister[i].snapshot \in Seq(Command)
  BY Zenon, <1>1 DEF HeldTypes
<1>3. Holds(Len(persister[i].snapshot), lastIncludedTerm[i], log[i], persister[i].snapshot, s)
  BY Zenon, <1>1 DEF Follows
<1>4. Commands(i) = persister[i].snapshot \o [k \in DOMAIN log[i] |-> log[i][k].command]
  BY ZenonT(30) DEF Commands
<1>5. /\ Commands(i) \in Seq(Command)
      /\ Len(Commands(i)) = Len(persister[i].snapshot) + Len(log[i])
      /\ Records(Commands(i), Len(persister[i].snapshot) + Len(log[i]), s)
  BY Zenon, <1>2, <1>3, <1>4, HoldsCommands
<1>6. QED
  BY Zenon, <1>1, <1>5 DEF LastLogIndex

\* The applier and Snapshot: a peer applies what is committed and cuts what it applied.
LEMMA ApplyAdvances ==
  \A H, T, A : Ready(H, T, A) /\ (\E i \in Server : ApplierLoop(i) \/ TakeSnapshot(i)) => Advances(H, T, A)
<1>TakeSnapshotLog. ASSUME NEW H, NEW T, LogInv(H, T), DiskInv, TypeOK', NEW i \in Server, TakeSnapshot(i)
      PROVE  LogStep(H, T, H, T) /\ \A j \in Server : Keeps(j)
  <2> USE <1>TakeSnapshotLog
  <2>0. TypeOK /\ Histories(H, T) /\ PeerFollows(i, H, T)
    BY Zenon DEF LogInv, DiskInv
  <2>1. PICK index \in 1..lastApplied[i] : Snapshot(i, index, SubSeq(Commands(i), 1, index))
    BY Zenon DEF TakeSnapshot
  <2> DEFINE data == SubSeq(Commands(i), 1, index)
  <2>2. index > lastIncludedIndex[i] /\ InLog(i, index) /\ Save(i, data)
    BY Zenon, <2>1 DEF Snapshot
  <2>3. HeldTypes(i) /\ lastApplied[i] \in Nat
    BY ZenonT(30), <2>0, HeldTyped DEF TypeOK
  <2>4. index \in Nat /\ index <= LastLogIndex(i) /\ index \in 0..LastLogIndex(i)
    <3>1. lastIncludedIndex[i] \in Nat /\ LastLogIndex(i) \in Nat
      BY Zenon, <2>3 DEF HeldTypes
    <3>2. index \in lastIncludedIndex[i]..LastLogIndex(i)
      BY Zenon, <2>2 DEF InLog
    <3>3. QED
      BY ONLY <3>1, <3>2
  <2>5. /\ Commands(i) \in Seq(Command) /\ Len(Commands(i)) = LastLogIndex(i)
        /\ Records(Commands(i), LastLogIndex(i), H[LastLogTerm(i)])
    BY ZenonT(30), <2>0, CommandsRecord DEF PeerFollows
  <2>6. \A k \in 1..index : data[k] = Commands(i)[k]
    BY SMTT(30), <2>4, <2>5, Prefixes
  <2>7. \A k \in 1..index : k \in 1..LastLogIndex(i)
    BY SMTT(30), <2>3, <2>4 DEF HeldTypes
  <2> HIDE DEF data
  <2>8. Records(data, index, H[LastLogTerm(i)])
    BY Zenon, <2>5, <2>6, <2>7 DEF Records
  <2>9. /\ persister'[i].snapshot = data
        /\ \A j \in Server : j # i => persister'[j] = persister[j]
    BY Zenon, <2>0, <2>2, SavedSnapshot
  <2>10. /\ log'[i] = EntriesFrom(i, index + 1) /\ lastIncludedIndex'[i] = index
         /\ lastIncludedTerm'[i] = TermAt(i, index)
         /\ \A j \in Server : j # i => /\ log'[j] = log[j]
                                       /\ lastIncludedIndex'[j] = lastIncludedIndex[j]
                                       /\ lastIncludedTerm'[j] = lastIncludedTerm[j]
    BY Zenon, <2>0, <2>1 DEF Snapshot, TypeOK
  <2>11. Keeps(i)
    BY Zenon, <2>0, <2>2, <2>4, <2>8, <2>9, <2>10, CutKeeps
  <2>12. \A j \in Server : j # i => LogKept(j)
    BY Zenon, <2>9, <2>10 DEF LogKept
  <2>13. /\ aeArgs' = aeArgs /\ isArgs' = isArgs /\ aeReplies' = aeReplies
         /\ role' = role
    BY Zenon, <2>1 DEF Snapshot, aeNet, isNet, electionVars
  <2>14. LogStep(H, T, H, T)
    BY Zenon, <2>11, <2>12, <2>13, OnePeerLog
  <2>15. QED
    BY Zenon, <2>11, <2>12, <2>14, KeptIsKept
<1>ApplyCommit. ASSUME NEW H, NEW T, NEW A, LogInv(H, T), CommitInv(H, T, A), TypeOK, NEW i \in Server, ApplierLoop(i)
      PROVE  CommitStep(H, T, A, H, T, A)
  <2> USE <1>ApplyCommit
  <2>1. /\ lastApplied[i] < commitIndex[i] /\ lastApplied' = [lastApplied EXCEPT ![i] = commitIndex[i]]
        /\ UNCHANGED <<electionVars, logVars, commitIndex, leaderVars, rvNet, aeNet, isNet>>
    BY Zenon DEF ApplierLoop
  <2>2. ASSUME NEW j \in Server PROVE ApplyFits(j)'
    <3>1. lastApplied \in [Server -> Nat] /\ commitIndex[j] \in Nat /\ lastIncludedIndex[j] \in Nat /\ lastApplied[j] \in Nat
      BY Zenon DEF TypeOK
    <3>2. lastIncludedIndex[j] <= lastApplied[j] /\ lastApplied[j] <= commitIndex[j]
      BY Zenon DEF CommitInv, ApplyFits
    <3>3. lastIncludedIndex[j] <= commitIndex[j] /\ commitIndex[j] <= commitIndex[j]
      BY ONLY <3>1, <3>2
    <3>4. lastApplied'[j] = lastApplied[j] \/ lastApplied'[j] = commitIndex[j]
      BY Zenon, <2>1, <3>1
    <3>5. QED
      BY Zenon, <2>1, <3>2, <3>3, <3>4 DEF ApplyFits, logVars
  <2>3. CommitsStep(H, T, A)
    BY Zenon, <2>1, <2>2 DEF CommitsStep
  <2>4. VotesStep(H, T, A)
    BY Zenon, <2>1, SameVotes DEF electionVars, rvNet
  <2>5. CallsStep(H, T, A) /\ AnswersStep(H, T, A)
    BY Zenon, <2>1, SameCalls, SameAnswers DEF aeNet, isNet
  <2>6. AcksStep(H, T, A, H, T, A)
    BY Zenon, SameAcks DEF LogInv, CommitInv
  <2>7. LeadersStep(H, A)
    BY Zenon, <2>1, SameLeaders DEF electionVars, logVars, leaderVars, LastLogIndex
  <2>8. QED
    BY Zenon, <2>3, <2>4, <2>5, <2>6, <2>7 DEF CommitStep
<1>TakeSnapshotCommit. ASSUME NEW H, NEW T, NEW A, LogInv(H, T), CommitInv(H, T, A), TypeOK, NEW i \in Server, TakeSnapshot(i),
             \A j \in Server : Keeps(j)
      PROVE  CommitStep(H, T, A, H, T, A)
  <2> USE <1>TakeSnapshotCommit
  <2>1. PICK index \in 1..lastApplied[i] : Snapshot(i, index, SubSeq(Commands(i), 1, index))
    BY Zenon DEF TakeSnapshot
  <2>2. /\ lastIncludedIndex' = [lastIncludedIndex EXCEPT ![i] = index] /\ AdvanceTo(i, index)
        /\ UNCHANGED <<electionVars, leaderVars, rvNet, aeNet, isNet>>
    BY Zenon, <2>1 DEF Snapshot
  <2>3. ASSUME NEW j \in Server
        PROVE  /\ commitIndex'[j] = commitIndex[j] /\ lastApplied'[j] = lastApplied[j]
               /\ lastIncludedIndex'[j] <= lastApplied[j]
    <3>1. lastApplied \in [Server -> Nat] /\ commitIndex \in [Server -> Nat] /\ lastIncludedIndex \in [Server -> Nat]
      BY Zenon DEF TypeOK
    <3>2. lastIncludedIndex[j] <= lastApplied[j] /\ lastApplied[j] <= commitIndex[j]
      BY Zenon DEF CommitInv, ApplyFits
    <3>3. commitIndex' = [commitIndex EXCEPT ![i] = IF @ < index THEN index ELSE @]
      BY Zenon, <2>2 DEF AdvanceTo
    <3>4. lastApplied' = [lastApplied EXCEPT ![i] = IF @ < index THEN index ELSE @]
      BY Zenon, <2>2 DEF AdvanceTo
    <3>5. lastIncludedIndex' = [lastIncludedIndex EXCEPT ![i] = index]
      BY Zenon, <2>2
    <3>6. QED
      BY ONLY SMTT(30), i \in Server, j \in Server, index \in 1..lastApplied[i], <3>1, <3>2, <3>3, <3>4, <3>5
  <2>4. CommitsStep(H, T, A)
    BY Zenon, <2>3 DEF CommitsStep, ApplyFits, CommitInv
  <2>5. VotesStep(H, T, A)
    BY Zenon, <2>2, SameVotes DEF electionVars, rvNet
  <2>6. CallsStep(H, T, A) /\ AnswersStep(H, T, A)
    BY Zenon, <2>2, SameCalls, SameAnswers DEF aeNet, isNet
  <2>7. AcksStep(H, T, A, H, T, A)
    BY Zenon, SameAcks DEF LogInv, CommitInv
  <2>8. LeadersStep(H, A)
    BY Zenon, <2>2, SameLeaders DEF electionVars, leaderVars, Keeps
  <2>9. QED
    BY Zenon, <2>4, <2>5, <2>6, <2>7, <2>8 DEF CommitStep
<1> SUFFICES ASSUME NEW H, NEW T, NEW A, LogInv(H, T), CommitInv(H, T, A), ElectionInv, TypeOK',
                    NEW i \in Server, ApplierLoop(i) \/ TakeSnapshot(i)
             PROVE  Advances(H, T, A)
  BY Zenon DEF Ready
<1>0. TypeOK /\ DiskInv /\ Majorities
  BY Zenon DEF ElectionInv, DiskInv
<1>1. CASE ApplierLoop(i)
  <2>1. LogStep(H, T, H, T)
    BY Zenon, <1>1, LocalLog DEF ApplierLoop
  <2>2. QED
    BY Zenon, <1>0, <1>1, <2>1, <1>ApplyCommit DEF Advances
<1>2. CASE TakeSnapshot(i)
  <2>1. LogStep(H, T, H, T) /\ \A j \in Server : Keeps(j)
    BY Zenon, <1>0, <1>2, <1>TakeSnapshotLog
  <2>2. QED
    BY Zenon, <1>0, <1>2, <2>1, <1>TakeSnapshotCommit DEF Advances
<1>3. QED
  BY Zenon, <1>1, <1>2

-----------------------------------------------------------------------------
(* Roles *)

\* Every handler moves terms and roles as RolesStep says.
LEMMA NextRoles ==
  ASSUME DiskInv, Next
  PROVE  RolesStep
\* Elections: candidacy comes with a new term, leadership from candidacy.
<1>ElectRoles. ASSUME TypeOK, Elect
      PROVE  RolesStep
  <2> USE <1>ElectRoles
  <2>0. ASSUME NEW i \in Server PROVE currentTerm[i] \in Nat /\ role[i] \in Role
    BY Zenon DEF TypeOK
  <2>1. ASSUME NEW i \in Server, StartElection(i) PROVE RolesStep
    <3>1. /\ role' = [role EXCEPT ![i] = "Candidate"]
          /\ currentTerm' = [currentTerm EXCEPT ![i] = currentTerm[i] + 1]
      BY Zenon, <2>1 DEF StartElection
    <3>2. currentTerm[i] + 1 \in Nat /\ currentTerm[i] + 1 > currentTerm[i]
          /\ currentTerm[i] + 1 >= currentTerm[i]
      BY <2>0
    <3>3. QED
      BY Zenon, <3>1, <3>2, OneRole
  <2>2. ASSUME NEW m \in rvArgs, RequestVote(m) PROVE RolesStep
    <3>0. m.to \in Server /\ m.term \in Nat
      BY Zenon DEF TypeOK, RequestVoteArgs
    <3>1. CASE RejectVote(m)
      BY Zenon, <3>1, SameRoles DEF RejectVote, electionVars
    <3>2. CASE ConsiderVote(m)
      <4> DEFINE x == IF m.term > currentTerm[m.to] THEN "Follower" ELSE role[m.to]
      <4>1. /\ role' = [role EXCEPT ![m.to] = x]
            /\ currentTerm' = [currentTerm EXCEPT ![m.to] = m.term]
            /\ m.term >= currentTerm[m.to]
        BY Zenon, <3>2 DEF ConsiderVote
      <4>2. x # "Follower" => m.term = currentTerm[m.to] /\ x = role[m.to]
        BY <2>0, <3>0, <4>1
      <4> HIDE DEF x
      <4>3. QED
        BY Zenon, <3>0, <4>1, <4>2, OneRole
    <3>3. QED
      BY Zenon, <2>2, <3>1, <3>2 DEF RequestVote
  <2>3. ASSUME NEW r \in rvReplies, VoteReplyNewTerm(r) PROVE RolesStep
    <3>1. r.to \in Server /\ r.term \in Nat
      BY Zenon DEF TypeOK, RequestVoteReply
    <3>2. QED
      BY ZenonT(30), <2>3, <3>1, StepDownRoles DEF VoteReplyNewTerm
  <2>4. ASSUME NEW r \in rvReplies, CountVote(r) PROVE RolesStep
    <3>0. r.to \in Server
      BY DEF TypeOK, RequestVoteReply
    <3> DEFINE x == IF IsMajority(Tally(r.to, r.reqTerm) \cup {r.from}) THEN "Leader" ELSE role[r.to]
    <3>1. /\ role' = [role EXCEPT ![r.to] = x] /\ currentTerm' = currentTerm
          /\ role[r.to] = "Candidate" /\ x \in {"Leader", "Candidate"}
      BY Zenon, <2>4 DEF CountVote
    <3> HIDE DEF x
    <3>2. currentTerm' = [currentTerm EXCEPT ![r.to] = currentTerm[r.to]]
      BY <3>1 DEF TypeOK
    <3>3. currentTerm[r.to] >= currentTerm[r.to]
      BY <2>0, <3>0
    <3>4. QED
      BY Zenon, <2>0, <3>0, <3>1, <3>2, <3>3, OneRole
  <2>5. QED
    BY Zenon, <2>1, <2>2, <2>3, <2>4 DEF Elect
<1>0. TypeOK
  BY Zenon DEF DiskInv
<1>1. CASE Elect
  BY Zenon, <1>0, <1>1, <1>ElectRoles
<1>2. CASE Replicate
  <2>1. CASE UNCHANGED electionVars
    BY Zenon, <1>0, <2>1, SameRoles DEF electionVars
  <2>2. ASSUME NEW m \in aeArgs, AppendEntries(m) PROVE RolesStep
    BY Zenon, <1>0, <2>2, AppendRoles
  <2>3. ASSUME NEW r \in aeReplies, LeaderReplyNewTerm(r) PROVE RolesStep
    BY Zenon, <1>0, <2>3, ReplyRoles
  <2>4. QED
    BY Zenon, <1>2, <2>1, <2>2, <2>3
       DEF Replicate, Start, SendAppendEntries, AppendSucceeded, AppendRefused
<1>3. CASE Compact
  <2>1. CASE UNCHANGED electionVars
    BY Zenon, <1>0, <2>1, SameRoles DEF electionVars
  <2>2. ASSUME NEW m \in isArgs, InstallSnapshot(m) PROVE RolesStep
    BY Zenon, <1>0, <2>2, InstallRoles
  <2>3. ASSUME NEW r \in isReplies, LeaderReplyNewTerm(r) PROVE RolesStep
    BY Zenon, <1>0, <2>3, ReplyRoles
  <2>4. QED
    BY Zenon, <1>3, <2>1, <2>2, <2>3
       DEF Compact, ApplierLoop, TakeSnapshot, Snapshot, SendInstallSnapshot, SnapshotInstalled
<1>4. CASE Crash
  BY Zenon, <1>4, CrashKeeps
<1>5. CASE Lose
  BY Zenon, <1>0, <1>5, SameRoles DEF Lose, electionVars
<1>6. QED
  BY Zenon, <1>1, <1>2, <1>3, <1>4, <1>5 DEF Next

=============================================================================
