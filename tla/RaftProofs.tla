----------------------------- MODULE RaftProofs -----------------------------
(***************************************************************************)
(* What holds of Raft for every set of peers and of commands: the          *)
(* theorems, from the inductive invariant CommitsHold.                     *)
(*                                                                         *)
(* RaftPeerProofs has the types, the disk and the elections,               *)
(* RaftStepProofs, RaftLeaderProofs and RaftFollowerProofs what each step  *)
(* does to the logs and to what is committed.  Every step keeps the        *)
(* invariants, then, and the theorems follow.                              *)
(***************************************************************************)
EXTENDS RaftPeerProofs, RaftLeaderProofs, RaftFollowerProofs,
        FiniteSetTheorems

-----------------------------------------------------------------------------
(* Every step *)

\* At the start there is term 0, whose log is empty.
LEMMA InitLogInv ==
  ASSUME Init, NEW H, H = [t \in Nat |-> <<>>]
  PROVE  LogInv(H, {0})
<1>1. H \in [Nat -> Seq(Entry)] /\ H[0] = <<>> /\ Len(<<>>) = 0 /\ 1..0 = {} /\ 0 <= 0 /\ 0 + 0 = 0
  OBVIOUS
<1>2. Histories(H, {0})
  BY <1>1 DEF Histories
<1>3. ASSUME NEW i \in Server PROVE PeerFollows(i, H, {0})
  <2>1. /\ lastIncludedIndex[i] = 0 /\ lastIncludedTerm[i] = 0 /\ log[i] = <<>>
        /\ currentTerm[i] = 0
    BY Zenon DEF Init
  <2>2. LastLogIndex(i) = 0 /\ LastLogTerm(i) = 0
    BY Zenon, <1>1, <2>1 DEF LastLogIndex, LastLogTerm, TermAt
  <2>3. Follows(i, H[0])
    <3>1. Carries(0, <<>>, <<>>)
      BY Zenon, <1>1 DEF Carries
    <3>2. TermOf(<<>>, 0) = 0
      BY Zenon DEF TermOf
    <3>3. Records(persister[i].snapshot, 0, <<>>)
      BY Zenon, <1>1 DEF Records
    <3>4. QED
      BY Zenon, <1>1, <2>1, <3>1, <3>2, <3>3 DEF Follows, Holds
  <2>4. QED
    BY Zenon, <1>1, <2>1, <2>2, <2>3 DEF PeerFollows
<1>4. \A i \in Server : role[i] = "Follower"
  BY Zenon DEF Init
<1>5. aeArgs = {} /\ isArgs = {} /\ aeReplies = {}
  BY Zenon DEF Init
<1>6. QED
  BY Zenon, <1>2, <1>3, <1>4, <1>5 DEF LogInv

\* Nothing but the network's buffers may change.
LEMMA StutterAdvances ==
  ASSUME NEW H, NEW T, NEW A, LogInv(H, T), CommitInv(H, T, A), UNCHANGED vars
  PROVE  Advances(H, T, A)
<1>1. LogStep(H, T, H, T)
  BY Zenon, LocalLog DEF vars
<1>2. /\ UNCHANGED <<electionVars, logVars, applyVars, leaderVars>> /\ rvReplies' = rvReplies /\ rvArgs' = rvArgs
      /\ aeArgs' = aeArgs /\ isArgs' = isArgs /\ isReplies' = isReplies /\ aeReplies' = aeReplies
  BY Zenon DEF vars, rvNet, aeNet, isNet
<1>3. AcksStep(H, T, A, H, T, A) /\ SameBut(H, T, A)
  BY Zenon, <1>2, MailOnly
<1>4. QED
  BY Zenon, <1>1, <1>2, <1>3, SameCalls, SameAnswers DEF CommitStep, SameBut, Advances

\* The inductive invariant.
CommitsHold == ElectionInv /\ \E H, T, A : LogInv(H, T) /\ CommitInv(H, T, A)

\* The invariant is inductive.
LEMMA NextCommits ==
  ASSUME CommitsHold, [Next]_vars
  PROVE  CommitsHold'
<1>1. PICK H, T, A : LogInv(H, T) /\ CommitInv(H, T, A)
  BY Zenon DEF CommitsHold
<1>2. ElectionInv /\ DiskInv /\ TypeOK /\ Majorities /\ VotesRemembered
  BY Zenon DEF CommitsHold, ElectionInv, DiskInv
<1>3. ElectionInv' /\ TypeOK'
  BY Zenon, <1>2, NextElection DEF ElectionInv, DiskInv
<1>4. votes \subseteq votes'
  BY Zenon, <1>2, NextElectoral DEF ElectionStep
<1>5. RolesStep
  BY Zenon, <1>2, NextRoles, SameRoles DEF vars, electionVars
<1>6. Ready(H, T, A)
  BY Zenon, <1>1, <1>2, <1>3, <1>4, <1>5 DEF Ready
<1>7. Advances(H, T, A)
  <2>1. CASE Elect
    BY Zenon, <1>6, <2>1, ElectAdvances
  <2>2. CASE Replicate
    BY Zenon, <1>6, <2>2, StartAdvances, SendAdvances, RefusedAdvances, AcceptAdvances, ReplyAdvances
       DEF Replicate, AppendEntries
  <2>3. CASE Compact
    BY Zenon, <1>6, <2>3, ApplyAdvances, SendAdvances, InstallAdvances, ReplyAdvances DEF Compact
  <2>4. CASE Crash \/ Lose
    BY Zenon, <1>6, <2>4, FaultAdvances
  <2>5. CASE UNCHANGED vars
    BY Zenon, <1>1, <2>5, StutterAdvances
  <2>6. QED
    BY Zenon, <2>1, <2>2, <2>3, <2>4, <2>5 DEF Next
<1>8. PICK H2, T2, A2 : LogStep(H, T, H2, T2) /\ CommitStep(H, T, A, H2, T2, A2)
  BY Zenon, <1>7 DEF Advances
<1>9. LogInv(H2, T2)'
  BY Zenon, <1>1, <1>2, <1>3, <1>4, <1>5, <1>8, LogPreserved
<1>10. CommitInv(H2, T2, A2)'
  BY Zenon, <1>1, <1>2, <1>3, <1>5, <1>8, <1>9, CommitPreserved
<1>11. QED
  BY Zenon, <1>3, <1>9, <1>10 DEF CommitsHold

\* At the start only term 0 has had a leader, its log is empty and nothing acknowledged.
LEMMA InitCommits ==
  ASSUME Majorities, Init
  PROVE  CommitsHold
<1>1. PICK H : H = [t \in Nat |-> <<>>]
  BY Zenon
<1>2. ElectionInv /\ LogInv(H, {0})
  BY Zenon, <1>1, InitElection, InitLogInv
<1>3. PICK A : A = [j \in Server |-> [t \in Nat |-> 0]]
  BY Zenon
<1>4. A \in Acks /\ \A j \in Server, t \in Nat : A[j][t] = 0
  BY SMTT(30), <1>3 DEF Acks
<1>5. AcksFit(H, {0}, A)
  BY <1>4 DEF AcksFit, Accounts
<1>6. Elected(H, {0}, A, currentTerm)
  BY DEF Elected
<1>7. /\ votes = {} /\ rvReplies = {} /\ rvArgs = {} /\ aeArgs = {} /\ isArgs = {} /\ aeReplies = {} /\ isReplies = {}
      /\ \A i \in Server : /\ role[i] = "Follower" /\ commitIndex[i] = 0 /\ lastApplied[i] = 0
                           /\ lastIncludedIndex[i] = 0 /\ log[i] = <<>>
  BY Zenon DEF Init
<1>8. ~\E j, c \in Server, t \in Nat : Granted(j, t, c)
  BY Zenon, <1>7 DEF Granted
<1>9. 0 <= 0 /\ 0 + Len(<<>>) = 0 /\ "Follower" # "Leader"
  OBVIOUS
<1>10. ASSUME NEW i \in Server PROVE CommitFits(i, H, {0}, A) /\ ApplyFits(i)
  <2>1. LastLogIndex(i) = 0
    BY Zenon, <1>7, <1>9 DEF LastLogIndex
  <2>2. QED
    BY Zenon, <1>7, <1>9, <2>1 DEF CommitFits, KnownCommitted, Committed, ApplyFits
<1>11. CommitInv(H, {0}, A)
  BY Zenon, <1>4, <1>5, <1>6, <1>7, <1>8, <1>9, <1>10 DEF CommitInv
<1>12. QED
  BY Zenon, <1>2, <1>11 DEF CommitsHold

-----------------------------------------------------------------------------
(* What the invariant says of the logs and of what is committed *)

\* Two logs that agree up to k have the same commands up to k, and so do those who
\* follow them.
LEMMA RecordsAgree ==
  ASSUME NEW c, NEW d, NEW m \in Nat, NEW n \in Nat, Len(c) = m, Len(d) = n, NEW s, NEW r,
         Records(c, m, s), Records(d, n, r), NEW k \in Nat, k <= m, k <= n, AgreeUpTo(s, r, k)
  PROVE  AgreeUpTo(c, d, k)
<1>1. \A x \in 1..k : x \in 1..m /\ x \in 1..n
  OBVIOUS
<1>2. \A x \in 1..k : c[x] = d[x]
  BY Zenon, <1>1 DEF Records, AgreeUpTo
<1>3. QED
  BY Zenon, <1>2 DEF AgreeUpTo

\* Who follows logs that agree up to an index has the same commands up to it.
LEMMA CommandsAgree ==
  ASSUME DiskInv, NEW i \in Server, NEW j \in Server, NEW s, NEW r, Follows(i, s), Follows(j, r),
         NEW k \in Nat, k <= LastLogIndex(i), k <= LastLogIndex(j), AgreeUpTo(s, r, k)
  PROVE  AgreeUpTo(Commands(i), Commands(j), k)
<1>1. LastLogIndex(i) \in Nat /\ LastLogIndex(j) \in Nat
  BY Zenon, HeldTyped DEF HeldTypes, DiskInv
<1>2. /\ Len(Commands(i)) = LastLogIndex(i) /\ Records(Commands(i), LastLogIndex(i), s)
      /\ Len(Commands(j)) = LastLogIndex(j) /\ Records(Commands(j), LastLogIndex(j), r)
  BY Zenon, CommandsRecord
<1>3. QED
  BY Zenon, <1>1, <1>2, RecordsAgree

\* Entries of the same term at an index descend from the same leader's log.
LEMMA LogInvMatches ==
  ASSUME CommitsHold
  PROVE  LogMatching
<1>1. PICK H, T : LogInv(H, T)
  BY Zenon DEF CommitsHold
<1>2. DiskInv /\ TypeOK /\ Histories(H, T)
  BY Zenon, <1>1 DEF CommitsHold, ElectionInv, DiskInv, LogInv
<1> SUFFICES ASSUME NEW i \in Server, NEW j \in Server,
                    NEW k \in lastIncludedIndex[i]..LastLogIndex(i),
                    k \in lastIncludedIndex[j]..LastLogIndex(j), TermAt(i, k) = TermAt(j, k)
             PROVE  AgreeUpTo(Commands(i), Commands(j), k)
  BY Zenon DEF LogMatching
<1> DEFINE u == LastLogTerm(i)
           v == LastLogTerm(j)
<1>3. HeldTypes(i) /\ HeldTypes(j)
  BY Zenon, <1>2, HeldTyped
<1>4. k \in Nat /\ k <= LastLogIndex(i) /\ k <= LastLogIndex(j) /\ InLog(i, k) /\ InLog(j, k)
  BY <1>3 DEF HeldTypes, InLog
<1>5. u \in T /\ Follows(i, H[u]) /\ v \in T /\ Follows(j, H[v])
  BY Zenon, <1>1 DEF LogInv, PeerFollows
<1> HIDE DEF u, v
<1>6. TermAt(i, k) = TermOf(H[u], k) /\ TermAt(j, k) = TermOf(H[v], k)
  BY <1>3, <1>4, <1>5, FollowsTerm
<1>7. LastLogIndex(i) <= Len(H[u]) /\ LastLogIndex(j) <= Len(H[v])
  BY Zenon, <1>5, FollowsReach
<1>8. Len(H[u]) \in Nat /\ Len(H[v]) \in Nat /\ LastLogIndex(i) \in Nat /\ LastLogIndex(j) \in Nat
  BY Zenon, <1>2, <1>3, <1>5, HistoryType DEF HeldTypes
<1>9. k <= Len(H[u]) /\ k <= Len(H[v])
  BY <1>4, <1>7, <1>8
<1>10. AgreeUpTo(H[u], H[v], k)
  BY Zenon, <1>2, <1>4, <1>5, <1>6, <1>9, HistoriesMatch
<1>11. QED
  BY Zenon, <1>2, <1>4, <1>5, <1>10, CommandsAgree

\* The terms of a peer's log are those of a leader's log, which ascend.
LEMMA LogInvAscends ==
  ASSUME CommitsHold
  PROVE  TermsAscend
<1>1. PICK H, T : LogInv(H, T)
  BY Zenon DEF CommitsHold
<1>2. TypeOK /\ Histories(H, T)
  BY Zenon, <1>1 DEF CommitsHold, ElectionInv, DiskInv, LogInv
<1> SUFFICES ASSUME NEW i \in Server
             PROVE  /\ LastLogTerm(i) <= currentTerm[i]
                    /\ \A k \in lastIncludedIndex[i]+1..LastLogIndex(i) :
                         TermAt(i, k - 1) <= TermAt(i, k)
  BY Zenon DEF TermsAscend
<1>3. PeerFollows(i, H, T) /\ HeldTypes(i)
  BY Zenon, <1>1, <1>2, HeldTyped DEF LogInv
<1>4. LastLogTerm(i) <= currentTerm[i]
  BY Zenon, <1>3 DEF PeerFollows
<1>5. ASSUME NEW k \in lastIncludedIndex[i]+1..LastLogIndex(i)
      PROVE  TermAt(i, k - 1) <= TermAt(i, k)
  <2> DEFINE u == LastLogTerm(i)
  <2>1. u \in T /\ Follows(i, H[u])
    BY Zenon, <1>3 DEF PeerFollows
  <2> HIDE DEF u
  <2>2. LastLogIndex(i) <= Len(H[u]) /\ Len(H[u]) \in Nat
    BY Zenon, <1>2, <2>1, FollowsReach, HistoryType
  <2>3. /\ InLog(i, k) /\ InLog(i, k - 1) /\ k \in 0..Len(H[u]) /\ k - 1 \in 0..k
    BY <1>3, <2>2 DEF HeldTypes, InLog
  <2>4. TermAt(i, k) = TermOf(H[u], k) /\ TermAt(i, k - 1) = TermOf(H[u], k - 1)
    BY <1>3, <2>1, <2>3, FollowsTerm
  <2>5. TermOf(H[u], k - 1) <= TermOf(H[u], k)
    BY Zenon, <1>2, <2>1, <2>3, HistoryAscends
  <2>6. QED
    BY Zenon, <2>4, <2>5
<1>6. QED
  BY Zenon, <1>4, <1>5

\* A refusal names a conflict, so that the leader's next call differs from the refused.
LEMMA LogInvBacksUp ==
  ASSUME CommitsHold
  PROVE  BackupProgress
<1>1. PICK H, T : LogInv(H, T)
  BY Zenon DEF CommitsHold
<1>2. TypeOK
  BY Zenon DEF CommitsHold, ElectionInv, DiskInv
<1>0. SUFFICES ASSUME NEW r \in aeReplies, role[r.to] = "Leader", currentTerm[r.to] = r.reqTerm,
                    r.term = r.reqTerm, ~r.success, r.prevLogIndex + 1 \in BackupIndex(r.to, r)
             PROVE  FALSE
  BY Zenon DEF BackupProgress
<1> DEFINE i == r.to
           s == H[currentTerm[i]]
<1>3. i \in Server /\ r.prevLogIndex \in Nat
  BY Zenon, <1>2 DEF TypeOK, AppendEntriesReply
<1>4. HeldTypes(i) /\ Follows(i, s)
  BY Zenon, <1>0, <1>1, <1>2, <1>3, HeldTyped DEF LogInv, LeaderFollows
<1>5. r.conflictIndex # r.prevLogIndex + 1 /\ r.conflictTerm # TermOf(s, r.prevLogIndex)
  BY Zenon, <1>0, <1>1 DEF LogInv, Refuses
<1>6. PICK k \in DOMAIN log[i] :
        log[i][k].term = r.conflictTerm /\ lastIncludedIndex[i] + k + 1 = r.prevLogIndex + 1
  BY Zenon, <1>0, <1>5 DEF BackupIndex
<1>7. lastIncludedIndex[i] \in Nat /\ k \in 1..Len(log[i]) /\ Len(log[i]) \in Nat
  BY <1>4 DEF HeldTypes
<1>8. lastIncludedIndex[i] + k = r.prevLogIndex /\ r.prevLogIndex # 0
  <2>1. lastIncludedIndex[i] + k + 1 = r.prevLogIndex + 1
    BY Zenon, <1>6
  <2>2. PICK a \in Nat, p \in Nat : a = lastIncludedIndex[i] /\ p = r.prevLogIndex
    BY Zenon, <1>3, <1>7
  <2>3. PICK x \in 1..Len(log[i]) : x = k
    BY Zenon, <1>7
  <2>4. a + x + 1 = p + 1 /\ x \in Nat /\ x # 0
    BY <1>7, <2>1, <2>2, <2>3
  <2>5. a + x = p /\ p # 0
    BY <2>4
  <2>6. QED
    BY Zenon, <2>2, <2>3, <2>5
<1>9. log[i][k] = s[lastIncludedIndex[i] + k]
  BY Zenon, <1>4, <1>7 DEF Follows, Holds, Carries
<1>10. QED
  BY Zenon, <1>5, <1>6, <1>8, <1>9 DEF TermOf

\* A peer that holds what a leader does up to k, for the leader.
LEMMA LeaderAgrees ==
  ASSUME NEW H, NEW T, LogInv(H, T), DiskInv, NEW i \in Server, role[i] = "Leader", NEW j \in Server,
         NEW k \in Nat, Reaches(j, H, currentTerm[i], k)
  PROVE  AgreeUpTo(Commands(i), Commands(j), k)
<1>1. Follows(i, H[currentTerm[i]]) /\ LastLogIndex(i) = Len(H[currentTerm[i]])
  BY Zenon DEF LogInv, LeaderFollows
<1>2. k <= LastLogIndex(j) /\ AgreeUpTo(H[LastLogTerm(j)], H[currentTerm[i]], k)
  BY Zenon DEF Reaches
<1>3. k <= LastLogIndex(i) /\ AgreeUpTo(H[currentTerm[i]], H[LastLogTerm(j)], k)
  BY Zenon, <1>1, <1>2 DEF AgreeUpTo
<1>4. Follows(j, H[LastLogTerm(j)])
  BY Zenon DEF LogInv, PeerFollows
<1>5. QED
  BY Zenon, <1>1, <1>2, <1>3, <1>4, CommandsAgree

\* A leader has what others know to be committed.
LEMMA CommitsComplete ==
  ASSUME CommitsHold
  PROVE  LeaderCompleteness
<1>1. PICK H, T, A : LogInv(H, T) /\ CommitInv(H, T, A)
  BY Zenon DEF CommitsHold
<1>2. DiskInv /\ TypeOK /\ Majorities
  BY Zenon DEF CommitsHold, ElectionInv, DiskInv
<1> SUFFICES ASSUME NEW i \in Server, NEW j \in Server, role[i] = "Leader", currentTerm[j] <= currentTerm[i]
             PROVE  AgreeUpTo(Commands(i), Commands(j), commitIndex[j])
  BY Zenon DEF LeaderCompleteness
<1>3. currentTerm[i] \in T
  BY Zenon, <1>1 DEF LogInv, LeaderFollows
<1>4. commitIndex[j] \in Nat
  BY Zenon, <1>2 DEF TypeOK
<1>5. commitIndex[j] <= commitIndex[j]
  BY ONLY <1>4
<1>6. Reaches(j, H, currentTerm[i], commitIndex[j])
  BY Zenon, <1>1, <1>2, <1>3, <1>4, <1>5, CommittedInLater
<1>7. QED
  BY Zenon, <1>1, <1>2, <1>4, <1>6, LeaderAgrees

\* What is committed of two logs is the same.
LEMMA CommittedsAgree ==
  ASSUME NEW H, NEW T, Histories(H, T), NEW A, Stands(H, T, A),
         NEW n \in Nat, NEW b \in Nat, NEW s, Len(s) \in Nat, Committed(n, b, s, H, T, A),
         NEW m \in Nat, NEW c \in Nat, NEW r, Len(r) \in Nat, Committed(m, c, r, H, T, A), m <= n
  PROVE  AgreeUpTo(r, s, m)
<1>1. CASE m = 0
  BY <1>1 DEF AgreeUpTo
<1>2. CASE m # 0
  <2>0. n # 0
    BY <1>2
  <2>1. PICK t \in T, k \in Nat : n <= k /\ Chosen(H, A, t, k) /\ AgreeUpTo(s, H[t], n)
    BY Zenon, <2>0 DEF Committed
  <2>2. PICK u \in T, x \in Nat : m <= x /\ Chosen(H, A, u, x) /\ AgreeUpTo(r, H[u], m)
    BY Zenon, <1>2 DEF Committed
  <2>3. t \in Nat /\ Len(H[t]) \in Nat /\ u \in Nat /\ Len(H[u]) \in Nat
    BY Zenon, HistoryType
  <2>4. AgreeUpTo(H[u], H[t], m)
    <3>1. CASE t <= u
      <4>1. AgreeUpTo(H[u], H[t], k) /\ m <= k
        BY <2>1, <3>1 DEF Stands
      <4>2. QED
        BY Zenon, <2>3, <4>1, AgreeShorter
    <3>2. CASE u <= t
      <4>1. AgreeUpTo(H[t], H[u], x)
        BY Zenon, <2>2, <3>2 DEF Stands
      <4>2. QED
        BY Zenon, <2>2, <2>3, <4>1, AgreeShorter
    <3>3. QED
      BY <2>3, <3>1, <3>2
  <2>5. AgreeUpTo(H[t], s, m)
    BY Zenon, <2>1, <2>3, AgreeShorter
  <2>6. AgreeUpTo(r, H[t], m)
    BY Zenon, <2>2, <2>4, AgreeTransitive
  <2>7. QED
    BY Zenon, <2>5, <2>6, AgreeTransitive
<1>3. QED
  BY Zenon, <1>1, <1>2

\* Peers whose leaders' logs agree up to an index that both hold have the same commands.
LEMMA PeersAgree ==
  ASSUME NEW H, NEW T, LogInv(H, T), DiskInv, NEW i \in Server, NEW j \in Server, NEW k \in Nat,
         k <= LastLogIndex(i), k <= LastLogIndex(j), AgreeUpTo(H[LastLogTerm(i)], H[LastLogTerm(j)], k)
  PROVE  AgreeUpTo(Commands(i), Commands(j), k)
<1>1. Follows(i, H[LastLogTerm(i)]) /\ Follows(j, H[LastLogTerm(j)])
  BY Zenon DEF LogInv, PeerFollows
<1>2. QED
  BY Zenon, <1>1, CommandsAgree

\* What two peers know to be committed is the same.
LEMMA CommitsAgree ==
  ASSUME CommitsHold
  PROVE  StateMachineSafety
<1>1. PICK H, T, A : LogInv(H, T) /\ CommitInv(H, T, A)
  BY Zenon DEF CommitsHold
<1>2. DiskInv /\ TypeOK /\ Majorities /\ Histories(H, T) /\ A \in Acks /\ Elected(H, T, A, currentTerm)
  BY Zenon, <1>1 DEF CommitsHold, ElectionInv, DiskInv, LogInv, CommitInv
<1>3. Stands(H, T, A)
  BY Zenon, <1>2, ElectedStands
<1> SUFFICES ASSUME NEW i \in Server, NEW j \in Server, commitIndex[i] <= commitIndex[j]
             PROVE  AgreeUpTo(Commands(i), Commands(j), commitIndex[i])
  BY Zenon DEF StateMachineSafety
<1>4. LastTypes(i, H, T) /\ LastTypes(j, H, T)
  BY Zenon, <1>1, <1>2, LastTyped
<1>5. commitIndex[i] \in Nat /\ commitIndex[j] \in Nat
  BY Zenon, <1>2 DEF TypeOK
<1>6. commitIndex[i] <= LastLogIndex(i) /\ Committed(commitIndex[i], currentTerm[i], H[LastLogTerm(i)], H, T, A)
  BY Zenon, <1>1 DEF CommitInv, CommitFits, KnownCommitted
<1>7. commitIndex[j] <= LastLogIndex(j) /\ Committed(commitIndex[j], currentTerm[j], H[LastLogTerm(j)], H, T, A)
  BY Zenon, <1>1 DEF CommitInv, CommitFits, KnownCommitted
<1>8. Len(H[LastLogTerm(i)]) \in Nat /\ currentTerm[i] \in Nat
  BY Zenon, <1>4 DEF LastTypes
<1>9. Len(H[LastLogTerm(j)]) \in Nat /\ currentTerm[j] \in Nat /\ LastLogIndex(j) \in Nat
  BY Zenon, <1>4 DEF LastTypes
<1>10. AgreeUpTo(H[LastLogTerm(i)], H[LastLogTerm(j)], commitIndex[i])
  BY Zenon, <1>2, <1>3, <1>5, <1>6, <1>7, <1>8, <1>9, CommittedsAgree
<1>11. commitIndex[i] <= LastLogIndex(j)
  BY Zenon, <1>5, <1>7, <1>9, AtMost
<1>12. QED
  BY Zenon, <1>1, <1>2, <1>5, <1>6, <1>10, <1>11, PeersAgree

\* Whoever acknowledged what was chosen holds it.
LEMMA AcknowledgedIsHeld ==
  ASSUME NEW H, NEW T, NEW A, CommitInv(H, T, A), Histories(H, T), Stands(H, T, A), NEW t \in T, NEW k \in Nat,
         Chosen(H, A, t, k), NEW j \in Server, k <= A[j][t]
  PROVE  Reaches(j, H, t, k)
<1>1. t \in Nat /\ Len(H[t]) \in Nat
  BY Zenon, HistoryType
<1>2. 0 < k
  BY Zenon, <1>1, OwnReach DEF Chosen
<1>3. \/ k <= LastLogIndex(j) /\ AgreeUpTo(H[LastLogTerm(j)], H[t], k)
      \/ Superseded(H, T, t, k, currentTerm[j])
  BY Zenon, <1>1, <1>2 DEF CommitInv, AcksFit, Accounts
<1>4. ~Superseded(H, T, t, k, currentTerm[j])
  <2>1. ASSUME NEW u \in T, t < u PROVE AgreeUpTo(H[u], H[t], k)
    <3>1. u \in Nat
      BY Zenon, HistoryType
    <3>2. t <= u
      BY ONLY <1>1, <2>1, <3>1
    <3>3. QED
      BY Zenon, <3>2 DEF Stands
  <2>2. QED
    BY Zenon, <2>1 DEF Superseded
<1>5. QED
  BY Zenon, <1>3, <1>4 DEF Reaches

\* Who acknowledged what was chosen still holds it, on disk.
LEMMA CommitsDurable ==
  ASSUME CommitsHold
  PROVE  CommittedIsDurable
<1>1. PICK H, T, A : LogInv(H, T) /\ CommitInv(H, T, A)
  BY Zenon DEF CommitsHold
<1>2. DiskInv /\ TypeOK /\ Majorities /\ Histories(H, T) /\ A \in Acks /\ Elected(H, T, A, currentTerm)
  BY Zenon, <1>1 DEF CommitsHold, ElectionInv, DiskInv, LogInv, CommitInv
<1>3. Stands(H, T, A)
  BY Zenon, <1>2, ElectedStands
<1>4. ASSUME NEW j \in Server PROVE PersistedCommands(j) = Commands(j)
  BY Zenon, <1>2 DEF DiskInv, DiskIsCurrent, PersistedCommands, Commands
<1> SUFFICES ASSUME NEW i \in Server
             PROVE  IsMajority({j \in Server : AgreeUpTo(PersistedCommands(j), Commands(i), commitIndex[i])})
  BY Zenon DEF CommittedIsDurable
<1>5. PICK c \in Nat : c = commitIndex[i]
  BY Zenon, <1>2 DEF TypeOK
<1>6. LastTypes(i, H, T)
  BY Zenon, <1>1, <1>2, LastTyped
<1>7. PICK w \in T : w = LastLogTerm(i)
  BY Zenon, <1>6 DEF LastTypes
<1>8. Len(H[w]) \in Nat /\ LastLogIndex(i) \in Nat
  BY Zenon, <1>6, <1>7 DEF LastTypes
<1>9. c <= LastLogIndex(i) /\ Committed(c, currentTerm[i], H[w], H, T, A)
  BY Zenon, <1>1, <1>5, <1>7 DEF CommitInv, CommitFits, KnownCommitted
<1>10. ASSUME NEW j \in Server, c <= LastLogIndex(j), AgreeUpTo(H[LastLogTerm(j)], H[w], c)
       PROVE  AgreeUpTo(PersistedCommands(j), Commands(i), c)
  <2>1. AgreeUpTo(Commands(j), Commands(i), c)
    BY Zenon, <1>1, <1>2, <1>7, <1>9, <1>10, PeersAgree
  <2>2. QED
    BY Zenon, <1>4, <2>1
<1>11. PICK D : D = {j \in Server : AgreeUpTo(PersistedCommands(j), Commands(i), c)}
  BY Zenon
<1>12. D \subseteq Server
  BY Zenon, <1>11
<1>13. CASE c = 0
  <2>1. ASSUME NEW j \in Server PROVE j \in D
    <3>1. LastTypes(j, H, T)
      BY Zenon, <1>1, <1>2, LastTyped
    <3>2. LastLogIndex(j) \in Nat /\ Len(H[LastLogTerm(j)]) \in Nat
      BY Zenon, <3>1 DEF LastTypes
    <3>3. c <= LastLogIndex(j) /\ c <= Len(H[LastLogTerm(j)]) /\ c <= Len(H[w]) /\ 1..c = {}
      BY ONLY <1>8, <1>13, <3>2
    <3>4. AgreeUpTo(H[LastLogTerm(j)], H[w], c)
      BY Zenon, <3>3 DEF AgreeUpTo
    <3>5. QED
      BY Zenon, <1>10, <1>11, <3>3, <3>4
  <2>2. D = Server
    BY Zenon, <1>12, <2>1
  <2>3. QED
    BY Zenon, <1>2, <1>5, <1>11, <2>2 DEF Majorities
<1>14. CASE c # 0
  <2>1. PICK t \in T, k \in Nat : c <= k /\ Chosen(H, A, t, k) /\ AgreeUpTo(H[w], H[t], c)
    BY Zenon, <1>9, <1>14 DEF Committed
  <2>2. PICK Q \in SUBSET Server : IsMajority(Q) /\ \A j \in Q : k <= A[j][t]
    BY Zenon, <2>1 DEF Chosen
  <2>3. Len(H[t]) \in Nat
    BY Zenon, <1>2, HistoryType
  <2>4. ASSUME NEW j \in Q PROVE j \in D
    <3>1. j \in Server /\ Reaches(j, H, t, k)
      BY Zenon, <1>1, <1>2, <1>3, <2>1, <2>2, AcknowledgedIsHeld
    <3>2. k <= LastLogIndex(j) /\ AgreeUpTo(H[LastLogTerm(j)], H[t], k)
      BY Zenon, <3>1 DEF Reaches
    <3>3. LastTypes(j, H, T)
      BY Zenon, <1>1, <1>2, <3>1, LastTyped
    <3>4. LastLogIndex(j) \in Nat /\ Len(H[LastLogTerm(j)]) \in Nat
      BY Zenon, <3>3 DEF LastTypes
    <3>5. c <= LastLogIndex(j)
      BY Zenon, <2>1, <3>2, <3>4, AtMost
    <3>6. AgreeUpTo(H[LastLogTerm(j)], H[t], c)
      BY Zenon, <2>1, <2>3, <3>2, <3>4, AgreeShorter
    <3>7. AgreeUpTo(H[LastLogTerm(j)], H[w], c)
      BY Zenon, <2>1, <3>6 DEF AgreeUpTo
    <3>8. QED
      BY Zenon, <1>10, <1>11, <3>1, <3>5, <3>7
  <2>5. Q \subseteq D
    BY Zenon, <2>4
  <2>6. QED
    BY Zenon, <1>2, <1>5, <1>11, <1>12, <2>2, <2>5, MajorityMonotone
<1>15. QED
  BY Zenon, <1>13, <1>14

\* What a leader believes of a peer in its term, that peer acknowledged and holds.
LEMMA MatchesHold ==
  ASSUME CommitsHold
  PROVE  MatchIndexIsSound
<1>1. PICK H, T, A : LogInv(H, T) /\ CommitInv(H, T, A)
  BY Zenon DEF CommitsHold
<1>2. DiskInv /\ TypeOK /\ Histories(H, T)
  BY Zenon, <1>1 DEF CommitsHold, ElectionInv, DiskInv, LogInv
<1> SUFFICES ASSUME NEW i \in Server, NEW j \in Server, role[i] = "Leader", currentTerm[j] = currentTerm[i], i # j
             PROVE  AgreeUpTo(Commands(i), Commands(j), matchIndex[i][j])
  BY Zenon DEF MatchIndexIsSound
<1>3. PICK t \in T : t = currentTerm[i]
  BY Zenon, <1>1 DEF LogInv, LeaderFollows
<1>4. PICK n \in Nat : n = matchIndex[i][j]
  <2>1. matchIndex \in [Server -> [Server -> Nat]]
    BY Zenon, <1>2 DEF TypeOK
  <2>2. QED
    BY Zenon, <2>1
<1>5. n <= A[j][t]
  BY Zenon, <1>1, <1>3, <1>4 DEF CommitInv, LeaderFits
<1>6. t \in Nat /\ Len(H[t]) \in Nat
  BY Zenon, <1>2, HistoryType
<1>7. LastTypes(j, H, T)
  BY Zenon, <1>1, <1>2, LastTyped
<1>8. LastLogIndex(j) \in Nat /\ Len(H[LastLogTerm(j)]) \in Nat
  BY Zenon, <1>7 DEF LastTypes
<1>9. Reaches(j, H, t, n)
  <2>1. CASE n = 0
    <3>1. n <= LastLogIndex(j) /\ n <= Len(H[LastLogTerm(j)]) /\ n <= Len(H[t]) /\ 1..n = {}
      BY ONLY <1>6, <1>8, <2>1
    <3>2. QED
      BY Zenon, <3>1 DEF Reaches, AgreeUpTo
  <2>2. CASE n # 0
    <3>1. 0 < n
      BY ONLY n \in Nat, <2>2
    <3>2. \/ n <= LastLogIndex(j) /\ AgreeUpTo(H[LastLogTerm(j)], H[t], n)
          \/ Superseded(H, T, t, n, t)
      BY Zenon, <1>1, <1>3, <1>5, <1>6, <3>1 DEF CommitInv, AcksFit, Accounts
    <3>3. ~Superseded(H, T, t, n, t)
      <4>1. ASSUME NEW u \in T PROVE ~(t < u /\ u <= t)
        <5>1. u \in Nat
          BY Zenon, <1>2, HistoryType
        <5>2. QED
          BY ONLY <1>6, <5>1
      <4>2. QED
        BY Zenon, <4>1 DEF Superseded
    <3>4. QED
      BY Zenon, <3>2, <3>3 DEF Reaches
  <2>3. QED
    BY Zenon, <2>1, <2>2
<1>10. QED
  BY Zenon, <1>1, <1>2, <1>3, <1>4, <1>9, LeaderAgrees

\* The indexes are in order, and the leaders' within their logs.
LEMMA IndexesFit ==
  ASSUME CommitsHold
  PROVE  IndexesInRange
<1>1. PICK H, T, A : LogInv(H, T) /\ CommitInv(H, T, A)
  BY Zenon DEF CommitsHold
<1>2. DiskInv /\ TypeOK /\ Histories(H, T)
  BY Zenon, <1>1 DEF CommitsHold, ElectionInv, DiskInv, LogInv
<1>3. ASSUME NEW i \in Server
      PROVE  /\ lastIncludedIndex[i] <= lastApplied[i] /\ lastApplied[i] <= commitIndex[i]
             /\ commitIndex[i] <= LastLogIndex(i) /\ Len(persister[i].snapshot) = lastIncludedIndex[i]
  BY Zenon, <1>1, <1>2 DEF CommitInv, ApplyFits, CommitFits, KnownCommitted, DiskInv, SnapshotsCover
<1>4. ASSUME NEW i \in Server, role[i] = "Leader", NEW j \in Server \ {i}
      PROVE  nextIndex[i][j] \in 1..LastLogIndex(i) + 1 /\ matchIndex[i][j] <= LastLogIndex(i)
  <2>1. PICK t \in T : t = currentTerm[i]
    BY Zenon, <1>1, <1>4 DEF LogInv, LeaderFollows
  <2>2. LastLogIndex(i) = Len(H[t])
    BY Zenon, <1>1, <1>4, <2>1 DEF LogInv, LeaderFollows
  <2>3. matchIndex[i][j] <= A[j][t] /\ nextIndex[i][j] \in 1..Len(H[t]) + 1
    BY Zenon, <1>1, <1>4, <2>1 DEF CommitInv, LeaderFits
  <2>4. A[j][t] \in Nat /\ A[j][t] <= Len(H[t])
    BY Zenon, <1>1, <1>2, AckedReach
  <2>5. matchIndex \in [Server -> [Server -> Nat]] /\ j \in Server
    BY Zenon, <1>2 DEF TypeOK
  <2>6. matchIndex[i][j] \in Nat /\ Len(H[t]) \in Nat
    BY Zenon, <1>2, <2>5, HistoryType
  <2>7. matchIndex[i][j] <= Len(H[t])
    BY Zenon, <2>3, <2>4, <2>6, AtMost
  <2>8. QED
    BY Zenon, <2>2, <2>3, <2>7
<1>5. QED
  BY Zenon, <1>3, <1>4 DEF IndexesInRange

-----------------------------------------------------------------------------
(* Majorities *)

\* All the peers are a majority, what contains one is one, and two of them share a peer.
LEMMA MajoritiesHold == Majorities
<1>0. Cardinality(Server) \in Nat /\ Cardinality(Server) # 0
  BY ServerAssumption, FS_CardinalityType, FS_EmptySet
<1>1. IsMajority(Server)
  BY <1>0 DEF IsMajority
<1>2. ASSUME NEW S \in SUBSET Server, NEW T \in SUBSET Server, S \subseteq T, IsMajority(S)
      PROVE  IsMajority(T)
  <2>1. IsFiniteSet(T)
    BY ServerAssumption, FS_Subset
  <2>2. IsFiniteSet(S) /\ Cardinality(S) <= Cardinality(T)
    BY <1>2, <2>1, FS_Subset
  <2>3. Cardinality(S) \in Nat /\ Cardinality(T) \in Nat
    BY <2>1, <2>2, FS_CardinalityType
  <2>4. QED
    BY <1>0, <1>2, <2>2, <2>3 DEF IsMajority
<1>3. ASSUME NEW S \in SUBSET Server, NEW T \in SUBSET Server, IsMajority(S), IsMajority(T)
      PROVE  \E v \in Server : v \in S /\ v \in T
  <2>1. IsFiniteSet(S) /\ IsFiniteSet(T)
    BY ServerAssumption, FS_Subset
  <2>2. /\ IsFiniteSet(S \cup T) /\ IsFiniteSet(S \cap T)
        /\ Cardinality(S \cup T) = Cardinality(S) + Cardinality(T) - Cardinality(S \cap T)
    BY <2>1, FS_Union, FS_Intersection
  <2>3. Cardinality(S \cup T) <= Cardinality(Server)
    BY ServerAssumption, FS_Subset
  <2>4. Cardinality(S) \in Nat /\ Cardinality(T) \in Nat /\ Cardinality(S \cap T) \in Nat
    BY <2>1, <2>2, FS_CardinalityType
  <2>5. Cardinality(S \cap T) # 0
    BY <1>0, <1>3, <2>2, <2>3, <2>4 DEF IsMajority
  <2>6. S \cap T # {}
    BY <2>5, FS_EmptySet
  <2>7. QED
    BY <2>6
<1>4. QED
  BY Zenon, <1>1, <1>2, <1>3 DEF Majorities

-----------------------------------------------------------------------------
(* Elections *)

\* No two peers ever lead the same term, and only that term's leader calls
\* AppendEntries and InstallSnapshot in it, whatever the network and crashes do.
THEOREM ElectionSafe == Spec => []ElectionSafety
<1>1. Init => ElectionInv
  BY Zenon, MajoritiesHold, InitElection
<1>2. ElectionInv /\ [Next]_vars => ElectionInv'
  BY Zenon, NextElection
<1>3. ElectionInv => ElectionSafety
  BY Zenon, ElectionInvSafe
<1>4. QED
  BY <1>1, <1>2, <1>3, PTL DEF Spec

\* A peer's term never goes back and its vote never changes within a term, whatever
\* handler runs and wherever the peer is shut down and restarted.
THEOREM VoteOnce == Spec => VoteOncePerTerm
<1>1. Init => DiskInv
  BY Zenon, InitDisk
<1>2. DiskInv /\ [Next]_vars => DiskInv'
  BY Zenon, NextDisk
<1>3. DiskInv /\ [Next]_vars =>
        [\A i \in Server :
           /\ currentTerm'[i] >= currentTerm[i]
           /\ currentTerm'[i] = currentTerm[i] /\ votedFor[i] # Nil =>
                votedFor'[i] = votedFor[i]]_vars
  BY Zenon, NextElectoral DEF ElectionStep, KeepsVote
<1>4. QED
  BY <1>1, <1>2, <1>3, PTL DEF Spec, VoteOncePerTerm

-----------------------------------------------------------------------------
(* Logs and what is committed *)

\* There are leaders' logs and acknowledgements that every peer's log, snapshot and
\* indexes and every message under way fit, whatever the handlers, the network and
\* crashes do.
LEMMA CommitsAlwaysHold == Spec => []CommitsHold
<1>1. Init => CommitsHold
  BY Zenon, MajoritiesHold, InitCommits
<1>2. CommitsHold /\ [Next]_vars => CommitsHold'
  BY Zenon, NextCommits
<1>3. QED
  BY <1>1, <1>2, PTL DEF Spec

\* Logs with an entry of the same term at an index hold the same commands up to it,
\* snapshots included, whatever AppendEntries merged, InstallSnapshot replaced,
\* Snapshot cut and a crash interrupted.
THEOREM LogsMatch == Spec => []LogMatching
<1>1. CommitsHold => LogMatching
  BY Zenon, LogInvMatches
<1>2. QED
  BY <1>1, CommitsAlwaysHold, PTL

\* The terms of a log ascend from the snapshot's to at most the peer's own, which is
\* what updateCommitIndex and the fast backup's search rely on.
THEOREM TermsAreOrdered == Spec => []TermsAscend
<1>1. CommitsHold => TermsAscend
  BY Zenon, LogInvAscends
<1>2. QED
  BY <1>1, CommitsAlwaysHold, PTL

\* The leader's answer to a refusal, however late, is never the refused call again.
THEOREM BackupsProgress == Spec => []BackupProgress
<1>1. CommitsHold => BackupProgress
  BY Zenon, LogInvBacksUp
<1>2. QED
  BY <1>1, CommitsAlwaysHold, PTL

\* A leader holds every command that any peer of its term or an earlier one knows to be
\* committed: the votes that RequestVote grants only to up-to-date logs see to it.
THEOREM LeadersComplete == Spec => []LeaderCompleteness
<1>1. CommitsHold => LeaderCompleteness
  BY Zenon, CommitsComplete
<1>2. QED
  BY <1>1, CommitsAlwaysHold, PTL

\* No two peers disagree on a command that both know to be committed, and so none that
\* the applier delivers: the promise of Raft to the service above it.
THEOREM StateMachinesSafe == Spec => []StateMachineSafety
<1>1. CommitsHold => StateMachineSafety
  BY Zenon, CommitsAgree
<1>2. QED
  BY <1>1, CommitsAlwaysHold, PTL

\* What a peer counts as committed is on the disks of a majority, so no crash of any
\* number of peers between two critical sections loses it.
THEOREM CommitsAreDurable == Spec => []CommittedIsDurable
<1>1. CommitsHold => CommittedIsDurable
  BY Zenon, CommitsDurable
<1>2. QED
  BY <1>1, CommitsAlwaysHold, PTL

\* A leader's matchIndex of a peer that is still in its term is an index up to which
\* that peer really holds the leader's log, however late the replies came.
THEOREM MatchesAreSound == Spec => []MatchIndexIsSound
<1>1. CommitsHold => MatchIndexIsSound
  BY Zenon, MatchesHold
<1>2. QED
  BY <1>1, CommitsAlwaysHold, PTL

\* Every index is in range: snapshot <= applied <= committed <= end of the log, and a
\* leader's nextIndex and matchIndex lie within its log, so that no handler slices out
\* of bounds.
THEOREM IndexesStayInRange == Spec => []IndexesInRange
<1>1. CommitsHold => IndexesInRange
  BY Zenon, IndexesFit
<1>2. QED
  BY <1>1, CommitsAlwaysHold, PTL

=============================================================================
