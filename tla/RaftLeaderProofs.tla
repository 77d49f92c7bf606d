-------------------------- MODULE RaftLeaderProofs --------------------------
(***************************************************************************)
(* The steps of candidates and leaders: elections, the calls of the leader *)
(* and the replies to them do what LogPreserved and CommitPreserved ask of *)
(* a step.                                                                 *)
(***************************************************************************)
EXTENDS RaftStepProofs

-----------------------------------------------------------------------------
(* Elections *)

\* Besides T there is now a new term t, whose log begins with the first n entries of that of u.
Begins(H, T, H2, t, u, n) ==
  /\ Histories(H2, T \cup {t}) /\ Extends(H, H2, T)
  /\ Len(H2[t]) = n /\ AgreeUpTo(H2[t], H[u], n) /\ \A w \in T : H2[w] = H[w]

\* The winner's log becomes the log of its term.
Wins(i, t, H, T, H2) ==
  /\ LogStep(H, T, H2, T \cup {t})
  /\ t \in Nat \ T /\ LastLogTerm(i) < t /\ Len(H2[t]) = LastLogIndex(i)
  /\ AgreeUpTo(H2[t], H[LastLogTerm(i)], LastLogIndex(i))
  /\ \A w \in T : H2[w] = H[w]

\* The winner of an election acknowledges its log to itself.
WinnerAcks(i, t, H, T, A, H2, A2) ==
  /\ AckRaised(A, A2, i, t, LastLogIndex(i))
  /\ AcksStep(H, T, A, H2, T \cup {t}, A2)

\* An election: startElection, RequestVote and its replies, up to a candidate's winning.
LEMMA ElectAdvances ==
  \A H, T, A : Ready(H, T, A) /\ Elect => Advances(H, T, A)
\* A new leader's log is what it held of an earlier leader's.
<1>HistoryBegins. ASSUME NEW H, NEW T, Histories(H, T), NEW t \in Nat \ T, NEW u \in T, u < t,
             NEW n \in 0..Len(H[u]), NEW H2, H2 = [H EXCEPT ![t] = SubSeq(H[u], 1, n)]
      PROVE  Begins(H, T, H2, t, u, n)
  <2> USE <1>HistoryBegins
  <2>1. H \in [Nat -> Seq(Entry)] /\ H[0] = <<>> /\ T \in SUBSET Nat /\ 0 \in T
    BY Zenon DEF Histories
  <2>2. u \in Nat /\ H[u] \in Seq(Entry) /\ Len(H[u]) \in Nat
    BY Zenon, HistoryType
  <2> DEFINE s == SubSeq(H[u], 1, n)
  <2>3. s \in Seq(Entry) /\ Len(s) = n /\ \A k \in 1..n : s[k] = H[u][k]
    BY Zenon, <2>2, Prefixes
  <2> HIDE DEF s
  <2>4. H2[t] = s /\ \A w \in T : H2[w] = H[w]
    BY Zenon, <2>1, <2>2 DEF s
  <2>5. H2 \in [Nat -> Seq(Entry)]
    BY Zenon, <2>1, <2>2, <2>3 DEF s
  <2>6. n \in Nat /\ n <= n /\ n <= Len(H[u])
    BY <2>2
  <2>7. AgreeUpTo(H2[t], H[u], n)
    BY Zenon, <2>3, <2>4, <2>6 DEF AgreeUpTo
  <2>8. Extends(H, H2, T)
    <3> SUFFICES ASSUME NEW w \in T
                 PROVE  Len(H[w]) <= Len(H2[w]) /\ AgreeUpTo(H2[w], H[w], Len(H[w]))
      BY Zenon DEF Extends
    <3>1. Len(H[w]) \in Nat
      BY Zenon, HistoryType
    <3>2. Len(H[w]) <= Len(H[w])
      BY <3>1
    <3>3. QED
      BY Zenon, <2>4, <3>2 DEF AgreeUpTo
  <2>9. ASSUME NEW w \in T, NEW k \in 1..Len(H2[w])
        PROVE  Descends(H2, T, w, k)
    BY Zenon, <2>4, <2>5, <2>8, StillDescends
  <2>10. ASSUME NEW k \in 1..Len(H2[t])
         PROVE  Descends(H2, T, t, k)
    <3> DEFINE v == H[u][k].term
    <3>1. k \in 1..n /\ k \in 1..Len(H[u]) /\ k \in 1..k /\ k \in Nat /\ k <= n
      BY <2>2, <2>3, <2>4
    <3>2. v \in T /\ v <= u /\ AgreeUpTo(H[u], H[v], k) /\ \A x \in 1..k : H[u][x].term <= v
      BY Zenon, <3>1 DEF Histories
    <3>3. Len(H2[t]) \in Nat
      BY Zenon, <2>3, <2>4, <2>6
    <3>4. AgreeUpTo(H2[t], H[u], k)
      BY Zenon, <2>2, <2>6, <2>7, <3>1, <3>3, AgreeShorter
    <3> HIDE DEF v
    <3>5. \A x \in 1..k : H2[t][x] = H[u][x]
      BY Zenon, <3>4 DEF AgreeUpTo
    <3>6. H2[t][k].term = v
      BY Zenon, <3>1, <3>5 DEF v
    <3>7. AgreeUpTo(H2[t], H2[v], k)
      BY Zenon, <2>4, <3>2, <3>4, AgreeTransitive
    <3>8. v \in Nat
      BY Zenon, <3>2, HistoryType
    <3>9. v <= t
      BY <2>2, <3>2, <3>8
    <3>10. QED
      BY Zenon, <3>2, <3>5, <3>6, <3>7, <3>9 DEF Descends
  <2>11. H2[0] = <<>>
    BY Zenon, <2>1, <2>4
  <2>12. \A w \in T \cup {t} : \A k \in 1..Len(H2[w]) : Descends(H2, T \cup {t}, w, k)
    BY Zenon, <2>9, <2>10 DEF Descends
  <2>13. Histories(H2, T \cup {t})
    <3>1. T \cup {t} \in SUBSET Nat /\ 0 \in T \cup {t}
      BY Zenon, <2>1
    <3>2. QED
      BY Zenon, <2>5, <2>11, <2>12, <3>1 DEF Histories, Descends
  <2>14. QED
    BY Zenon, <2>3, <2>4, <2>7, <2>8, <2>13 DEF Begins
\* A leader elected by a majority of peers that its log covers.
<1>ElectedWins. ASSUME NEW H, NEW T, Histories(H, T), NEW A \in Acks, NEW A2 \in Acks, NEW ct \in [Server -> Nat],
             Elected(H, T, A, ct), AcksGrown(A, A2, ct),
             NEW t \in Nat \ T, NEW w \in T, w < t, NEW n \in Nat, n <= Len(H[w]),
             NEW H2, NEW T2, T2 = T \cup {t}, Len(H2[t]) = n, AgreeUpTo(H2[t], H[w], n),
             \A x \in T : H2[x] = H[x],
             NEW Q \in SUBSET Server, IsMajority(Q),
             \A j \in Q : ct[j] >= t /\ Covers(A[j], n, w, t, H, T)
      PROVE  NewlyElected(H, T, H2, T2, A2, ct)
  <2> USE <1>ElectedWins
  <2>0. SUFFICES ASSUME NEW x \in T2, NEW u \in T2, NEW k \in Nat, x < u, Own(H2, x, k),
                        x \in T /\ u \in T => k > Len(H[x])
                 PROVE  AgreeUpTo(H2[u], H2[x], k) \/ Lost(x, k, A2, ct)
    BY Zenon DEF NewlyElected
  <2>1. w \in Nat /\ Len(H[w]) \in Nat
    BY Zenon, HistoryType
  <2>2. x \in T
    <3>1. SUFFICES ASSUME x = t PROVE FALSE
      BY Zenon, <2>0
    <3>2. k \in 1..n /\ H2[t][k].term = t
      BY ZenonT(30), <2>0, <3>1 DEF Own
    <3>3. H2[t][k] = H[w][k] /\ k \in 1..Len(H[w])
      BY <2>1, <3>2 DEF AgreeUpTo
    <3>4. H[w][k].term <= w /\ H[w][k].term = t
      BY Zenon, <3>2, <3>3 DEF Histories
    <3>5. QED
      BY <2>1, <3>4
  <2>3. x \in Nat /\ Len(H[x]) \in Nat /\ H2[x] = H[x]
    BY Zenon, <2>2, HistoryType
  <2>4. Own(H, x, k)
    BY Zenon, <2>0, <2>3 DEF Own
  <2>5. k <= Len(H[x]) /\ ~(k > Len(H[x]))
    BY Zenon, <2>3, <2>4, OwnReach
  <2>6. u = t
    BY Zenon, <2>0, <2>2, <2>5
  <2>7. SUFFICES ASSUME ~Lost(x, k, A2, ct) PROVE AgreeUpTo(H2[t], H[x], k)
    BY Zenon, <2>3, <2>6
  <2>8. ~Lost(x, k, A, ct)
    <3>1. \A j \in Server : ct[j] >= ct[j]
      OBVIOUS
    <3>2. QED
      BY ZenonT(30), <2>3, <2>7, <3>1, StillLost
  <2>9. x < t
    BY Zenon, <2>0, <2>6
  <2>10. PICK j \in Q : k <= A[j][x]
    <3>1. SUFFICES ASSUME \A j \in Q : ~(k <= A[j][x]) PROVE FALSE
      BY ZenonT(30)
    <3>2. ASSUME NEW j \in Q PROVE A[j][x] < k /\ ct[j] > x
      <4>1. A[j][x] \in Nat /\ ct[j] \in Nat /\ ~(k <= A[j][x]) /\ ct[j] >= t
        BY Zenon, <2>3, <3>1 DEF Acks
      <4>2. QED
        BY <2>3, <2>9, <4>1
    <3>3. QED
      BY Zenon, <2>8, <3>2 DEF Lost
  <2>11. CASE k <= n /\ AgreeUpTo(H[w], H[x], k)
    <3>1. Len(H2[t]) \in Nat
      BY Zenon
    <3>2. AgreeUpTo(H2[t], H[w], k)
      BY Zenon, <2>1, <2>11, <3>1, AgreeShorter
    <3>3. QED
      BY Zenon, <2>11, <3>2, AgreeTransitive
  <2>12. CASE Superseded(H, T, x, k, t)
    <3>1. PICK y \in T : x < y /\ ~AgreeUpTo(H[y], H[x], k)
      BY Zenon, <2>12 DEF Superseded
    <3>2. QED
      BY Zenon, <2>2, <2>4, <2>8, <3>1 DEF Elected
  <2>13. QED
    BY Zenon, <2>2, <2>4, <2>9, <2>10, <2>11, <2>12 DEF Covers
\* RequestVote's comparison of the logs: the candidate's covers the voter's acknowledgements.
<1>UpToDateCovers. ASSUME NEW H, NEW T, Histories(H, T), NEW acks, NEW n \in Nat, NEW w \in T, NEW b \in Nat,
             Accounts(acks, n, w, b, H, T),
             NEW n2 \in Nat, NEW w2 \in T, NEW t \in Nat, w2 <= t, b <= t,
             n2 <= Len(H[w2]), w2 = TermOf(H[w2], n2),
             w2 > w \/ (w2 = w /\ n2 >= n)
      PROVE  Covers(acks, n2, w2, t, H, T)
  <2> USE <1>UpToDateCovers
  <2>0. SUFFICES ASSUME NEW u \in T, NEW k \in Nat, u < t, Own(H, u, k), k <= acks[u],
                        ~Superseded(H, T, u, k, t)
                 PROVE  k <= n2 /\ AgreeUpTo(H[w2], H[u], k)
    BY Zenon DEF Covers
  <2>1. /\ w \in Nat /\ w2 \in Nat /\ u \in Nat
        /\ Len(H[w]) \in Nat /\ Len(H[w2]) \in Nat /\ Len(H[u]) \in Nat
    BY Zenon, HistoryType
  <2>2. k <= Len(H[u]) /\ 0 < k
    BY Zenon, <2>0, <2>1, OwnReach
  <2>3. ~Superseded(H, T, u, k, b)
    <3>1. ASSUME Superseded(H, T, u, k, b) PROVE FALSE
      <4>1. PICK y \in T : u < y /\ y <= b /\ ~AgreeUpTo(H[y], H[u], k)
        BY Zenon, <3>1 DEF Superseded
      <4>2. y \in Nat
        BY Zenon, HistoryType
      <4>3. y <= t
        BY Zenon, <4>1, <4>2, AtMost
      <4>4. QED
        BY Zenon, <2>0, <4>1, <4>3 DEF Superseded
    <3>2. QED
      BY Zenon, <3>1
  <2>4. k <= n /\ AgreeUpTo(H[w], H[u], k)
    BY ZenonT(30), <2>0, <2>1, <2>2, <2>3 DEF Accounts
  <2>5. CASE w2 = w /\ n2 >= n
    BY SMTT(30), <2>4, <2>5
  <2>6. CASE w2 > w
    <3>1. u <= w
      <4>1. k \in 1..k /\ k \in 1..Len(H[w])
        BY SMTT(30), <2>1, <2>2, <2>4 DEF AgreeUpTo
      <4>2. H[w][k].term = u
        BY Zenon, <2>0, <2>4, <4>1 DEF AgreeUpTo, Own
      <4>3. QED
        BY ZenonT(30), <4>1, <4>2 DEF Histories
    <3>2. u < w2
      BY SMTT(30), <2>1, <2>6, <3>1
    <3>3. AgreeUpTo(H[w2], H[u], k)
      BY Zenon, <2>0, <3>2 DEF Superseded
    <3>4. ASSUME n2 < k PROVE FALSE
      <4>1. k \in 0..Len(H[w2]) /\ n2 \in 0..k /\ k \in 0..k
        BY SMTT(30), <2>1, <3>3, <3>4 DEF AgreeUpTo
      <4>2. w2 <= TermOf(H[w2], k)
        BY Zenon, <4>1, HistoryAscends
      <4>3. TermOf(H[w2], k) = TermOf(H[u], k)
        BY SMTT(30), <3>3, <4>1, AgreeTerms
      <4>4. TermOf(H[u], k) = u
        BY <2>0, <2>2 DEF TermOf, Own
      <4>5. QED
        BY SMTT(30), <2>1, <3>2, <4>2, <4>3, <4>4
    <3>5. QED
      BY SMTT(30), <3>3, <3>4
  <2>7. QED
    BY Zenon, <2>5, <2>6
\* Elections change no log.
<1>ElectKeeps. ASSUME TypeOK, Elect
      PROVE  \A j \in Server : LogKept(j)
  <2> USE <1>ElectKeeps
  <2>1. ASSUME NEW i \in Server, StartElection(i) PROVE \A j \in Server : LogKept(j)
    BY Zenon, <2>1, PersistKeeps DEF StartElection
  <2>2. ASSUME NEW m \in rvArgs, RequestVote(m) PROVE \A j \in Server : LogKept(j)
    <3>1. m.to \in Server
      BY Zenon DEF TypeOK, RequestVoteArgs
    <3>2. UNCHANGED logVars /\ (Persist(m.to) \/ UNCHANGED persister)
      BY ZenonT(30), <2>2 DEF RequestVote, RejectVote, ConsiderVote, PersistIf, logVars
    <3>3. QED
      BY Zenon, <3>1, <3>2, PersistKeeps
  <2>3. ASSUME NEW r \in rvReplies, VoteReplyNewTerm(r) \/ CountVote(r)
        PROVE  \A j \in Server : LogKept(j)
    <3>1. r.to \in Server
      BY Zenon DEF TypeOK, RequestVoteReply
    <3>2. UNCHANGED logVars /\ (Persist(r.to) \/ UNCHANGED persister)
      BY Zenon, <2>3 DEF VoteReplyNewTerm, StepDown, CountVote, logVars
    <3>3. QED
      BY Zenon, <3>1, <3>2, PersistKeeps
  <2>4. QED
    BY Zenon, <2>1, <2>2, <2>3 DEF Elect
<1>ElectCalls. ASSUME Elect
      PROVE  UNCHANGED <<aeNet, isNet>>
  BY <1>ElectCalls, Zenon DEF Elect, StartElection, RequestVote, RejectVote, ConsiderVote, VoteReplyNewTerm,
               CountVote, aeNet, isNet
\* Nobody wins.
<1>ElectLog. ASSUME NEW H, NEW T, LogInv(H, T), TypeOK, Elect,
             \A j \in Server : role'[j] = "Leader" => role[j] = "Leader"
      PROVE  LogStep(H, T, H, T)
  <2> USE <1>ElectLog
  <2>1. \A j \in Server : Keeps(j)
    BY Zenon, <1>ElectKeeps, KeptIsKept
  <2>2. aeArgs' = aeArgs /\ isArgs' = isArgs /\ aeReplies' = aeReplies
    BY Zenon, <1>ElectCalls DEF aeNet, isNet
  <2>3. QED
    BY Zenon, <2>1, <2>2, QuietLog
\* Somebody can only win a term that has not been led.
<1>NewTermLed. ASSUME NEW H, NEW T, LogInv(H, T), ElectionInv, NEW r \in rvReplies, CountVote(r),
             IsMajority(Tally(r.to, r.reqTerm) \cup {r.from})
      PROVE  currentTerm[r.to] \in Nat \ T
  <2> USE <1>NewTermLed
  <2> DEFINE i == r.to
             t == currentTerm[i]
  <2>1. i \in Server /\ r.from \in Server /\ t \in Nat
    BY Zenon DEF ElectionInv, DiskInv, TypeOK, RequestVoteReply
  <2>2. r.reqTerm = t /\ role[i] = "Candidate" /\ r.voteGranted
    BY Zenon DEF CountVote
  <2> HIDE DEF i, t
  <2>3. t # 0
    BY Zenon, <2>1, <2>2 DEF LogInv, t, i
  <2>4. ASSUME t \in T PROVE FALSE
    <3>1. PICK c \in Server :
            /\ IsMajority(Tally(c, t)) /\ currentTerm[c] >= t
            /\ currentTerm[c] = t => role[c] # "Candidate"
      BY Zenon, <2>3, <2>4 DEF LogInv, TermLed
    <3>2. c # i
      BY Zenon, <2>2, <3>1 DEF t
    <3>3. Tally(c, t) \subseteq Server /\ Tally(i, t) \cup {r.from} \subseteq Server
      BY Zenon, <2>1 DEF Tally
    <3>4. PICK v \in Server : v \in Tally(c, t) /\ v \in Tally(i, t) \cup {r.from}
      <4>1. IsMajority(Tally(i, t) \cup {r.from}) /\ Majorities
        BY Zenon, <2>2 DEF i, ElectionInv
      <4>2. QED
        BY Zenon, <3>1, <3>3, <4>1, MajoritiesIntersect
    <3>5. Granted(v, t, c)
      BY Zenon, <3>4 DEF Tally, Granted
    <3>6. Granted(v, t, i)
      <4>1. CASE v \in Tally(i, t)
        BY Zenon, <4>1 DEF Tally, Granted
      <4>2. CASE v = r.from
        BY Zenon, <2>2, <4>2 DEF i, Granted
      <4>3. QED
        BY Zenon, <3>4, <4>1, <4>2
    <3>7. QED
      BY Zenon, <2>1, <3>2, <3>5, <3>6 DEF ElectionInv, VotesUnique
  <2>5. QED
    BY Zenon, <2>1, <2>4 DEF t, i
<1>WinLog. ASSUME NEW H, NEW T, LogInv(H, T), ElectionInv, NEW r \in rvReplies, CountVote(r),
             IsMajority(Tally(r.to, r.reqTerm) \cup {r.from}),
             NEW t, t = currentTerm[r.to],
             NEW H2, H2 = [H EXCEPT ![t] = SubSeq(H[LastLogTerm(r.to)], 1, LastLogIndex(r.to))]
      PROVE  Wins(r.to, t, H, T, H2)
  <2> USE <1>WinLog
  <2> DEFINE i == r.to
             u == LastLogTerm(i)
             n == LastLogIndex(i)
  <2>0. TypeOK /\ Histories(H, T)
    BY Zenon DEF LogInv, ElectionInv, DiskInv
  <2>1. i \in Server /\ r.from \in Server
    BY Zenon, <2>0 DEF TypeOK, RequestVoteReply
  <2>2. t \in Nat \ T
    BY Zenon, <1>NewTermLed
  <2>3. HeldTypes(i)
    BY Zenon, <2>0, <2>1, HeldTyped
  <2>4. u \in T /\ u <= t /\ Follows(i, H[u])
    BY Zenon, <2>1 DEF LogInv, PeerFollows
  <2>5. u \in Nat /\ Len(H[u]) \in Nat /\ n \in Nat
    BY Zenon, <2>0, <2>3, <2>4, HistoryType DEF HeldTypes
  <2>6. u # t
    BY Zenon, <2>2, <2>4
  <2>7. n <= Len(H[u])
    BY Zenon, <2>4, FollowsReach
  <2>8. H2 = [H EXCEPT ![t] = SubSeq(H[u], 1, n)]
    BY ZenonT(30)
  <2> HIDE DEF n, u, i
  <2>9. u < t /\ n \in 0..Len(H[u])
    BY SMTT(30), <2>2, <2>4, <2>5, <2>6, <2>7
  <2>10. /\ Histories(H2, T \cup {t}) /\ Extends(H, H2, T)
         /\ Len(H2[t]) = n /\ AgreeUpTo(H2[t], H[u], n) /\ \A w \in T : H2[w] = H[w]
    <3>1. Begins(H, T, H2, t, u, n)
      BY ZenonT(30), <2>0, <2>2, <2>4, <2>8, <2>9, <1>HistoryBegins
    <3>2. QED
      BY Zenon, <3>1 DEF Begins
  <2>11. AgreeUpTo(H[u], H2[t], n)
    BY Zenon, <2>10 DEF AgreeUpTo
  <2>12. Follows(i, H2[t])
    BY Zenon, <2>3, <2>4, <2>11, FollowsOther DEF n
  <2>13. \A j \in Server : Keeps(j)
    <3>1. Elect
      BY Zenon DEF Elect
    <3>2. QED
      BY Zenon, <2>0, <3>1, <1>ElectKeeps, KeptIsKept
  <2>14. LeaderFollows(i, H2, T \cup {t})'
    <3>1. Follows(i, H2[t])' /\ LastLogIndex(i)' = Len(H2[t])
      BY Zenon, <2>1, <2>10, <2>12, <2>13 DEF Keeps, n
    <3>2. currentTerm'[i] = t
      BY Zenon DEF CountVote, i
    <3>3. t \in T \cup {t}
      BY Zenon
    <3>4. QED
      BY Zenon, <3>1, <3>2, <3>3 DEF LeaderFollows
  <2>15. r.reqTerm = t
    BY Zenon DEF CountVote
  <2>16. role'[i] = "Leader" /\ \A j \in Server : j # i => role'[j] = role[j]
    BY Zenon, <2>0, <2>1 DEF CountVote, i, TypeOK
  <2>17. TermLed(t)'
    <3>1. IsMajority(Tally(i, t) \cup {r.from})
      BY Zenon, <2>15 DEF i
    <3>2. votes' = votes \cup {[candidate |-> i, term |-> t, voter |-> r.from]}
      BY Zenon, <2>15 DEF i, CountVote
    <3>3. Tally(i, t) \cup {r.from} \subseteq Tally(i, t)' /\ Tally(i, t)' \subseteq Server
      BY Zenon, <2>1, <3>2 DEF Tally
    <3>4. Majorities
      BY Zenon DEF ElectionInv
    <3>5. IsMajority(Tally(i, t)')
      BY ZenonT(30), <3>1, <3>3, <3>4, MajorityMonotone
    <3>6. IsMajority(Tally(i, t))'
      BY ZenonT(30), <3>5 DEF IsMajority
    <3>7. currentTerm'[i] = t
      BY Zenon DEF CountVote, i
    <3>8. currentTerm'[i] >= t
      BY SMTT(30), <2>2, <3>7
    <3>9. QED
      BY Zenon, <2>1, <2>16, <3>6, <3>7, <3>8 DEF TermLed
  <2>18. aeArgs' = aeArgs /\ isArgs' = isArgs /\ aeReplies' = aeReplies
    BY Zenon DEF CountVote, aeNet, isNet
  <2>19. ASSUME NEW j \in Server, role'[j] = "Leader"
         PROVE  \/ role[j] = "Leader" /\ Keeps(j) /\ Len(H2[currentTerm[j]]) = Len(H[currentTerm[j]])
                \/ LeaderFollows(j, H2, T \cup {t})'
    <3>1. CASE j = i
      BY Zenon, <2>14, <3>1
    <3>2. CASE j # i
      <4>1. role[j] = "Leader"
        BY ZenonT(30), <2>16, <2>19, <3>2
      <4>2. currentTerm[j] \in T
        BY Zenon, <4>1 DEF LogInv, LeaderFollows
      <4>3. QED
        BY ZenonT(30), <2>10, <2>13, <4>1, <4>2
    <3>3. QED
      BY ZenonT(30), <3>1, <3>2
  <2>20. LogStep(H, T, H2, T \cup {t})
    BY ZenonT(30), <2>10, <2>13, <2>17, <2>18, <2>19 DEF LogStep
  <2>21. QED
    BY ZenonT(30), <2>2, <2>9, <2>10, <2>20 DEF Wins, i, n, u
\* Peer i votes for itself, whose log covers its own acknowledgements.
<1>StartElectionVotes. ASSUME NEW H, NEW T, NEW A, LogInv(H, T), CommitInv(H, T, A), TypeOK,
             NEW i \in Server, StartElection(i), Keeps(i)
      PROVE  VotesStep(H, T, A)
  <2> USE <1>StartElectionVotes
  <2>1. LastTypes(i, H, T)
    BY Zenon, LastTyped
  <2>2. PICK b : b = currentTerm[i]
    BY Zenon
  <2>3. PICK n : n = LastLogIndex(i)
    BY Zenon
  <2>4. PICK w : w = LastLogTerm(i)
    BY Zenon
  <2>5. /\ n \in Nat /\ w \in T /\ w \in Nat /\ w <= b /\ b \in Nat /\ n <= Len(H[w])
        /\ w = TermOf(H[w], n)
    BY Zenon, <2>1, <2>2, <2>3, <2>4 DEF LastTypes
  <2>6. LastLogIndex(i)' = n /\ LastLogTerm(i)' = w
    BY Zenon, <2>3, <2>4 DEF Keeps
  <2>7. currentTerm'[i] = b + 1 /\ role'[i] = "Candidate"
    <3>1. currentTerm \in [Server -> Nat] /\ role \in [Server -> Role]
      BY Zenon DEF TypeOK
    <3>2. currentTerm' = [currentTerm EXCEPT ![i] = b + 1] /\ role' = [role EXCEPT ![i] = "Candidate"]
      BY Zenon, <2>2 DEF StartElection
    <3>3. QED
      BY Zenon, <3>1, <3>2
  <2>8. Covers(A[i], n, w, b + 1, H, T)
    <3>1. Accounts(A[i], n, w, b, H, T) /\ Histories(H, T)
      BY Zenon, <2>2, <2>3, <2>4 DEF CommitInv, AcksFit, LogInv
    <3>2. b + 1 \in Nat /\ w <= b + 1 /\ b <= b + 1 /\ n >= n
      BY <2>5
    <3>3. QED
      BY Zenon, <2>5, <3>1, <3>2, <1>UpToDateCovers
  <2>9. VoteFits(i, b + 1, i, H, T, A)'
    <3>1. b + 1 <= currentTerm'[i]
      BY SMTT(30), <2>5, <2>7
    <3>2. QED
      BY ZenonT(30), <2>6, <2>8, <3>1 DEF VoteFits
  <2>10. ASSUME NEW j \in Server, NEW c \in Server, NEW t \in Nat, Granted(j, t, c)', ~Granted(j, t, c)
         PROVE  VoteFits(j, t, c, H, T, A)'
    <3>1. votes' = votes \cup {[candidate |-> i, term |-> b + 1, voter |-> i]} /\ rvReplies' = rvReplies
      BY Zenon, <2>2 DEF StartElection
    <3>2. [candidate |-> c, term |-> t, voter |-> j] = [candidate |-> i, term |-> b + 1, voter |-> i]
      BY Zenon, <2>10, <3>1 DEF Granted
    <3>3. c = i /\ t = b + 1 /\ j = i
      BY Zenon, <3>2
    <3>4. QED
      BY Zenon, <2>9, <3>3
  <2>11. ASSUME NEW m \in rvArgs', m \notin rvArgs PROVE AskFits(m)'
    <3>1. PICK j \in Server \ {i} :
            m = [from |-> i, to |-> j, term |-> b + 1, lastLogIndex |-> n, lastLogTerm |-> w]
      BY Zenon, <2>2, <2>3, <2>4, <2>11 DEF StartElection
    <3>2. m.from = i /\ m.term = b + 1 /\ m.lastLogIndex = n /\ m.lastLogTerm = w
      BY Zenon, <3>1
    <3>3. b + 1 <= currentTerm'[i]
      BY SMTT(30), <2>5, <2>7
    <3>4. QED
      BY Zenon, <2>6, <3>2, <3>3 DEF AskFits
  <2>12. QED
    BY Zenon, <2>10, <2>11 DEF VotesStep
\* RequestVote's comparison of the logs makes the candidate's cover the voter's.
<1>RequestVoteVotes. ASSUME NEW H, NEW T, NEW A, LogInv(H, T), CommitInv(H, T, A), TypeOK, TypeOK', RolesStep,
             NEW m \in rvArgs, RequestVote(m), \A j \in Server : Keeps(j)
      PROVE  VotesStep(H, T, A)
  <2> USE <1>RequestVoteVotes
  <2>0. m.from \in Server /\ m.to \in Server /\ m.term \in Nat
    BY Zenon DEF TypeOK, RequestVoteArgs
  <2>1. /\ rvArgs' \subseteq rvArgs
        /\ votes' = votes
    BY Zenon DEF RequestVote, RejectVote, ConsiderVote, AnswerVote, electionVars
  <2>2. ASSUME NEW j \in Server, NEW c \in Server, NEW t \in Nat, Granted(j, t, c)', ~Granted(j, t, c)
        PROVE  j = m.to /\ c = m.from /\ t = m.term /\ ConsiderVote(m) /\ LogUpToDate(m.to, m)
    <3>1. PICK r \in rvReplies' : r \notin rvReplies /\ r.voteGranted /\ r.from = j /\ r.reqTerm = t /\ r.to = c
      BY Zenon, <2>1, <2>2 DEF Granted
    <3>2. CASE RejectVote(m)
      <4>1. r = [from |-> m.to, to |-> m.from, reqTerm |-> m.term, term |-> currentTerm[m.to],
                 voteGranted |-> FALSE]
        BY Zenon, <3>1, <3>2 DEF RejectVote, AnswerVote
      <4>2. ~r.voteGranted
        BY Zenon, <4>1
      <4>3. QED
        BY Zenon, <3>1, <4>2
    <3>3. CASE ConsiderVote(m)
      <4>1. PICK grant \in BOOLEAN :
              /\ grant => LogUpToDate(m.to, m)
              /\ AnswerVote(m, m.term, grant)
        BY Zenon, <3>3 DEF ConsiderVote, GrantsVote
      <4>2. r = [from |-> m.to, to |-> m.from, reqTerm |-> m.term, term |-> m.term, voteGranted |-> grant]
        BY Zenon, <3>1, <4>1 DEF AnswerVote
      <4>3. r.from = m.to /\ r.to = m.from /\ r.reqTerm = m.term /\ r.voteGranted = grant
        BY Zenon, <4>2
      <4>4. QED
        BY Zenon, <3>1, <3>3, <4>1, <4>3
    <3>4. QED
      BY Zenon, <3>2, <3>3 DEF RequestVote
  <2>3. ASSUME ConsiderVote(m), LogUpToDate(m.to, m)
        PROVE  VoteFits(m.to, m.term, m.from, H, T, A)'
    <3>1. PICK t : t = m.term
      BY Zenon
    <3>2. PICK c : c = m.from
      BY Zenon
    <3>3. PICK j : j = m.to
      BY Zenon
    <3>4. /\ t <= currentTerm[c]
          /\ role[c] = "Candidate" /\ currentTerm[c] = t =>
               m.lastLogTerm = LastLogTerm(c) /\ m.lastLogIndex = LastLogIndex(c)
      BY Zenon, <3>1, <3>2 DEF CommitInv, AskFits
    <3>5. currentTerm[c] \in Nat /\ currentTerm'[c] \in Nat /\ currentTerm[j] \in Nat
      BY Zenon, <2>0, <3>2, <3>3 DEF TypeOK
    <3>6. /\ currentTerm'[c] >= currentTerm[c]
          /\ role'[c] = "Candidate" =>
               currentTerm'[c] > currentTerm[c] \/ (role[c] = "Candidate" /\ currentTerm'[c] = currentTerm[c])
      BY ZenonT(30), <2>0, <3>2 DEF RolesStep
    <3>7. t <= currentTerm'[c]
      BY SMTT(30), <2>0, <3>1, <3>4, <3>5, <3>6
    <3>8. ASSUME role'[c] = "Candidate", currentTerm'[c] = t
          PROVE  Covers(A[j], LastLogIndex(c)', LastLogTerm(c)', t, H, T)
      <4>1. role[c] = "Candidate" /\ currentTerm[c] = t
        BY SMTT(30), <2>0, <3>1, <3>4, <3>5, <3>6, <3>8
      <4>2. m.lastLogTerm = LastLogTerm(c)' /\ m.lastLogIndex = LastLogIndex(c)'
        BY Zenon, <2>0, <3>2, <3>4, <4>1 DEF Keeps
      <4>3. LastTypes(j, H, T) /\ LastTypes(c, H, T) /\ Histories(H, T)
        BY Zenon, <2>0, <3>2, <3>3, LastTyped DEF LogInv
      <4>4. Accounts(A[j], LastLogIndex(j), LastLogTerm(j), currentTerm[j], H, T)
        BY Zenon, <2>0, <3>3 DEF CommitInv, AcksFit
      <4>5. PICK n2 : n2 = LastLogIndex(c)
        BY Zenon
      <4>6. PICK w2 : w2 = LastLogTerm(c)
        BY Zenon
      <4>7. n2 \in Nat /\ w2 \in T /\ w2 <= t /\ n2 <= Len(H[w2]) /\ w2 = TermOf(H[w2], n2)
        BY Zenon, <4>1, <4>3, <4>5, <4>6 DEF LastTypes
      <4>8. w2 > LastLogTerm(j) \/ (w2 = LastLogTerm(j) /\ n2 >= LastLogIndex(j))
        BY ZenonT(30), <2>3, <3>3, <3>4, <4>1, <4>5, <4>6 DEF LogUpToDate
      <4>9. LastLogIndex(j) \in Nat /\ LastLogTerm(j) \in T
        BY Zenon, <4>3 DEF LastTypes
      <4>10. currentTerm[j] <= t
        <5>1. t >= currentTerm[j]
          BY Zenon, <2>3, <3>1, <3>3 DEF ConsiderVote
        <5>2. QED
          BY Zenon, <2>0, <3>1, <3>5, <5>1
      <4>11. Covers(A[j], n2, w2, t, H, T)
        BY ZenonT(30), <2>0, <3>1, <3>5, <4>3, <4>4, <4>7, <4>8, <4>9, <4>10, <1>UpToDateCovers
      <4>12. QED
        BY ZenonT(30), <3>4, <4>1, <4>2, <4>5, <4>6, <4>11
    <3>9. QED
      BY Zenon, <3>1, <3>2, <3>3, <3>7, <3>8 DEF VoteFits
  <2>4. QED
    BY Zenon, <2>1, <2>2, <2>3 DEF VotesStep
\* The other steps of an election grant no vote.
<1>ReplyVotes. ASSUME NEW H2, NEW T2, NEW A2, TypeOK, NEW r \in rvReplies, VoteReplyNewTerm(r) \/ CountVote(r)
      PROVE  VotesStep(H2, T2, A2)
  <2> USE <1>ReplyVotes
  <2>1. /\ rvReplies' \subseteq rvReplies /\ rvArgs' = rvArgs
        /\ \/ votes' = votes
           \/ r.voteGranted /\ votes' = votes \cup {[candidate |-> r.to, term |-> r.reqTerm, voter |-> r.from]}
    BY Zenon DEF VoteReplyNewTerm, CountVote, StepDown
  <2>2. ASSUME NEW j \in Server, NEW c \in Server, NEW t \in Nat, Granted(j, t, c)'
        PROVE  Granted(j, t, c)
    <3>1. CASE [candidate |-> c, term |-> t, voter |-> j] = [candidate |-> r.to, term |-> r.reqTerm, voter |-> r.from]
               /\ r.voteGranted
      <4>1. c = r.to /\ t = r.reqTerm /\ j = r.from
        BY Zenon, <3>1
      <4>2. QED
        BY Zenon, <3>1, <4>1 DEF Granted
    <3>2. CASE ~([candidate |-> c, term |-> t, voter |-> j] = [candidate |-> r.to, term |-> r.reqTerm, voter |-> r.from]
               /\ r.voteGranted)
      BY Zenon, <2>1, <2>2, <3>2 DEF Granted
    <3>3. QED
      BY Zenon, <3>1, <3>2
  <2>3. QED
    BY Zenon, <2>1, <2>2 DEF VotesStep
\* An election that nobody wins.
<1>ElectCommit. ASSUME NEW H, NEW T, NEW A, LogInv(H, T), CommitInv(H, T, A), TypeOK, TypeOK', RolesStep, Elect,
             \A j \in Server : Keeps(j), \A j \in Server : role'[j] = "Leader" => role[j] = "Leader"
      PROVE  CommitStep(H, T, A, H, T, A)
  <2> USE <1>ElectCommit
  <2>1. AcksStep(H, T, A, H, T, A)
    BY Zenon, SameAcks DEF CommitInv, LogInv
  <2>2. VotesStep(H, T, A)
    BY Zenon, <1>StartElectionVotes, <1>RequestVoteVotes, <1>ReplyVotes DEF Elect
  <2>3. /\ UNCHANGED <<logVars, applyVars>>
        /\ UNCHANGED <<aeNet, isNet>>
    BY Zenon DEF Elect, StartElection, RequestVote, RejectVote, ConsiderVote, VoteReplyNewTerm,
                 CountVote, StepDown
  <2>4. CommitsStep(H, T, A)
    BY Zenon, <2>3, SameCommits DEF logVars, applyVars
  <2>5. CallsStep(H, T, A) /\ AnswersStep(H, T, A)
    BY Zenon, <2>3, SameCalls, SameAnswers DEF aeNet, isNet
  <2>6. ASSUME NEW j \in Server, role'[j] = "Leader" PROVE LeaderKeeps(j)
    <3>1. role[j] = "Leader" /\ LastLogIndex(j)' = LastLogIndex(j)
      BY Zenon, <2>6 DEF Keeps
    <3>2. CASE leaderVars' = leaderVars
      BY Zenon, <3>1, <3>2 DEF LeaderKeeps, leaderVars
    <3>3. ASSUME NEW r \in rvReplies, CountVote(r)
          PROVE  matchIndex'[j] = matchIndex[j] /\ nextIndex'[j] = nextIndex[j]
      <4>1. j # r.to
        BY Zenon, <3>1, <3>3 DEF CountVote
      <4>2. matchIndex \in [Server -> [Server -> Nat]] /\ nextIndex \in [Server -> [Server -> Nat]]
        BY Zenon DEF TypeOK
      <4>3. QED
        BY Zenon, <3>3, <4>1, <4>2 DEF CountVote
    <3>4. leaderVars' = leaderVars \/ \E r \in rvReplies : CountVote(r)
      BY Zenon DEF Elect, StartElection, RequestVote, RejectVote, ConsiderVote, VoteReplyNewTerm
    <3>5. QED
      BY Zenon, <3>1, <3>2, <3>3, <3>4 DEF LeaderKeeps
  <2>7. LeadersStep(H, A)
    BY Zenon, <2>6 DEF LeadersStep
  <2>8. QED
    BY ZenonT(30), <2>1, <2>2, <2>4, <2>5, <2>7 DEF CommitStep
\* Those who voted for a candidate, and the one whose vote it counts, are past the terms
\* before, and its log covers what they acknowledged.
<1>Voters. ASSUME NEW H, NEW T, NEW A, CommitInv(H, T, A), TypeOK, VotesRemembered,
             NEW r \in rvReplies, CountVote(r), NEW t, t = currentTerm[r.to],
             NEW j \in Tally(r.to, r.reqTerm) \cup {r.from}
      PROVE  /\ j \in Server /\ currentTerm[j] >= t
             /\ Covers(A[j], LastLogIndex(r.to), LastLogTerm(r.to), t, H, T)
  <2> USE <1>Voters
  <2>0. r.from \in Server /\ r.to \in Server /\ r.reqTerm \in Nat
    BY Zenon DEF TypeOK, RequestVoteReply
  <2>1. role[r.to] = "Candidate" /\ r.reqTerm = t /\ r.voteGranted
    BY Zenon DEF CountVote
  <2>2. j \in Server
    BY Zenon, <2>0 DEF Tally
  <2>3. Granted(j, t, r.to)
    BY Zenon, <2>1 DEF Tally, Granted
  <2>4. VoteFits(j, t, r.to, H, T, A)
    BY Zenon, <2>0, <2>1, <2>2, <2>3 DEF CommitInv
  <2>5. currentTerm[j] >= t
    BY Zenon, <2>0, <2>1, <2>2, <2>3, VoterTerm
  <2>6. QED
    BY Zenon, <2>1, <2>2, <2>4, <2>5 DEF VoteFits
<1>WinAcks. ASSUME NEW H, NEW T, NEW A, LogInv(H, T), CommitInv(H, T, A), TypeOK, VotesRemembered,
             NEW r \in rvReplies, CountVote(r), IsMajority(Tally(r.to, r.reqTerm) \cup {r.from}),
             NEW t, t = currentTerm[r.to], NEW H2, Wins(r.to, t, H, T, H2), Keeps(r.to)
      PROVE  \E A2 : WinnerAcks(r.to, t, H, T, A, H2, A2)
  <2> USE <1>WinAcks
  <2>1. PICK i \in Server : i = r.to
    BY Zenon DEF TypeOK, RequestVoteReply
  <2>2. PICK n : n = LastLogIndex(i)
    BY Zenon
  <2>3. PICK w : w = LastLogTerm(i)
    BY Zenon
  <2>4. LastTypes(i, H, T) /\ Histories(H, T) /\ A \in Acks
    BY Zenon, LastTyped DEF LogInv, CommitInv
  <2>5. n \in Nat /\ w \in T /\ w \in Nat /\ n <= Len(H[w])
    BY Zenon, <2>2, <2>3, <2>4 DEF LastTypes
  <2>6. t \in Nat \ T /\ w < t /\ Len(H2[t]) = n /\ AgreeUpTo(H2[t], H[w], n) /\ \A x \in T : H2[x] = H[x]
    BY Zenon, <2>1, <2>2, <2>3 DEF Wins
  <2>7. A[i][t] <= n
    <3>1. A[i][t] \in Nat
      BY Zenon, <2>4, <2>6 DEF Acks
    <3>2. PICK a : a = A[i][t]
      BY Zenon
    <3>3. a \in Nat /\ a <= a
      BY <3>1, <3>2
    <3>4. ~(0 < a)
      BY Zenon, <2>6, <3>2, <3>3 DEF CommitInv, AcksFit, Accounts
    <3>5. a <= n
      BY <2>5, <3>3, <3>4
    <3>6. QED
      BY Zenon, <3>2, <3>5
  <2>8. PICK A2 : A2 = [A EXCEPT ![i] = [@ EXCEPT ![t] = n]]
    BY Zenon
  <2>9. AckRaised(A, A2, i, t, n)
    BY Zenon, <2>4, <2>5, <2>6, <2>7, <2>8, AckOne
  <2>10. A2 \in Acks /\ A2[i][t] = n /\ (\A u \in Nat : u # t => A2[i][u] = A[i][u])
         /\ (\A j \in Server : j # i => A2[j] = A[j]) /\ \A j \in Server, u \in Nat : A[j][u] <= A2[j][u]
    BY Zenon, <2>9 DEF AckRaised
  <2>11. currentTerm' = currentTerm /\ currentTerm[i] = t /\ currentTerm \in [Server -> Nat]
    BY Zenon, <2>1 DEF CountVote, TypeOK
  <2>12. PICK ct : ct = currentTerm
    BY Zenon
  <2>13. ct = currentTerm' /\ ct[i] = t /\ ct \in [Server -> Nat]
    BY Zenon, <2>11, <2>12
  <2>14. Grown(H, T, H2)
    <3>1. ASSUME NEW x \in T, NEW k \in Nat PROVE k <= Len(H[x]) \/ k > Len(H[x])
      <4>1. Len(H[x]) \in Nat
        BY Zenon, <2>4, HistoryType
      <4>2. QED
        BY <4>1
    <3>2. QED
      BY ZenonT(30), <2>6, <3>1 DEF Grown
  <2>15. LastLogIndex(i)' = n /\ LastLogTerm(i)' = w
    BY Zenon, <2>1, <2>2, <2>3 DEF Keeps
  <2>16. AckStep(H2, T \cup {t}, A, A2)
    <3>1. AgreeUpTo(H2[w], H2[t], n)
      <4>1. H2[w] = H[w]
        BY Zenon, <2>5, <2>6
      <4>2. AgreeUpTo(H2[t], H2[w], n)
        BY ZenonT(30), <2>6, <4>1
      <4>3. QED
        BY Zenon, <4>2 DEF AgreeUpTo
    <3>2. n <= n
      BY <2>5
    <3>3. NewAcks(A[i], A2[i], n, w, t, H2, T \cup {t})
      BY Zenon, <2>10, <3>1, <3>2 DEF NewAcks
    <3>4. ASSUME NEW j \in Server
          PROVE  NewAcks(A[j], A2[j], LastLogIndex(j)', LastLogTerm(j)', currentTerm'[j], H2, T \cup {t})
      <4>1. CASE j = i
        BY Zenon, <2>11, <2>15, <3>3, <4>1
      <4>2. CASE j # i
        BY Zenon, <2>10, <4>2 DEF NewAcks
      <4>3. QED
        BY Zenon, <4>1, <4>2
    <3>5. QED
      BY Zenon, <2>10, <3>4 DEF AckStep
  <2>17. AcksGrown(A, A2, ct)
    BY Zenon, <2>10, <2>13 DEF AcksGrown
  <2>18. NewlyElected(H, T, H2, T \cup {t}, A2, ct)
    <3>1. PICK Q : Q = Tally(r.to, r.reqTerm) \cup {r.from}
      BY Zenon
    <3>2. ASSUME NEW j \in Q PROVE j \in Server /\ ct[j] >= t /\ Covers(A[j], n, w, t, H, T)
      BY Zenon, <2>1, <2>2, <2>3, <2>12, <3>1, <1>Voters
    <3>3. Q \in SUBSET Server /\ IsMajority(Q) /\ \A j \in Q : ct[j] >= t /\ Covers(A[j], n, w, t, H, T)
      BY Zenon, <3>1, <3>2
    <3>4. Elected(H, T, A, ct)
      BY Zenon, <2>12 DEF CommitInv
    <3>5. QED
      BY ZenonT(30), <2>4, <2>5, <2>6, <2>10, <2>13, <2>17, <3>3, <3>4, <1>ElectedWins
  <2>19. AcksStep(H, T, A, H2, T \cup {t}, A2)
    BY Zenon, <2>10, <2>13, <2>14, <2>16, <2>18 DEF AcksStep
  <2>20. QED
    BY Zenon, <2>1, <2>2, <2>9, <2>19 DEF WinnerAcks
<1>WinCommit. ASSUME NEW H, NEW T, NEW A, LogInv(H, T), CommitInv(H, T, A), TypeOK, VotesRemembered,
             NEW r \in rvReplies, CountVote(r), IsMajority(Tally(r.to, r.reqTerm) \cup {r.from}),
             NEW t, t = currentTerm[r.to], NEW H2, Wins(r.to, t, H, T, H2), \A j \in Server : Keeps(j)
      PROVE  \E A2 : CommitStep(H, T, A, H2, T \cup {t}, A2)
  <2> USE <1>WinCommit
  <2>1. PICK i \in Server : i = r.to
    BY Zenon DEF TypeOK, RequestVoteReply
  <2>2. PICK A2 : WinnerAcks(i, t, H, T, A, H2, A2)
    BY Zenon, <2>1, <1>WinAcks
  <2>3. PICK T2 : T2 = T \cup {t}
    BY Zenon
  <2>4. AcksStep(H, T, A, H2, T2, A2)
    BY Zenon, <2>2, <2>3 DEF WinnerAcks
  <2>5. UNCHANGED <<logVars, applyVars, currentTerm, rvArgs, aeNet, isNet>>
    BY Zenon DEF CountVote
  <2>6. VotesStep(H2, T2, A2)
    BY Zenon, <1>ReplyVotes
  <2>7. CommitsStep(H2, T2, A2)
    BY Zenon, <2>5, SameCommits DEF logVars, applyVars
  <2>8. CallsStep(H2, T2, A2) /\ AnswersStep(H2, T2, A2)
    BY Zenon, <2>5, SameCalls, SameAnswers DEF aeNet, isNet
  <2>9. PICK n : n = LastLogIndex(i)
    BY Zenon
  <2>10. n \in Nat /\ LastLogIndex(i)' = n /\ Len(H2[t]) = n /\ t \in Nat
    <3>1. LastTypes(i, H, T)
      BY Zenon, LastTyped
    <3>2. QED
      BY Zenon, <2>1, <2>9, <3>1 DEF LastTypes, Keeps, Wins
  <2>11. A2 \in Acks /\ A2[i][t] = n /\ currentTerm'[i] = t
    BY Zenon, <2>1, <2>2, <2>5, <2>9 DEF WinnerAcks, AckRaised
  <2>12. /\ role \in [Server -> Role] /\ matchIndex \in [Server -> [Server -> Nat]]
         /\ nextIndex \in [Server -> [Server -> Nat]]
    BY Zenon DEF TypeOK
  <2>13. /\ nextIndex' = [nextIndex EXCEPT ![i] = [j \in Server |-> n + 1]]
         /\ matchIndex' = [matchIndex EXCEPT ![i] = [j \in Server |-> 0]]
         /\ role' = [role EXCEPT ![i] = "Leader"]
    BY Zenon, <2>1, <2>9 DEF CountVote
  <2>14. LeaderFits(i, H2, A2)'
    <3>1. n <= A2[i][t]
      BY <2>10, <2>11
    <3>2. ASSUME NEW j \in Server \ {i}
          PROVE  matchIndex'[i][j] <= A2[j][t] /\ nextIndex'[i][j] \in 1..Len(H2[t]) + 1
      <4>1. matchIndex'[i][j] = 0 /\ nextIndex'[i][j] = n + 1
        BY Zenon, <2>12, <2>13
      <4>2. A2[j][t] \in Nat
        BY ZenonT(30), <2>10, <2>11 DEF Acks
      <4>3. 0 <= A2[j][t] /\ n + 1 \in 1..n + 1
        BY <2>10, <4>2
      <4>4. QED
        BY Zenon, <2>10, <4>1, <4>3
    <3>3. QED
      BY ZenonT(30), <2>10, <2>11, <3>1, <3>2 DEF LeaderFits
  <2>15. ASSUME NEW j \in Server, j # i, role'[j] = "Leader" PROVE LeaderKeeps(j)
    <3>1. role'[j] = role[j] /\ nextIndex'[j] = nextIndex[j] /\ matchIndex'[j] = matchIndex[j]
      BY Zenon, <2>12, <2>13, <2>15
    <3>2. QED
      BY Zenon, <2>15, <3>1 DEF LeaderKeeps, Keeps
  <2>16. LeadersStep(H2, A2)
    BY Zenon, <2>14, <2>15 DEF LeadersStep
  <2>17. QED
    BY Zenon, <2>3, <2>4, <2>6, <2>7, <2>8, <2>16 DEF CommitStep
<1>ElectKinds. ASSUME TypeOK, Elect
      PROVE  \/ \A j \in Server : role'[j] = "Leader" => role[j] = "Leader"
             \/ \E r \in rvReplies : CountVote(r) /\ IsMajority(Tally(r.to, r.reqTerm) \cup {r.from})
  <2> USE <1>ElectKinds
  <2>2. ASSUME NEW r \in rvReplies, CountVote(r), ~IsMajority(Tally(r.to, r.reqTerm) \cup {r.from})
        PROVE  \A j \in Server : role'[j] = "Leader" => role[j] = "Leader"
    <3>1. role' = [role EXCEPT ![r.to] = role[r.to]]
      BY Zenon, <2>2 DEF CountVote
    <3>2. role' = role
      BY SMTT(30), <3>1 DEF TypeOK
    <3>3. QED
      BY Zenon, <3>2
  <2>3. ASSUME NEW i \in Server, StartElection(i)
        PROVE  \A j \in Server : role'[j] = "Leader" => role[j] = "Leader"
    BY Zenon, <2>3 DEF StartElection, TypeOK
  <2>4. ASSUME NEW m \in rvArgs, RequestVote(m)
        PROVE  \A j \in Server : role'[j] = "Leader" => role[j] = "Leader"
    <3>1. m.to \in Server
      BY Zenon DEF TypeOK, RequestVoteArgs
    <3>2. CASE RejectVote(m)
      BY Zenon, <3>2 DEF RejectVote, electionVars
    <3>3. CASE ConsiderVote(m)
      <4>1. role' = [role EXCEPT ![m.to] = IF m.term > currentTerm[m.to] THEN "Follower" ELSE @]
        BY Zenon, <3>3 DEF ConsiderVote
      <4>2. QED
        BY Zenon, <3>1, <4>1 DEF TypeOK
    <3>4. QED
      BY Zenon, <2>4, <3>2, <3>3 DEF RequestVote
  <2>5. ASSUME NEW r \in rvReplies, VoteReplyNewTerm(r)
        PROVE  \A j \in Server : role'[j] = "Leader" => role[j] = "Leader"
    <3>1. r.to \in Server
      BY Zenon DEF TypeOK, RequestVoteReply
    <3>2. QED
      BY Zenon, <2>5, <3>1 DEF VoteReplyNewTerm, StepDown, TypeOK
  <2>6. QED
    BY Zenon, <2>2, <2>3, <2>4, <2>5 DEF Elect
<1> SUFFICES ASSUME NEW H, NEW T, NEW A, LogInv(H, T), CommitInv(H, T, A), ElectionInv, TypeOK', RolesStep, Elect
             PROVE  Advances(H, T, A)
  BY Zenon DEF Ready
<1>1. TypeOK /\ VotesRemembered
  BY Zenon DEF ElectionInv, DiskInv
<1>2. \A j \in Server : Keeps(j)
  BY Zenon, <1>1, <1>ElectKeeps, KeptIsKept
<1>3. CASE \A j \in Server : role'[j] = "Leader" => role[j] = "Leader"
  BY Zenon, <1>1, <1>2, <1>3, <1>ElectLog, <1>ElectCommit DEF Advances
<1>4. ASSUME NEW r \in rvReplies, CountVote(r), IsMajority(Tally(r.to, r.reqTerm) \cup {r.from})
      PROVE  Advances(H, T, A)
  <2>1. PICK t : t = currentTerm[r.to]
    BY Zenon
  <2>2. PICK H2 : H2 = [H EXCEPT ![t] = SubSeq(H[LastLogTerm(r.to)], 1, LastLogIndex(r.to))]
    BY Zenon
  <2>3. Wins(r.to, t, H, T, H2)
    BY Zenon, <1>4, <2>1, <2>2, <1>WinLog
  <2>4. \E A2 : CommitStep(H, T, A, H2, T \cup {t}, A2)
    BY Zenon, <1>1, <1>2, <1>4, <2>1, <2>3, <1>WinCommit
  <2>5. QED
    BY Zenon, <2>3, <2>4 DEF Wins, Advances
<1>5. QED
  BY Zenon, <1>1, <1>3, <1>4, <1>ElectKinds

-----------------------------------------------------------------------------
(* Replies to the leader *)

\* Leader i changes what it believes of peer p.
Believes(i, p) ==
  /\ \A k \in Server : k # i => matchIndex'[k] = matchIndex[k] /\ nextIndex'[k] = nextIndex[k]
  /\ \A j \in Server : j # p => matchIndex'[i][j] = matchIndex[i][j] /\ nextIndex'[i][j] = nextIndex[i][j]

\* A reply that reaches the leader it is for.
ReplyTypes(r) ==
  /\ r.from \in Server /\ r.to \in Server
  /\ matchIndex \in [Server -> [Server -> Nat]] /\ nextIndex \in [Server -> [Server -> Nat]]

\* The leader's handling of the replies, up to updateCommitIndex.
LEMMA ReplyAdvances ==
  \A H, T, A :
    /\ Ready(H, T, A)
    /\ \/ \E r \in aeReplies : LeaderReplyNewTerm(r) \/ AppendSucceeded(r) \/ AppendRefused(r)
       \/ \E r \in isReplies : LeaderReplyNewTerm(r) \/ SnapshotInstalled(r)
    => Advances(H, T, A)
<1>ReplyLog. ASSUME NEW H, NEW T, LogInv(H, T), TypeOK, NEW r \in aeReplies \cup isReplies,
             LeaderReplyNewTerm(r)
      PROVE  LogStep(H, T, H, T)
  <2> USE <1>ReplyLog
  <2>1. r.to \in Server
    BY Zenon DEF TypeOK, AppendEntriesReply, InstallSnapshotReply
  <2>2. /\ Persist(r.to) /\ UNCHANGED logVars
        /\ aeArgs' = aeArgs /\ isArgs' = isArgs /\ aeReplies' = aeReplies
    BY Zenon DEF LeaderReplyNewTerm, StepDown, aeNet, isNet
  <2>3. \A j \in Server : Keeps(j)
    BY Zenon, <2>1, <2>2, PersistKeeps, KeptIsKept
  <2>4. QED
    BY Zenon, <2>2, <2>3, ReplyRoles, QuietLog DEF NoPromotion
<1>NewTermCommit. ASSUME NEW H, NEW T, NEW A, LogInv(H, T), CommitInv(H, T, A), TypeOK,
             NEW r \in aeReplies \cup isReplies, LeaderReplyNewTerm(r)
      PROVE  CommitStep(H, T, A, H, T, A)
  <2> USE <1>NewTermCommit
  <2>1. /\ UNCHANGED <<votes, logVars, applyVars, leaderVars>> /\ rvReplies' = rvReplies /\ rvArgs' = rvArgs
        /\ aeArgs' = aeArgs /\ isArgs' = isArgs /\ isReplies' = isReplies /\ aeReplies' = aeReplies
    BY Zenon DEF LeaderReplyNewTerm, StepDown, rvNet, aeNet, isNet
  <2>2. NoPromotion
    BY Zenon, ReplyRoles
  <2>3. SameBut(H, T, A)
    BY Zenon, <2>1, <2>2, RestSame DEF NoPromotion
  <2>4. AcksStep(H, T, A, H, T, A)
    BY Zenon, SameAcks DEF LogInv, CommitInv
  <2>5. QED
    BY ZenonT(30), <2>1, <2>3, <2>4, SameCalls, SameAnswers DEF CommitStep, SameBut
<1>OneBelief. ASSUME NEW H, NEW T, NEW A, CommitInv(H, T, A), NEW i \in Server, role[i] = "Leader", NEW p \in Server,
             UNCHANGED <<electionVars, logVars>>, Believes(i, p),
             p # i => /\ matchIndex'[i][p] <= A[p][currentTerm[i]]
                      /\ nextIndex'[i][p] \in 1..Len(H[currentTerm[i]]) + 1
      PROVE  LeaderFits(i, H, A)' /\ LeadersStep(H, A)
  <2> USE <1>OneBelief
  <2>1. currentTerm' = currentTerm /\ role' = role /\ \A j \in Server : LastLogIndex(j)' = LastLogIndex(j)
    BY Zenon DEF electionVars, logVars, LastLogIndex
  <2>2. LeaderFits(i, H, A)
    BY Zenon DEF CommitInv
  <2>3. ASSUME NEW j \in Server \ {i}
        PROVE  matchIndex'[i][j] <= A[j][currentTerm[i]] /\ nextIndex'[i][j] \in 1..Len(H[currentTerm[i]]) + 1
    <3>1. CASE j = p
      BY Zenon, <3>1
    <3>2. CASE j # p
      <4>1. matchIndex'[i][j] = matchIndex[i][j] /\ nextIndex'[i][j] = nextIndex[i][j]
        BY Zenon, <3>2 DEF Believes
      <4>2. matchIndex[i][j] <= A[j][currentTerm[i]] /\ nextIndex[i][j] \in 1..Len(H[currentTerm[i]]) + 1
        BY Zenon, <2>2 DEF LeaderFits
      <4>3. QED
        BY Zenon, <4>1, <4>2
    <3>3. QED
      BY Zenon, <3>1, <3>2
  <2>4. LastLogIndex(i)' <= A[i][currentTerm'[i]]
    BY Zenon, <2>1, <2>2 DEF LeaderFits
  <2>5. LeaderFits(i, H, A)'
    BY Zenon, <2>1, <2>3, <2>4 DEF LeaderFits
  <2>6. ASSUME NEW j \in Server, role'[j] = "Leader", j # i PROVE LeaderKeeps(j)
    BY Zenon, <2>1, <2>6 DEF LeaderKeeps, Believes
  <2>7. QED
    BY Zenon, <2>5, <2>6 DEF LeadersStep
<1>ReplyTyped. ASSUME TypeOK, NEW r \in aeReplies \cup isReplies
      PROVE  ReplyTypes(r)
  <2> USE <1>ReplyTyped
  <2>1. r.from \in Server /\ r.to \in Server
    BY Zenon DEF TypeOK, AppendEntriesReply, InstallSnapshotReply
  <2>2. QED
    BY Zenon, <2>1 DEF TypeOK, ReplyTypes
<1>RefusalCommit. ASSUME NEW H, NEW T, NEW A, LogInv(H, T), CommitInv(H, T, A), TypeOK, NEW r \in aeReplies, AppendRefused(r)
      PROVE  CommitStep(H, T, A, H, T, A)
  <2> USE <1>RefusalCommit
  <2>1. ReplyTypes(r)
    BY Zenon, <1>ReplyTyped
  <2>2. PICK i \in Server : i = r.to
    BY Zenon, <2>1 DEF ReplyTypes
  <2>3. PICK p \in Server : p = r.from
    BY Zenon, <2>1 DEF ReplyTypes
  <2>4. PICK next \in BackupIndex(i, r) : nextIndex' = [nextIndex EXCEPT ![i][p] = next]
    BY Zenon, <2>2, <2>3 DEF AppendRefused
  <2>5. /\ role[i] = "Leader" /\ currentTerm[i] = r.reqTerm /\ r.term <= r.reqTerm /\ ~r.success
        /\ UNCHANGED <<electionVars, logVars, applyVars, matchIndex, rvNet, aeNet, isNet>>
    BY Zenon, <2>2 DEF AppendRefused
  <2>6. PICK t \in T : t = currentTerm[i]
    BY Zenon, <2>5 DEF LogInv, LeaderFollows
  <2>7. Len(H[t]) \in Nat
    BY ZenonT(30), HistoryType DEF LogInv
  <2>8. next \in 1..Len(H[t]) + 1
    <3>1. r.conflictIndex \in 1..Len(H[t]) + 1
      BY Zenon, <2>5, <2>6 DEF CommitInv, AppendAnswers
    <3>2. LastLogIndex(i) = Len(H[t])
      BY Zenon, <2>5, <2>6 DEF LogInv, LeaderFollows
    <3>3. lastIncludedIndex[i] \in Nat /\ Len(log[i]) \in Nat /\ LastLogIndex(i) = lastIncludedIndex[i] + Len(log[i])
      BY Zenon, HeldTyped DEF HeldTypes
    <3>4. DOMAIN log[i] = 1..Len(log[i])
      <4>1. log[i] \in Seq(Entry)
        BY Zenon DEF TypeOK
      <4>2. QED
        BY <4>1
    <3>5. next = r.conflictIndex \/ \E k \in DOMAIN log[i] : next = lastIncludedIndex[i] + k + 1
      BY Zenon DEF BackupIndex
    <3>6. QED
      BY ONLY SMTT(30), <2>7, <3>1, <3>2, <3>3, <3>4, <3>5
  <2>9. Believes(i, p) /\ nextIndex'[i][p] = next
    <3>1. nextIndex \in [Server -> [Server -> Nat]] /\ matchIndex' = matchIndex
      BY Zenon, <2>1, <2>5 DEF ReplyTypes
    <3>2. /\ \A k \in Server : k # i => nextIndex'[k] = nextIndex[k]
          /\ \A j \in Server : j # p => nextIndex'[i][j] = nextIndex[i][j]
          /\ nextIndex'[i][p] = next
      BY ONLY SMTT(30), <2>4, <3>1, i \in Server, p \in Server
    <3>3. QED
      BY Zenon, <3>1, <3>2 DEF Believes
  <2>10. p # i => matchIndex'[i][p] <= A[p][t]
    BY Zenon, <2>5, <2>6 DEF CommitInv, LeaderFits
  <2>11. LeadersStep(H, A)
    BY ZenonT(30), <2>5, <2>6, <2>8, <2>9, <2>10, <1>OneBelief
  <2>12. VotesStep(H, T, A)
    BY Zenon, <2>5, SameVotes DEF electionVars, rvNet
  <2>13. CommitsStep(H, T, A)
    BY Zenon, <2>5, SameCommits DEF applyVars, logVars
  <2>14. CallsStep(H, T, A) /\ AnswersStep(H, T, A)
    BY Zenon, <2>5, SameCalls, SameAnswers DEF aeNet, isNet
  <2>15. AcksStep(H, T, A, H, T, A)
    BY Zenon, SameAcks DEF LogInv, CommitInv
  <2>16. QED
    BY ZenonT(30), <2>11, <2>12, <2>13, <2>14, <2>15 DEF CommitStep
\* Leader i hears that peer p holds its log up to n.
<1>MatchBelief. ASSUME NEW H, NEW T, NEW A, LogInv(H, T), CommitInv(H, T, A), TypeOK, NEW i \in Server, role[i] = "Leader",
             NEW p \in Server, NEW n \in Nat, p # i => n <= A[p][currentTerm[i]], UNCHANGED <<electionVars, logVars>>,
             matchIndex' = [matchIndex EXCEPT ![i][p] = n], nextIndex' = [nextIndex EXCEPT ![i][p] = n + 1]
      PROVE  LeaderFits(i, H, A)' /\ LeadersStep(H, A)
  <2> USE <1>MatchBelief
  <2>1. PICK t \in T : t = currentTerm[i]
    BY Zenon DEF LogInv, LeaderFollows
  <2>2. Histories(H, T)
    BY Zenon DEF LogInv
  <2>3. Len(H[t]) \in Nat
    BY Zenon, <2>2, HistoryType
  <2>4. A[p][t] \in Nat /\ A[p][t] <= Len(H[t])
    BY Zenon, <2>2, AckedReach
  <2>5. p # i => n + 1 \in 1..Len(H[t]) + 1
    BY ONLY SMTT(30), n \in Nat, p # i => n <= A[p][currentTerm[i]], <2>1, <2>3, <2>4
  <2>6. matchIndex \in [Server -> [Server -> Nat]] /\ nextIndex \in [Server -> [Server -> Nat]]
    BY Zenon DEF TypeOK
  <2>7. /\ \A k \in Server : k # i => matchIndex'[k] = matchIndex[k]
        /\ \A j \in Server : j # p => matchIndex'[i][j] = matchIndex[i][j]
        /\ matchIndex'[i][p] = n
    BY ONLY SMTT(30), <2>6, i \in Server, p \in Server, matchIndex' = [matchIndex EXCEPT ![i][p] = n]
  <2>8. /\ \A k \in Server : k # i => nextIndex'[k] = nextIndex[k]
        /\ \A j \in Server : j # p => nextIndex'[i][j] = nextIndex[i][j]
        /\ nextIndex'[i][p] = n + 1
    BY ONLY SMTT(30), <2>6, i \in Server, p \in Server, nextIndex' = [nextIndex EXCEPT ![i][p] = n + 1]
  <2>9. Believes(i, p)
    BY Zenon, <2>7, <2>8 DEF Believes
  <2>10. p # i => matchIndex'[i][p] <= A[p][t] /\ nextIndex'[i][p] \in 1..Len(H[t]) + 1
    BY Zenon, <2>1, <2>5, <2>7, <2>8
  <2>11. QED
    BY Zenon, <2>1, <2>9, <2>10, <1>OneBelief
<1>InstalledCommit. ASSUME NEW H, NEW T, NEW A, LogInv(H, T), CommitInv(H, T, A), TypeOK, NEW r \in isReplies, SnapshotInstalled(r)
      PROVE  CommitStep(H, T, A, H, T, A)
  <2> USE <1>InstalledCommit
  <2>1. ReplyTypes(r) /\ r.lastIncludedIndex \in Nat
    BY Zenon, <1>ReplyTyped DEF TypeOK, InstallSnapshotReply
  <2>2. PICK i \in Server : i = r.to
    BY Zenon, <2>1 DEF ReplyTypes
  <2>3. PICK p \in Server : p = r.from
    BY Zenon, <2>1 DEF ReplyTypes
  <2>4. PICK n : n = IF matchIndex[i][p] < r.lastIncludedIndex THEN r.lastIncludedIndex ELSE matchIndex[i][p]
    BY Zenon
  <2>5. /\ role[i] = "Leader" /\ currentTerm[i] = r.reqTerm /\ r.term <= r.reqTerm
        /\ matchIndex' = [matchIndex EXCEPT ![i][p] = n] /\ nextIndex' = [nextIndex EXCEPT ![i][p] = n + 1]
        /\ UNCHANGED <<electionVars, logVars, applyVars, rvNet, aeNet, isNet>>
    BY Zenon, <2>2, <2>3, <2>4 DEF SnapshotInstalled
  <2>6. n \in Nat
    <3>1. matchIndex[i][p] \in Nat
      BY Zenon, <2>1 DEF ReplyTypes
    <3>2. QED
      BY Zenon, <2>1, <2>4, <3>1
  <2>7. p # i => n <= A[p][currentTerm[i]]
    <3>1. r.lastIncludedIndex <= A[p][currentTerm[i]]
      BY Zenon, <2>3, <2>5 DEF CommitInv, SnapshotAnswers
    <3>2. p # i => matchIndex[i][p] <= A[p][currentTerm[i]]
      BY Zenon, <2>5 DEF CommitInv, LeaderFits
    <3>3. QED
      BY Zenon, <2>4, <3>1, <3>2
  <2>8. LeadersStep(H, A)
    BY Zenon, <2>5, <2>6, <2>7, <1>MatchBelief
  <2>12. VotesStep(H, T, A)
    BY Zenon, <2>5, SameVotes DEF electionVars, rvNet
  <2>13. CommitsStep(H, T, A)
    BY Zenon, <2>5, SameCommits DEF applyVars, logVars
  <2>14. CallsStep(H, T, A) /\ AnswersStep(H, T, A)
    BY Zenon, <2>5, SameCalls, SameAnswers DEF aeNet, isNet
  <2>15. AcksStep(H, T, A, H, T, A)
    BY Zenon, SameAcks DEF LogInv, CommitInv
  <2>16. QED
    BY Zenon, <2>8, <2>12, <2>13, <2>14, <2>15 DEF CommitStep
\* updateCommitIndex finds an entry of the leader's term that a majority acknowledged.
<1>CountedIsChosen. ASSUME NEW H, NEW T, NEW A, LogInv(H, T), CommitInv(H, T, A), TypeOK, NEW i \in Server, role[i] = "Leader",
             UNCHANGED <<electionVars, logVars>>, matchIndex' \in [Server -> [Server -> Nat]], LeaderFits(i, H, A)',
             NEW N \in commitIndex[i] + 1 .. LastLogIndex(i), CurrentTermFrom(i, N),
             IsMajority({i} \cup {j \in Server \ {i} : matchIndex'[i][j] >= N})
      PROVE  Chosen(H, A, currentTerm[i], N)
  <2> USE <1>CountedIsChosen
  <2>1. PICK t \in T : t = currentTerm[i]
    BY Zenon DEF LogInv, LeaderFollows
  <2>2. PICK l \in Nat : l = LastLogIndex(i)
    BY Zenon, HeldTyped DEF HeldTypes
  <2>3. HeldTypes(i) /\ Follows(i, H[t]) /\ l = Len(H[t])
    BY Zenon, <2>1, <2>2, HeldTyped DEF LogInv, LeaderFollows
  <2>4. commitIndex[i] \in Nat /\ lastApplied[i] \in Nat /\ lastIncludedIndex[i] \in Nat
    BY Zenon DEF TypeOK
  <2>5. lastIncludedIndex[i] <= lastApplied[i] /\ lastApplied[i] <= commitIndex[i]
    BY Zenon DEF CommitInv, ApplyFits
  <2>6. N \in Nat /\ N # 0 /\ N \in 1..l /\ N \in lastIncludedIndex[i]..l /\ N \in N..l /\ N <= l
    BY ONLY SMTT(30), N \in commitIndex[i] + 1 .. LastLogIndex(i), <2>2, <2>4, <2>5
  <2>7. InLog(i, N) /\ TermAt(i, N) = t
    BY Zenon, <2>1, <2>2, <2>6 DEF InLog, CurrentTermFrom
  <2>8. TermOf(H[t], N) = t
    BY Zenon, <2>3, <2>7, FollowsTerm
  <2>9. Own(H, t, N)
    BY Zenon, <2>3, <2>6, <2>8 DEF Own, TermOf
  <2>10. PICK Q : Q = {i} \cup {j \in Server \ {i} : matchIndex'[i][j] >= N}
    BY Zenon
  <2>11. Q \in SUBSET Server
    BY Zenon, <2>10
  <2>12. currentTerm'[i] = t /\ LastLogIndex(i)' = l
    BY Zenon, <2>1, <2>2 DEF electionVars, logVars, LastLogIndex
  <2>13. ASSUME NEW j \in Q PROVE N <= A[j][t]
    <3>1. j \in Server /\ A[j][t] \in Nat
      BY Zenon, <2>11, AckedReach DEF LogInv
    <3>2. CASE j = i
      <4>1. l <= A[j][t]
        BY ZenonT(30), <2>12, <3>2 DEF LeaderFits
      <4>2. QED
        BY Zenon, <2>6, <3>1, <4>1, AtMost
    <3>3. CASE j # i
      <4>1. matchIndex'[i][j] <= A[j][t]
        BY Zenon, <2>12, <3>1, <3>3 DEF LeaderFits
      <4>2. matchIndex'[i][j] >= N /\ matchIndex'[i][j] \in Nat
        BY Zenon, <2>10, <3>1, <3>3
      <4>3. QED
        BY ONLY SMTT(30), <2>6, <3>1, <4>1, <4>2
    <3>4. QED
      BY Zenon, <3>2, <3>3
  <2>14. QED
    BY ZenonT(30), <2>1, <2>9, <2>10, <2>11, <2>13 DEF Chosen
<1>UpdateCommit. ASSUME NEW H, NEW T, NEW A, LogInv(H, T), CommitInv(H, T, A), TypeOK, NEW i \in Server, role[i] = "Leader",
             UNCHANGED <<electionVars, logVars, lastApplied>>, matchIndex' \in [Server -> [Server -> Nat]],
             LeaderFits(i, H, A)', UpdateCommitIndex(i)
      PROVE  CommitsStep(H, T, A)
  <2> USE <1>UpdateCommit
  <2>1. CASE UNCHANGED commitIndex
    BY Zenon, <2>1, SameCommits DEF logVars
  <2>2. CASE ~(UNCHANGED commitIndex)
    <3>1. PICK N \in {N \in commitIndex[i] + 1 .. LastLogIndex(i) :
                        CurrentTermFrom(i, N) /\ IsMajority({i} \cup {j \in Server \ {i} : matchIndex'[i][j] >= N})} :
            commitIndex' = [commitIndex EXCEPT ![i] = N]
      BY Zenon, <2>2 DEF UpdateCommitIndex
    <3>2. N \in commitIndex[i] + 1 .. LastLogIndex(i)
      BY Zenon, <3>1
    <3>3. Chosen(H, A, currentTerm[i], N)
      BY Zenon, <3>1, <1>CountedIsChosen
    <3>4. PICK t \in T : t = currentTerm[i]
      BY Zenon DEF LogInv, LeaderFollows
    <3>5. PICK l \in Nat : l = LastLogIndex(i)
      BY Zenon, HeldTyped DEF HeldTypes
    <3>6. commitIndex \in [Server -> Nat] /\ commitIndex[i] \in Nat /\ lastApplied[i] \in Nat
      BY Zenon DEF TypeOK
    <3>7. N \in Nat /\ N <= N /\ N <= l /\ commitIndex[i] <= N
      BY ONLY SMTT(30), <3>2, <3>5, <3>6
    <3>8. PICK w \in T : w = LastLogTerm(i)
      BY Zenon DEF LogInv, PeerFollows
    <3>9. Histories(H, T) /\ AgreeUpTo(H[t], H[w], l)
      <4>1. Histories(H, T) /\ Follows(i, H[t])
        BY Zenon, <3>4 DEF LogInv, LeaderFollows
      <4>2. FollowsToLast(i, H, T, t)
        BY Zenon, <4>1, HeldTyped, FollowsLast
      <4>3. QED
        BY Zenon, <3>5, <3>8, <4>1, <4>2 DEF FollowsToLast
    <3>10. Len(H[t]) \in Nat /\ t \in Nat
      BY Zenon, <3>9, HistoryType
    <3>11. Len(H[w]) \in Nat
      BY Zenon, <3>9, HistoryType
    <3>12. AgreeUpTo(H[w], H[t], N) /\ t <= t
      <4>1. t <= t
        BY ONLY <3>10
      <4>2. AgreeUpTo(H[w], H[t], N)
        BY ZenonT(30), <3>7, <3>9, <3>10, <3>11, AgreeShorter
      <4>3. QED
        BY ZenonT(30), <4>1, <4>2
    <3>13. Committed(N, t, H[w], H, T, A)
      BY Zenon, <3>3, <3>4, <3>7, <3>12 DEF Committed
    <3>14. commitIndex'[i] = N /\ \A j \in Server : j # i => commitIndex'[j] = commitIndex[j]
      BY Zenon, <3>1, <3>6
    <3>15. LastLogIndex(i)' = l /\ LastLogTerm(i)' = w /\ currentTerm'[i] = t
      BY ZenonT(30), <3>4, <3>5, <3>8 DEF LastLogIndex, LastLogTerm, TermAt, logVars, electionVars
    <3>16. CommitFits(i, H, T, A)'
      BY ZenonT(30), <3>7, <3>13, <3>14, <3>15 DEF CommitFits, KnownCommitted
    <3>17. ASSUME NEW j \in Server PROVE ApplyFits(j)'
      <4>1. lastIncludedIndex[j] <= lastApplied[j] /\ lastApplied[j] <= commitIndex[j]
        BY Zenon DEF CommitInv, ApplyFits
      <4>2. CASE j = i
        <5>1. lastApplied[i] <= N
          BY ZenonT(30), <3>6, <3>7, <4>1, <4>2, AtMost
        <5>2. QED
          BY Zenon, <3>14, <4>1, <4>2, <5>1 DEF ApplyFits, logVars
      <4>3. CASE j # i
        BY Zenon, <3>14, <4>1, <4>3 DEF ApplyFits, logVars
      <4>4. QED
        BY Zenon, <4>2, <4>3
    <3>18. QED
      BY Zenon, <3>14, <3>16, <3>17 DEF CommitsStep
  <2>3. QED
    BY Zenon, <2>1, <2>2
<1>SuccessCommit. ASSUME NEW H, NEW T, NEW A, LogInv(H, T), CommitInv(H, T, A), TypeOK, TypeOK',
             NEW r \in aeReplies, AppendSucceeded(r)
      PROVE  CommitStep(H, T, A, H, T, A)
  <2> USE <1>SuccessCommit
  <2>1. ReplyTypes(r) /\ r.prevLogIndex \in Nat /\ r.count \in Nat
    BY Zenon, <1>ReplyTyped DEF TypeOK, AppendEntriesReply
  <2>2. PICK i \in Server : i = r.to
    BY Zenon, <2>1 DEF ReplyTypes
  <2>3. PICK p \in Server : p = r.from
    BY Zenon, <2>1 DEF ReplyTypes
  <2>4. PICK n \in Nat : n = r.prevLogIndex + r.count
    BY <2>1
  <2>5. /\ role[i] = "Leader" /\ currentTerm[i] = r.reqTerm /\ r.success
        /\ matchIndex' = [matchIndex EXCEPT ![i][p] = n] /\ nextIndex' = [nextIndex EXCEPT ![i][p] = n + 1]
        /\ UpdateCommitIndex(i) /\ UNCHANGED <<electionVars, logVars, lastApplied, rvNet, aeNet, isNet>>
    BY Zenon, <2>2, <2>3, <2>4 DEF AppendSucceeded, Matched
  <2>6. n <= A[p][currentTerm[i]]
    BY Zenon, <2>3, <2>4, <2>5 DEF CommitInv, AppendAnswers
  <2>7. LeaderFits(i, H, A)' /\ LeadersStep(H, A)
    BY Zenon, <2>5, <2>6, <1>MatchBelief
  <2>8. CommitsStep(H, T, A)
    <3>1. matchIndex' \in [Server -> [Server -> Nat]]
      BY Zenon DEF TypeOK
    <3>2. QED
      BY Zenon, <2>5, <2>7, <3>1, <1>UpdateCommit
  <2>12. VotesStep(H, T, A)
    BY Zenon, <2>5, SameVotes DEF electionVars, rvNet
  <2>14. CallsStep(H, T, A) /\ AnswersStep(H, T, A)
    BY Zenon, <2>5, SameCalls, SameAnswers DEF aeNet, isNet
  <2>15. AcksStep(H, T, A, H, T, A)
    BY Zenon, SameAcks DEF LogInv, CommitInv
  <2>16. QED
    BY ZenonT(30), <2>7, <2>8, <2>12, <2>14, <2>15 DEF CommitStep
<1> SUFFICES ASSUME NEW H, NEW T, NEW A, LogInv(H, T), CommitInv(H, T, A), ElectionInv, TypeOK', RolesStep,
                    \/ \E r \in aeReplies : LeaderReplyNewTerm(r) \/ AppendSucceeded(r) \/ AppendRefused(r)
                    \/ \E r \in isReplies : LeaderReplyNewTerm(r) \/ SnapshotInstalled(r)
             PROVE  Advances(H, T, A)
  BY Zenon DEF Ready
<1>0. TypeOK /\ DiskInv /\ Majorities
  BY Zenon DEF ElectionInv, DiskInv
<1>1. ASSUME NEW r \in aeReplies \cup isReplies, LeaderReplyNewTerm(r) PROVE Advances(H, T, A)
  BY Zenon, <1>0, <1>1, <1>ReplyLog, <1>NewTermCommit DEF Advances
<1>2. ASSUME NEW r \in aeReplies, AppendSucceeded(r) PROVE Advances(H, T, A)
  <2>1. LogStep(H, T, H, T)
    BY Zenon, <1>2, LocalLog DEF AppendSucceeded
  <2>2. QED
    BY Zenon, <1>0, <1>2, <2>1, <1>SuccessCommit DEF Advances
<1>3. ASSUME NEW r \in aeReplies, AppendRefused(r) PROVE Advances(H, T, A)
  <2>1. LogStep(H, T, H, T)
    BY Zenon, <1>3, LocalLog DEF AppendRefused
  <2>2. QED
    BY Zenon, <1>0, <1>3, <2>1, <1>RefusalCommit DEF Advances
<1>4. ASSUME NEW r \in isReplies, SnapshotInstalled(r) PROVE Advances(H, T, A)
  <2>1. LogStep(H, T, H, T)
    BY Zenon, <1>4, LocalLog DEF SnapshotInstalled
  <2>2. QED
    BY Zenon, <1>0, <1>4, <2>1, <1>InstalledCommit DEF Advances
<1>5. QED
  BY Zenon, <1>1, <1>2, <1>3, <1>4

-----------------------------------------------------------------------------
(* Calls of the leader *)

\* sendAppendEntries and sendInstallSnapshot: what the leader sends is of its log, and
\* what it says is committed is.
LEMMA SendAdvances ==
  \A H, T, A :
    Ready(H, T, A) /\ (\E i, j \in Server : SendAppendEntries(i, j) \/ SendInstallSnapshot(i, j)) =>
      Advances(H, T, A)
\* The entries from index next on are those of s there.
<1>CarriesSuffix. ASSUME NEW base \in Nat, NEW bterm, NEW entries \in Seq(Entry), NEW snapshot,
             NEW s, Holds(base, bterm, entries, snapshot, s),
             NEW next \in Nat, base < next, next - 1 <= base + Len(entries)
      PROVE  Carries(next - 1, SubSeq(entries, next - base, Len(entries)), s)
  <2> USE <1>CarriesSuffix
  <2> DEFINE d == next - 1 - base
             es == SubSeq(entries, d + 1, Len(entries))
  <2>1. Len(entries) \in Nat
    BY Zenon, LenType
  <2>2. d \in 0..Len(entries) /\ d + 1 = next - base /\ d \in Nat
    BY <2>1
  <2>3. base + Len(entries) <= Len(s) /\ \A k \in 1..Len(entries) : entries[k] = s[base + k]
    BY Zenon DEF Holds, Carries
  <2>4. Len(es) = Len(entries) - d /\ \A k \in 1..Len(entries) - d : es[k] = entries[d + k]
    BY Zenon, <2>2, Suffixes
  <2> HIDE DEF es
  <2>5. next - 1 + Len(es) <= Len(s)
    <3>1. next - 1 + Len(es) = base + Len(entries)
      BY <2>1, <2>4
    <3>2. QED
      BY Zenon, <2>3, <3>1
  <2>6. ASSUME NEW k \in 1..Len(es) PROVE es[k] = s[next - 1 + k]
    <3>1. k \in 1..Len(entries) - d
      BY Zenon, <2>4
    <3>2. d + k \in 1..Len(entries) /\ base + (d + k) = next - 1 + k
      BY <2>1, <2>2, <3>1
    <3>3. QED
      BY Zenon, <2>3, <2>4, <3>1, <3>2
  <2>7. Carries(next - 1, es, s)
    BY Zenon, <2>5, <2>6 DEF Carries
  <2>8. QED
    BY Zenon, <2>2, <2>7 DEF es
<1>SendAppendLog. ASSUME NEW H, NEW T, LogInv(H, T), TypeOK, NEW i \in Server, NEW j \in Server,
             SendAppendEntries(i, j)
      PROVE  LogStep(H, T, H, T)
  <2> USE <1>SendAppendLog
  <2> DEFINE next == nextIndex[i][j]
             t == currentTerm[i]
             m == [from |-> i, to |-> j, term |-> t,
                   prevLogIndex |-> next - 1, prevLogTerm |-> TermAt(i, next - 1),
                   entries |-> EntriesFrom(i, next), leaderCommit |-> commitIndex[i]]
  <2>1. /\ role[i] = "Leader" /\ j # i /\ next > lastIncludedIndex[i] /\ InLog(i, next - 1)
        /\ aeArgs' = aeArgs \cup {m} /\ isArgs' = isArgs /\ aeReplies' = aeReplies
        /\ UNCHANGED <<electionVars, logVars, persister>>
    BY Zenon DEF SendAppendEntries, isNet
  <2>2. next \in Nat /\ HeldTypes(i)
    BY Zenon, HeldTyped DEF TypeOK
  <2>3. t \in T /\ Follows(i, H[t])
    BY Zenon, <2>1 DEF LogInv, LeaderFollows
  <2>4. lastIncludedIndex[i] < next /\ next - 1 <= lastIncludedIndex[i] + Len(log[i])
    BY <2>1, <2>2 DEF InLog, LastLogIndex, HeldTypes
  <2>5. Carries(next - 1, EntriesFrom(i, next), H[t])
    BY Zenon, <2>2, <2>3, <2>4, <1>CarriesSuffix DEF Follows, HeldTypes, EntriesFrom
  <2>6. TermAt(i, next - 1) = TermOf(H[t], next - 1)
    BY Zenon, <2>1, <2>2, <2>3, FollowsTerm
  <2>7. AppendFollows(m, H, T)
    <3>1. /\ m.from = i /\ m.to = j /\ m.term = t /\ m.prevLogIndex = next - 1
          /\ m.entries = EntriesFrom(i, next) /\ m.prevLogTerm = TermAt(i, next - 1)
      BY Zenon
    <3> HIDE DEF m, t, next
    <3>2. QED
      BY Zenon, <2>1, <2>3, <2>5, <2>6, <3>1 DEF AppendFollows
  <2> HIDE DEF m
  <2>8. QED
    BY Zenon, <2>1, <2>7, NothingLogged, QuietLog
<1>SendSnapshotLog. ASSUME NEW H, NEW T, LogInv(H, T), TypeOK, NEW i \in Server, NEW j \in Server,
             SendInstallSnapshot(i, j)
      PROVE  LogStep(H, T, H, T)
  <2> USE <1>SendSnapshotLog
  <2> DEFINE t == currentTerm[i]
             m == [from |-> i, to |-> j, term |-> t,
                   lastIncludedIndex |-> lastIncludedIndex[i],
                   lastIncludedTerm |-> lastIncludedTerm[i],
                   data |-> persister[i].snapshot]
  <2>1. /\ role[i] = "Leader" /\ j # i
        /\ isArgs' = isArgs \cup {m} /\ aeArgs' = aeArgs /\ aeReplies' = aeReplies
        /\ UNCHANGED <<electionVars, logVars, persister>>
    BY Zenon DEF SendInstallSnapshot, aeNet
  <2>2. HeldTypes(i)
    BY Zenon, HeldTyped
  <2>3. t \in T /\ Follows(i, H[t]) /\ LastLogIndex(i) = Len(H[t])
    BY Zenon, <2>1 DEF LogInv, LeaderFollows
  <2>4. lastIncludedIndex[i] <= LastLogIndex(i)
    BY <2>2 DEF HeldTypes
  <2>5. SnapshotFollows(m, H, T)
    <3>1. /\ m.from = i /\ m.to = j /\ m.term = t /\ m.lastIncludedIndex = lastIncludedIndex[i]
          /\ m.lastIncludedTerm = lastIncludedTerm[i] /\ m.data = persister[i].snapshot
      BY Zenon
    <3> HIDE DEF m, t
    <3>2. QED
      BY Zenon, <2>1, <2>3, <2>4, <3>1 DEF SnapshotFollows, Follows, Holds
  <2> HIDE DEF m
  <2>6. QED
    BY Zenon, <2>1, <2>5, NothingLogged, QuietLog
<1>LeaderCommitted. ASSUME NEW H, NEW T, NEW A, LogInv(H, T), CommitInv(H, T, A), TypeOK, NEW i \in Server,
             role[i] = "Leader", NEW n \in Nat, n <= commitIndex[i]
      PROVE  Committed(n, currentTerm[i], H[currentTerm[i]], H, T, A)
  <2> USE <1>LeaderCommitted
  <2>1. Histories(H, T) /\ currentTerm[i] \in T /\ Follows(i, H[currentTerm[i]])
    BY Zenon DEF LogInv, LeaderFollows
  <2>2. FollowsToLast(i, H, T, currentTerm[i])
    BY Zenon, <2>1, HeldTyped, FollowsLast
  <2>3. PICK l \in Nat : l = LastLogIndex(i)
    BY Zenon, HeldTyped DEF HeldTypes
  <2>4. LastLogTerm(i) \in T /\ AgreeUpTo(H[currentTerm[i]], H[LastLogTerm(i)], l)
    BY Zenon, <2>2, <2>3 DEF FollowsToLast
  <2>5. Len(H[currentTerm[i]]) \in Nat
    BY Zenon, <2>1, HistoryType
  <2>6. Len(H[LastLogTerm(i)]) \in Nat
    BY Zenon, <2>1, <2>4, HistoryType
  <2>7. commitIndex[i] \in Nat /\ commitIndex[i] <= l
    BY Zenon, <2>3 DEF CommitInv, CommitFits, KnownCommitted, TypeOK
  <2>8. n <= l
    BY Zenon, <2>7, AtMost
  <2>9. AgreeUpTo(H[currentTerm[i]], H[LastLogTerm(i)], n)
    BY Zenon, <2>4, <2>5, <2>6, <2>8, AgreeShorter
  <2>10. currentTerm[i] \in Nat
    BY Zenon DEF TypeOK
  <2>11. currentTerm[i] <= currentTerm[i]
    BY ONLY <2>10
  <2>12. QED
    BY Zenon, <2>9, <2>10, <2>11, CommittedHere
<1>SendAppendCommit. ASSUME NEW H, NEW T, NEW A, LogInv(H, T), CommitInv(H, T, A), TypeOK, NEW i \in Server, NEW j \in Server,
             SendAppendEntries(i, j)
      PROVE  CommitStep(H, T, A, H, T, A)
  <2> USE <1>SendAppendCommit
  <2>1. /\ role[i] = "Leader" /\ isArgs' = isArgs /\ aeReplies' = aeReplies /\ isReplies' = isReplies
        /\ UNCHANGED <<electionVars, logVars, applyVars, leaderVars>> /\ rvReplies' = rvReplies /\ rvArgs' = rvArgs
    BY Zenon DEF SendAppendEntries, rvNet, isNet
  <2>2. ASSUME NEW m \in aeArgs', m \notin aeArgs
        PROVE  m.leaderCommit = commitIndex[i] /\ m.term = currentTerm[i]
    BY <2>2 DEF SendAppendEntries
  <2>3. commitIndex[i] \in Nat
    BY Zenon DEF TypeOK
  <2>4. commitIndex[i] <= commitIndex[i]
    BY ONLY <2>3
  <2>5. ASSUME NEW m \in aeArgs' PROVE m \in aeArgs \/ AppendCommits(m, H, T, A)
    BY Zenon, <2>1, <2>2, <2>3, <2>4, <1>LeaderCommitted DEF AppendCommits
  <2>6. CallsStep(H, T, A)
    BY Zenon, <2>1, <2>5 DEF CallsStep
  <2>7. AnswersStep(H, T, A)
    BY Zenon, <2>1, SameAnswers
  <2>8. AcksStep(H, T, A, H, T, A) /\ SameBut(H, T, A)
    BY Zenon, <2>1, MailOnly
  <2>9. QED
    BY Zenon, <2>6, <2>7, <2>8 DEF CommitStep, SameBut
<1>SendSnapshotCommit. ASSUME NEW H, NEW T, NEW A, LogInv(H, T), CommitInv(H, T, A), TypeOK, NEW i \in Server, NEW j \in Server,
             SendInstallSnapshot(i, j)
      PROVE  CommitStep(H, T, A, H, T, A)
  <2> USE <1>SendSnapshotCommit
  <2>1. /\ role[i] = "Leader" /\ aeArgs' = aeArgs /\ aeReplies' = aeReplies /\ isReplies' = isReplies
        /\ UNCHANGED <<electionVars, logVars, applyVars, leaderVars>> /\ rvReplies' = rvReplies /\ rvArgs' = rvArgs
    BY Zenon DEF SendInstallSnapshot, rvNet, aeNet
  <2>2. ASSUME NEW m \in isArgs', m \notin isArgs
        PROVE  m.lastIncludedIndex = lastIncludedIndex[i] /\ m.term = currentTerm[i]
    BY <2>2 DEF SendInstallSnapshot
  <2>3. commitIndex[i] \in Nat /\ lastIncludedIndex[i] \in Nat /\ lastApplied[i] \in Nat
    BY Zenon DEF TypeOK
  <2>4. lastIncludedIndex[i] <= commitIndex[i]
    BY Zenon, <2>3, AtMost DEF CommitInv, ApplyFits
  <2>5. ASSUME NEW m \in isArgs' PROVE m \in isArgs \/ SnapshotCommits(m, H, T, A)
    BY Zenon, <2>1, <2>2, <2>3, <2>4, <1>LeaderCommitted DEF SnapshotCommits
  <2>6. CallsStep(H, T, A)
    BY Zenon, <2>1, <2>5 DEF CallsStep
  <2>7. AnswersStep(H, T, A)
    BY Zenon, <2>1, SameAnswers
  <2>8. AcksStep(H, T, A, H, T, A) /\ SameBut(H, T, A)
    BY Zenon, <2>1, MailOnly
  <2>9. QED
    BY Zenon, <2>6, <2>7, <2>8 DEF CommitStep, SameBut
<1> SUFFICES ASSUME NEW H, NEW T, NEW A, LogInv(H, T), CommitInv(H, T, A), ElectionInv, TypeOK',
                    NEW i \in Server, NEW j \in Server, SendAppendEntries(i, j) \/ SendInstallSnapshot(i, j)
             PROVE  Advances(H, T, A)
  BY Zenon DEF Ready
<1>0. TypeOK /\ DiskInv /\ Majorities
  BY Zenon DEF ElectionInv, DiskInv
<1>1. CASE SendAppendEntries(i, j)
  BY Zenon, <1>0, <1>1, <1>SendAppendLog, <1>SendAppendCommit DEF Advances
<1>2. CASE SendInstallSnapshot(i, j)
  BY Zenon, <1>0, <1>2, <1>SendSnapshotLog, <1>SendSnapshotCommit DEF Advances
<1>3. QED
  BY Zenon, <1>1, <1>2

=============================================================================
