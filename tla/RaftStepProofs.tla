--------------------------- MODULE RaftStepProofs ---------------------------
(***************************************************************************)
(* The leaders' logs and what is committed, for every set of peers and of  *)
(* commands: the invariants LogInv and CommitInv, and what a step has to   *)
(* do to keep them (LogPreserved, CommitPreserved).                        *)
(*                                                                         *)
(* Start, crashes and the loss of messages are shown to do it here, the    *)
(* elections and the calls of the leader in RaftLeaderProofs, the handlers *)
(* of these calls and the applier in RaftFollowerProofs.                   *)
(***************************************************************************)
EXTENDS RaftInv, TLAPS

-----------------------------------------------------------------------------
(* Majorities *)

\* What contains a majority is one.
LEMMA MajorityMonotone ==
  ASSUME Majorities, NEW S, NEW T, T \subseteq Server, S \subseteq T, IsMajority(S)
  PROVE  IsMajority(T)
<1>1. S \in SUBSET Server /\ T \in SUBSET Server
  BY Zenon
<1>2. QED
  BY Zenon, <1>1 DEF Majorities

\* Two majorities share a peer.
LEMMA MajoritiesIntersect ==
  ASSUME Majorities, NEW S, NEW T, S \subseteq Server, T \subseteq Server,
         IsMajority(S), IsMajority(T)
  PROVE  \E v \in Server : v \in S /\ v \in T
<1>1. S \in SUBSET Server /\ T \in SUBSET Server
  BY Zenon
<1>2. QED
  BY Zenon, <1>1 DEF Majorities

\* Whoever leads or calls in a term has counted a majority in it, so there is one.
LEMMA ElectionInvSafe ==
  ASSUME ElectionInv
  PROVE  ElectionSafety
\* Two candidates with majorities in the same term share a voter, who voted once.
<1>OneWinner. ASSUME Majorities, VotesUnique, NEW i \in Server, NEW j \in Server, NEW t \in Nat,
             IsMajority(Tally(i, t)), IsMajority(Tally(j, t))
      PROVE  i = j
  <2> USE <1>OneWinner
  <2>1. Tally(i, t) \subseteq Server /\ Tally(j, t) \subseteq Server
    BY Zenon DEF Tally
  <2>2. PICK v \in Server : v \in Tally(i, t) /\ v \in Tally(j, t)
    BY Zenon, <2>1, MajoritiesIntersect
  <2>3. Granted(v, t, i) /\ Granted(v, t, j)
    BY Zenon, <2>2 DEF Tally, Granted
  <2>4. QED
    BY Zenon, <2>3 DEF VotesUnique
<1>1. ASSUME NEW m \in aeArgs \cup isArgs
      PROVE  m.from \in Server /\ m.term \in Nat /\ IsMajority(Tally(m.from, m.term))
  <2>1. IsMajority(Tally(m.from, m.term))
    BY Zenon DEF ElectionInv, CallersElected
  <2>2. m \in AppendEntriesArgs \/ m \in InstallSnapshotArgs
    BY Zenon DEF ElectionInv, DiskInv, TypeOK
  <2>3. QED
    BY Zenon, <2>1, <2>2 DEF AppendEntriesArgs, InstallSnapshotArgs
<1>2. \A i \in Server : currentTerm[i] \in Nat
  BY Zenon DEF ElectionInv, DiskInv, TypeOK
<1>3. \A i \in Server : role[i] = "Leader" => IsMajority(Tally(i, currentTerm[i]))
  BY Zenon DEF ElectionInv, LeadersElected
<1>4. VotesUnique /\ Majorities
  BY Zenon DEF ElectionInv
<1>5. \A i, j \in Server :
        role[i] = "Leader" /\ role[j] = "Leader" /\ currentTerm[i] = currentTerm[j] => i = j
  BY Zenon, <1>2, <1>3, <1>4, <1>OneWinner
<1>6. \A m, n \in aeArgs \cup isArgs : m.term = n.term => m.from = n.from
  BY Zenon, <1>1, <1>4, <1>OneWinner
<1>7. \A m \in aeArgs \cup isArgs, i \in Server :
        role[i] = "Leader" /\ currentTerm[i] = m.term => m.from = i
  BY Zenon, <1>1, <1>2, <1>3, <1>4, <1>OneWinner
<1>8. QED
  BY Zenon, <1>5, <1>6, <1>7 DEF ElectionSafety

-----------------------------------------------------------------------------
(***************************************************************************)
(* Logs.  The invariant speaks of what the state no longer shows: H[t],    *)
(* the whole log of the leader of term t, from index 1 on, as long as it   *)
(* became, and T, the terms that had a leader.  It says that such H and T  *)
(* exist: every peer holds a part of the log of the leader of the last     *)
(* term it holds, a leader all of its own, and every call a part of the    *)
(* caller's.                                                               *)
(***************************************************************************)

\* Logs that agree up to an index agree up to an earlier one.
LEMMA AgreeShorter ==
  ASSUME NEW s, NEW r, NEW k \in Nat, NEW n \in Nat, Len(s) \in Nat, Len(r) \in Nat,
         AgreeUpTo(s, r, k), n <= k
  PROVE  AgreeUpTo(s, r, n) /\ AgreeUpTo(r, s, n)
  BY DEF AgreeUpTo

\* The term of index k of the whole log s.
TermOf(s, k) == IF k = 0 THEN 0 ELSE s[k].term

\* Logs that agree have the same terms.
LEMMA AgreeTerms ==
  ASSUME NEW s, NEW r, NEW k \in Nat, NEW n \in 0..k, AgreeUpTo(s, r, k)
  PROVE  TermOf(s, n) = TermOf(r, n)
<1>1. CASE n = 0
  BY Zenon, <1>1 DEF TermOf
<1>2. CASE n # 0
  <2>1. n \in 1..k
    BY <1>2
  <2>2. QED
    BY Zenon, <2>1 DEF AgreeUpTo, TermOf
<1>3. QED
  BY Zenon, <1>1, <1>2

\* The length of a log is a natural number.
LEMMA LenType ==
  ASSUME NEW S, NEW s \in Seq(S)
  PROVE  Len(s) \in Nat
  OBVIOUS

\* The leaders' logs: the terms ascend, and the entries up to one of term u are those
\* that the leader of u had there.
Histories(H, T) ==
  /\ H \in [Nat -> Seq(Entry)] /\ H[0] = <<>>
  /\ T \in SUBSET Nat /\ 0 \in T
  /\ \A t \in T : \A k \in 1..Len(H[t]) :
       /\ H[t][k].term \in T /\ H[t][k].term <= t
       /\ AgreeUpTo(H[t], H[H[t][k].term], k)
       /\ \A x \in 1..k : H[t][x].term <= H[t][k].term

\* Types of a leader's log.
LEMMA HistoryType ==
  ASSUME NEW H, NEW T, Histories(H, T), NEW t \in T
  PROVE  t \in Nat /\ H[t] \in Seq(Entry) /\ Len(H[t]) \in Nat
<1>1. t \in Nat /\ H[t] \in Seq(Entry)
  BY Zenon DEF Histories
<1>2. QED
  BY <1>1

\* Types of the variables in which a peer holds its log.
HeldTypes(i) ==
  /\ lastIncludedIndex[i] \in Nat /\ log[i] \in Seq(Entry) /\ Len(log[i]) \in Nat
  /\ LastLogIndex(i) = lastIncludedIndex[i] + Len(log[i]) /\ LastLogIndex(i) \in Nat
  /\ currentTerm[i] \in Nat /\ persister[i].snapshot \in Seq(Command)

\* Types of what a peer holds.
LEMMA HeldTyped == TypeOK => \A i \in Server : HeldTypes(i)
<1> SUFFICES ASSUME TypeOK, NEW i \in Server
             PROVE  HeldTypes(i)
  BY Zenon
<1>1. /\ lastIncludedIndex[i] \in Nat /\ log[i] \in Seq(Entry) /\ currentTerm[i] \in Nat
      /\ persister[i] \in Saved
  BY Zenon DEF TypeOK
<1>2. persister[i].snapshot \in Seq(Command)
  BY Zenon, <1>1 DEF Saved
<1>3. Len(log[i]) \in Nat /\ LastLogIndex(i) = lastIncludedIndex[i] + Len(log[i])
      /\ LastLogIndex(i) \in Nat
  BY <1>1 DEF LastLogIndex
<1>4. QED
  BY Zenon, <1>1, <1>2, <1>3 DEF HeldTypes

\* The same after a step.
LEMMA HeldTypedNext == TypeOK' => \A i \in Server : HeldTypes(i)'
<1>1. TypeOK' => (\A i \in Server : HeldTypes(i))'
  BY HeldTyped, PTL
<1>2. QED
  BY Zenon, <1>1

\* The entries are those of s after index base.
Carries(base, entries, s) ==
  base + Len(entries) <= Len(s) /\ \A k \in 1..Len(entries) : entries[k] = s[base + k]

\* The snapshot is of the commands of s up to index base.
Records(snapshot, base, s) == \A k \in 1..base : snapshot[k] = s[k].command

\* A snapshot up to base, whose last term is bterm, and the entries after it are what
\* s begins with.
Holds(base, bterm, entries, snapshot, s) ==
  Carries(base, entries, s) /\ bterm = TermOf(s, base) /\ Records(snapshot, base, s)

\* It holds as much of any log that agrees with this one as far as it goes.
LEMMA HoldsOther ==
  ASSUME NEW base \in Nat, NEW bterm, NEW entries, Len(entries) \in Nat, NEW snapshot, NEW s,
         Holds(base, bterm, entries, snapshot, s),
         NEW r, AgreeUpTo(s, r, base + Len(entries))
  PROVE  Holds(base, bterm, entries, snapshot, r)
<1>1. /\ base + Len(entries) \in Nat /\ base \in 0..base + Len(entries)
      /\ \A k \in 1..Len(entries) : base + k \in 1..base + Len(entries)
      /\ \A k \in 1..base : k \in 1..base + Len(entries)
  OBVIOUS
<1>2. TermOf(s, base) = TermOf(r, base)
  BY Zenon, <1>1, AgreeTerms
<1>3. Carries(base, entries, r)
  BY Zenon, <1>1 DEF Holds, Carries, AgreeUpTo
<1>4. Records(snapshot, base, r)
  BY Zenon, <1>1 DEF Holds, Records, AgreeUpTo
<1>5. QED
  BY Zenon, <1>2, <1>3, <1>4 DEF Holds

\* What peer i holds, snapshot and log, is what s begins with.
Follows(i, s) ==
  Holds(lastIncludedIndex[i], lastIncludedTerm[i], log[i], persister[i].snapshot, s)

\* A peer follows every log that agrees with the one it follows.
LEMMA FollowsOther ==
  ASSUME NEW i, HeldTypes(i), NEW s, NEW r, Follows(i, s), AgreeUpTo(s, r, LastLogIndex(i))
  PROVE  Follows(i, r)
<1>1. AgreeUpTo(s, r, lastIncludedIndex[i] + Len(log[i]))
  BY Zenon DEF HeldTypes
<1>2. QED
  BY Zenon, <1>1, HoldsOther DEF Follows, HeldTypes

\* A peer holds no more than the log it follows.
LEMMA FollowsReach ==
  ASSUME NEW i, NEW s, Follows(i, s)
  PROVE  LastLogIndex(i) <= Len(s)
  BY Zenon DEF Follows, Holds, Carries, LastLogIndex

\* An entry of a leader's log belongs to a term that had a leader, with that log up to it.
LEMMA HistoryTerm ==
  ASSUME NEW H, NEW T, Histories(H, T), NEW t \in T, NEW k \in 0..Len(H[t])
  PROVE  /\ TermOf(H[t], k) \in T /\ TermOf(H[t], k) \in Nat /\ TermOf(H[t], k) <= t
         /\ AgreeUpTo(H[t], H[TermOf(H[t], k)], k)
         /\ k > 0 => TermOf(H[t], k) > 0
<1>1. t \in Nat /\ H[t] \in Seq(Entry) /\ Len(H[t]) \in Nat
  BY Zenon, HistoryType
<1>2. 0 \in T /\ Len(H[0]) = 0
  BY Zenon DEF Histories
<1>3. CASE k = 0
  <2>1. TermOf(H[t], k) = 0
    BY Zenon, <1>3 DEF TermOf
  <2>2. AgreeUpTo(H[t], H[0], k)
    BY <1>1, <1>2, <1>3 DEF AgreeUpTo
  <2>3. QED
    BY <1>1, <1>2, <1>3, <2>1, <2>2
<1>4. CASE k # 0
  <2>1. TermOf(H[t], k) = H[t][k].term /\ k \in 1..Len(H[t])
    BY <1>1, <1>4 DEF TermOf
  <2> DEFINE u == TermOf(H[t], k)
  <2>2. u \in T /\ u <= t /\ AgreeUpTo(H[t], H[u], k)
    BY Zenon, <2>1 DEF Histories
  <2> HIDE DEF u
  <2>3. u \in Nat
    BY Zenon, <2>2, HistoryType
  <2>4. ~AgreeUpTo(H[t], H[0], k)
    BY <1>2, <2>1 DEF AgreeUpTo
  <2>5. u > 0
    BY <2>2, <2>3, <2>4
  <2>6. QED
    BY Zenon, <2>2, <2>3, <2>5 DEF u
<1>5. QED
  BY Zenon, <1>3, <1>4

\* The term at index k of what a peer holds.
EntryTerm(base, bterm, entries, k) == IF k = base THEN bterm ELSE entries[k - base].term

\* The term a peer has at an index is that of the log it follows.
LEMMA HoldsTerm ==
  ASSUME NEW base \in Nat, NEW bterm, NEW entries, Len(entries) \in Nat, NEW snapshot, NEW s,
         Holds(base, bterm, entries, snapshot, s), NEW k \in base..base + Len(entries)
  PROVE  EntryTerm(base, bterm, entries, k) = TermOf(s, k)
<1>1. CASE k = base
  BY Zenon, <1>1 DEF Holds, EntryTerm
<1>2. CASE k # base
  <2>1. k - base \in 1..Len(entries) /\ base + (k - base) = k /\ k # 0
    BY <1>2
  <2>2. entries[k - base] = s[k]
    BY Zenon, <2>1 DEF Holds, Carries
  <2>3. QED
    BY Zenon, <1>2, <2>1, <2>2 DEF EntryTerm, TermOf
<1>3. QED
  BY Zenon, <1>1, <1>2

\* The last term it holds of H[t], and that it holds as much of that term's leader's log.
HoldsUpTo(base, bterm, entries, snapshot, H, T, t) ==
  LET n == base + Len(entries)
      u == EntryTerm(base, bterm, entries, n)
  IN  /\ u \in T /\ u \in Nat /\ u <= t /\ u = TermOf(H[t], n)
      /\ AgreeUpTo(H[t], H[u], n) /\ Holds(base, bterm, entries, snapshot, H[u])

\* A peer that holds a part of a leader's log holds as much of the log of the leader of
\* the last term in it.
LEMMA HoldsLast ==
  ASSUME NEW H, NEW T, Histories(H, T), NEW t \in T,
         NEW base \in Nat, NEW bterm, NEW entries, Len(entries) \in Nat, NEW snapshot,
         Holds(base, bterm, entries, snapshot, H[t])
  PROVE  HoldsUpTo(base, bterm, entries, snapshot, H, T, t)
<1> DEFINE n == base + Len(entries)
           u == EntryTerm(base, bterm, entries, n)
<1>1. n \in base..base + Len(entries) /\ n \in Nat
  OBVIOUS
<1>2. Len(H[t]) \in Nat /\ n <= Len(H[t])
  BY Zenon, HistoryType DEF Holds, Carries
<1>3. n \in 0..Len(H[t])
  BY <1>1, <1>2
<1>4. u = TermOf(H[t], n)
  BY <1>1, HoldsTerm
<1> HIDE DEF u
<1>5. u \in T /\ u \in Nat /\ u <= t /\ AgreeUpTo(H[t], H[u], n)
  BY Zenon, <1>3, <1>4, HistoryTerm
<1>6. Holds(base, bterm, entries, snapshot, H[u])
  BY Zenon, <1>5, HoldsOther
<1>7. QED
  BY Zenon, <1>4, <1>5, <1>6 DEF HoldsUpTo, u

\* A peer that follows the leader of t follows that of the last term it holds.
FollowsToLast(i, H, T, t) ==
  /\ LastLogTerm(i) \in T /\ LastLogTerm(i) \in Nat /\ LastLogTerm(i) <= t
  /\ LastLogTerm(i) = TermOf(H[t], LastLogIndex(i))
  /\ AgreeUpTo(H[t], H[LastLogTerm(i)], LastLogIndex(i))
  /\ Follows(i, H[LastLogTerm(i)])

\* The same after a step.
LEMMA FollowsLastNext ==
  ASSUME NEW H, NEW T, Histories(H, T), NEW t \in T, NEW i
  PROVE  HeldTypes(i)' /\ Follows(i, H[t])' => FollowsToLast(i, H, T, t)'
<1> DEFINE b == lastIncludedIndex'[i]
           n == b + Len(log'[i])
           u == EntryTerm(b, lastIncludedTerm'[i], log'[i], n)
<1> SUFFICES ASSUME HeldTypes(i)', Follows(i, H[t])'
             PROVE  FollowsToLast(i, H, T, t)'
  BY Zenon
<1>0. HoldsUpTo(b, lastIncludedTerm'[i], log'[i], persister'[i].snapshot, H, T, t)
  BY Zenon, HoldsLast DEF Follows, HeldTypes
<1>1. /\ u \in T /\ u \in Nat /\ u <= t /\ u = TermOf(H[t], n) /\ AgreeUpTo(H[t], H[u], n)
      /\ Holds(b, lastIncludedTerm'[i], log'[i], persister'[i].snapshot, H[u])
  BY Zenon, <1>0 DEF HoldsUpTo
<1>2. LastLogTerm(i)' = u /\ LastLogIndex(i)' = n
  BY Zenon DEF LastLogTerm, LastLogIndex, TermAt, EntryTerm
<1> HIDE DEF u, n
<1>3. QED
  BY Zenon, <1>1, <1>2 DEF FollowsToLast, Follows

\* H2 has the logs of H, some of them grown.
Extends(H, H2, T) ==
  \A t \in T : Len(H[t]) <= Len(H2[t]) /\ AgreeUpTo(H2[t], H[t], Len(H[t]))

\* Peer i holds a part of the log of the leader of the last term it holds.
PeerFollows(i, H, T) ==
  /\ LastLogTerm(i) \in T /\ LastLogTerm(i) <= currentTerm[i]
  /\ Follows(i, H[LastLogTerm(i)])

\* A leader holds the whole of its term's log.
LeaderFollows(i, H, T) ==
  /\ currentTerm[i] \in T /\ Follows(i, H[currentTerm[i]])
  /\ LastLogIndex(i) = Len(H[currentTerm[i]])

\* Term t has had its leader: the winner of its election is done with it.
TermLed(t) ==
  \E c \in Server :
    /\ IsMajority(Tally(c, t)) /\ currentTerm[c] >= t
    /\ currentTerm[c] = t => role[c] # "Candidate"

\* A call carries a part of its term's log.
AppendFollows(m, H, T) ==
  /\ m.from # m.to /\ m.term \in T
  /\ Carries(m.prevLogIndex, m.entries, H[m.term])
  /\ m.prevLogTerm = TermOf(H[m.term], m.prevLogIndex)

\* A snapshot under way is a part of the caller's log.
SnapshotFollows(m, H, T) ==
  /\ m.from # m.to /\ m.term \in T /\ m.lastIncludedIndex <= Len(H[m.term])
  /\ m.lastIncludedTerm = TermOf(H[m.term], m.lastIncludedIndex)
  /\ Records(m.data, m.lastIncludedIndex, H[m.term])

\* A refusal names neither the refused index nor the term the caller has there.
Refuses(r, H, T) ==
  ~r.success /\ r.term = r.reqTerm =>
    /\ r.reqTerm \in T /\ r.prevLogIndex <= Len(H[r.reqTerm])
    /\ r.conflictIndex # r.prevLogIndex + 1
    /\ r.conflictTerm # TermOf(H[r.reqTerm], r.prevLogIndex)

\* The log invariant.
LogInv(H, T) ==
  /\ Histories(H, T)
  /\ \A i \in Server : PeerFollows(i, H, T)
  /\ \A i \in Server : role[i] # "Follower" => currentTerm[i] # 0
  /\ \A i \in Server : role[i] = "Leader" => LeaderFollows(i, H, T)
  /\ \A t \in T : t # 0 => TermLed(t)
  /\ \A m \in aeArgs : AppendFollows(m, H, T)
  /\ \A m \in isArgs : SnapshotFollows(m, H, T)
  /\ \A r \in aeReplies : Refuses(r, H, T)

\* Peer i holds after the step what it held before.
Keeps(i) ==
  /\ LastLogTerm(i)' = LastLogTerm(i) /\ LastLogIndex(i)' = LastLogIndex(i)
  /\ \A s : Follows(i, s) => Follows(i, s)'

\* Peer i holds index n, and up to it what the leader of t does.
Reaches(i, H, t, n) == n <= LastLogIndex(i) /\ AgreeUpTo(H[LastLogTerm(i)], H[t], n)

\* Peer i, which is or follows the leader of its term, holds after the step a part of
\* that leader's log that it did not hold before.
Takes(i, H, T) ==
  \E t \in T :
    /\ t = currentTerm'[i] /\ role'[i] # "Candidate" /\ Follows(i, H[t])'
    /\ ~Reaches(i, H, t, LastLogIndex(i)')

\* Leadership comes with a majority of a candidate's votes, candidacy with a new term.
RolesStep ==
  \A i \in Server :
    /\ currentTerm'[i] >= currentTerm[i]
    /\ role'[i] = "Candidate" =>
         currentTerm'[i] > currentTerm[i] \/ (role[i] = "Candidate" /\ currentTerm'[i] = currentTerm[i])
    /\ role'[i] = "Leader" =>
         currentTerm'[i] = currentTerm[i] /\ role[i] \in {"Leader", "Candidate"}

\* What a step must do to keep the invariant, with H2 and T2 the leaders' logs after it.
LogStep(H, T, H2, T2) ==
  /\ Histories(H2, T2) /\ T \subseteq T2 /\ Extends(H, H2, T)
  /\ \A i \in Server : Keeps(i) \/ Takes(i, H2, T2)
  /\ \A i \in Server : role'[i] = "Leader" =>
       \/ role[i] = "Leader" /\ Keeps(i) /\ Len(H2[currentTerm[i]]) = Len(H[currentTerm[i]])
       \/ LeaderFollows(i, H2, T2)'
  /\ \A t \in T2 : t \in T \/ TermLed(t)'
  /\ \A m \in aeArgs' : m \in aeArgs \/ AppendFollows(m, H2, T2)
  /\ \A m \in isArgs' : m \in isArgs \/ SnapshotFollows(m, H2, T2)
  /\ \A r \in aeReplies' : r \in aeReplies \/ Refuses(r, H2, T2)

\* A step that does what LogStep asks keeps the log invariant.
LEMMA LogPreserved ==
  \A H, T, H2, T2 :
    /\ LogInv(H, T) /\ LogStep(H, T, H2, T2)
    /\ Majorities /\ TypeOK /\ TypeOK' /\ votes \subseteq votes' /\ RolesStep
    => LogInv(H2, T2)'
\* What is true of a log up to an index is true of a longer one.
<1>TermLonger. ASSUME NEW s, NEW r, Len(s) \in Nat, AgreeUpTo(r, s, Len(s)), NEW k \in Nat, k <= Len(s)
      PROVE  TermOf(r, k) = TermOf(s, k) /\ k <= Len(r)
  <2> USE <1>TermLonger
  <2>1. k \in 0..Len(s)
    OBVIOUS
  <2>2. TermOf(r, k) = TermOf(s, k)
    BY Zenon, <2>1, AgreeTerms
  <2>3. k <= Len(r)
    BY DEF AgreeUpTo
  <2>4. QED
    BY Zenon, <2>2, <2>3
\* Entries of a log are entries of a longer one.
<1>CarriesLonger. ASSUME NEW s, NEW r, Len(s) \in Nat, AgreeUpTo(r, s, Len(s)),
             NEW p \in Nat, NEW es, Len(es) \in Nat, Carries(p, es, s)
      PROVE  Carries(p, es, r) /\ TermOf(r, p) = TermOf(s, p)
  <2> USE <1>CarriesLonger
  <2>1. p + Len(es) <= Len(s) /\ Len(s) <= Len(r)
    BY Zenon DEF Carries, AgreeUpTo
  <2>2. p <= Len(s) /\ \A k \in 1..Len(es) : p + k \in 1..Len(s)
    BY <2>1
  <2>3. TermOf(r, p) = TermOf(s, p)
    BY Zenon, <2>2, <1>TermLonger
  <2>4. p + Len(es) <= Len(r)
    BY <2>1
  <2>5. QED
    BY Zenon, <2>2, <2>3, <2>4 DEF Carries, AgreeUpTo
\* A snapshot of a log is one of a longer one.
<1>RecordsLonger. ASSUME NEW s, NEW r, Len(s) \in Nat, AgreeUpTo(r, s, Len(s)),
             NEW n \in Nat, n <= Len(s), NEW d, Records(d, n, s)
      PROVE  Records(d, n, r) /\ TermOf(r, n) = TermOf(s, n) /\ n <= Len(r)
  <2> USE <1>RecordsLonger
  <2>1. \A k \in 1..n : k \in 1..Len(s)
    OBVIOUS
  <2>2. Records(d, n, r)
    BY Zenon, <2>1 DEF Records, AgreeUpTo
  <2>3. TermOf(r, n) = TermOf(s, n) /\ n <= Len(r)
    BY Zenon, <1>TermLonger
  <2>4. QED
    BY Zenon, <2>2, <2>3
\* It follows the longer logs as it followed the shorter.
<1>FollowsLonger. ASSUME NEW H, NEW T, Histories(H, T), NEW H2, Extends(H, H2, T), H2 \in [Nat -> Seq(Entry)],
             NEW t \in T, NEW i, HeldTypes(i), Follows(i, H[t])
      PROVE  Follows(i, H2[t])
  <2> USE <1>FollowsLonger
  <2>1. t \in Nat /\ Len(H[t]) \in Nat
    BY Zenon, HistoryType
  <2>2. Len(H2[t]) \in Nat
    BY Zenon, <2>1, LenType
  <2>3. LastLogIndex(i) \in Nat /\ LastLogIndex(i) <= Len(H[t])
    BY Zenon, FollowsReach DEF HeldTypes
  <2>4. AgreeUpTo(H2[t], H[t], Len(H[t]))
    BY Zenon DEF Extends
  <2>5. AgreeUpTo(H[t], H2[t], LastLogIndex(i))
    BY Zenon, <2>1, <2>2, <2>3, <2>4, AgreeShorter
  <2>6. QED
    BY Zenon, <2>5, FollowsOther
\* A term that had its leader can not be won again.
<1>LedStaysLed. ASSUME Majorities, TypeOK, TypeOK', votes \subseteq votes', RolesStep, NEW t \in Nat, TermLed(t)
      PROVE  TermLed(t)'
  <2> USE <1>LedStaysLed
  <2>1. PICK c \in Server :
          /\ IsMajority(Tally(c, t)) /\ currentTerm[c] >= t
          /\ currentTerm[c] = t => role[c] # "Candidate"
    BY Zenon DEF TermLed
  <2>2. Tally(c, t) \subseteq Tally(c, t)' /\ Tally(c, t)' \subseteq Server
    BY Zenon DEF Tally
  <2>3. IsMajority(Tally(c, t)')
    BY Zenon, <2>1, <2>2, MajorityMonotone
  <2>4. IsMajority(Tally(c, t))'
    BY Zenon, <2>3 DEF IsMajority
  <2>5. currentTerm[c] \in Nat /\ currentTerm'[c] \in Nat
    BY Zenon DEF TypeOK
  <2>6. /\ currentTerm'[c] >= currentTerm[c]
        /\ role'[c] = "Candidate" =>
             currentTerm'[c] > currentTerm[c] \/ (role[c] = "Candidate" /\ currentTerm'[c] = currentTerm[c])
    BY Zenon DEF RolesStep
  <2>7. currentTerm'[c] >= t /\ (currentTerm'[c] = t => role'[c] # "Candidate")
    BY <2>1, <2>5, <2>6
  <2>8. QED
    BY Zenon, <2>4, <2>7 DEF TermLed
\* Calls and refusals are right of longer logs.
<1>CallsLonger. ASSUME NEW H, NEW T, Histories(H, T), NEW H2, Extends(H, H2, T), NEW T2, T \subseteq T2, TypeOK
      PROVE  /\ \A m \in aeArgs : AppendFollows(m, H, T) => AppendFollows(m, H2, T2)
             /\ \A m \in isArgs : SnapshotFollows(m, H, T) => SnapshotFollows(m, H2, T2)
             /\ \A r \in aeReplies : Refuses(r, H, T) => Refuses(r, H2, T2)
  <2> USE <1>CallsLonger
  <2>0. ASSUME NEW t \in T
        PROVE  AgreeUpTo(H2[t], H[t], Len(H[t])) /\ Len(H[t]) \in Nat
    BY Zenon, HistoryType DEF Extends
  <2>1. ASSUME NEW m \in aeArgs, AppendFollows(m, H, T)
        PROVE  AppendFollows(m, H2, T2)
    <3>1. m.prevLogIndex \in Nat /\ m.entries \in Seq(Entry)
      BY Zenon DEF TypeOK, AppendEntriesArgs
    <3>2. Len(m.entries) \in Nat
      BY Zenon, <3>1, LenType
    <3>3. m.term \in T /\ Carries(m.prevLogIndex, m.entries, H[m.term])
      BY Zenon, <2>1 DEF AppendFollows
    <3>4. /\ Carries(m.prevLogIndex, m.entries, H2[m.term])
          /\ TermOf(H2[m.term], m.prevLogIndex) = TermOf(H[m.term], m.prevLogIndex)
      BY Zenon, <2>0, <3>1, <3>2, <3>3, <1>CarriesLonger
    <3>5. QED
      BY Zenon, <2>1, <3>4 DEF AppendFollows
  <2>2. ASSUME NEW m \in isArgs, SnapshotFollows(m, H, T)
        PROVE  SnapshotFollows(m, H2, T2)
    <3>1. m.lastIncludedIndex \in Nat
      BY Zenon DEF TypeOK, InstallSnapshotArgs
    <3>3. /\ m.term \in T /\ m.lastIncludedIndex <= Len(H[m.term])
          /\ Records(m.data, m.lastIncludedIndex, H[m.term])
      BY Zenon, <2>2 DEF SnapshotFollows
    <3>4. /\ Records(m.data, m.lastIncludedIndex, H2[m.term])
          /\ m.lastIncludedIndex <= Len(H2[m.term])
          /\ TermOf(H2[m.term], m.lastIncludedIndex) = TermOf(H[m.term], m.lastIncludedIndex)
      BY Zenon, <2>0, <3>1, <3>3, <1>RecordsLonger
    <3>5. QED
      BY Zenon, <2>2, <3>4 DEF SnapshotFollows
  <2>3. ASSUME NEW r \in aeReplies, Refuses(r, H, T), ~r.success, r.term = r.reqTerm
        PROVE  Refuses(r, H2, T2)
    <3>1. r.prevLogIndex \in Nat
      BY Zenon DEF TypeOK, AppendEntriesReply
    <3>2. /\ r.reqTerm \in T /\ r.prevLogIndex <= Len(H[r.reqTerm])
          /\ r.conflictIndex # r.prevLogIndex + 1
          /\ r.conflictTerm # TermOf(H[r.reqTerm], r.prevLogIndex)
      BY Zenon, <2>3 DEF Refuses
    <3>3. /\ r.prevLogIndex <= Len(H2[r.reqTerm])
          /\ TermOf(H2[r.reqTerm], r.prevLogIndex) = TermOf(H[r.reqTerm], r.prevLogIndex)
      BY Zenon, <2>0, <3>1, <3>2, <1>TermLonger
    <3>4. QED
      BY Zenon, <3>2, <3>3 DEF Refuses
  <2>4. QED
    BY Zenon, <2>1, <2>2, <2>3 DEF Refuses
<1> SUFFICES ASSUME NEW H, NEW T, NEW H2, NEW T2, LogInv(H, T), LogStep(H, T, H2, T2),
                    Majorities, TypeOK, TypeOK', votes \subseteq votes', RolesStep
             PROVE  LogInv(H2, T2)'
  BY Zenon
<1>1. Histories(H, T) /\ Histories(H2, T2) /\ T \subseteq T2 /\ Extends(H, H2, T)
  BY Zenon DEF LogInv, LogStep
<1>2. H2 \in [Nat -> Seq(Entry)]
  BY Zenon, <1>1 DEF Histories
<1>3. ASSUME NEW i \in Server PROVE HeldTypes(i) /\ HeldTypes(i)'
  BY Zenon, HeldTyped, HeldTypedNext
<1>4. ASSUME NEW i \in Server PROVE currentTerm[i] \in Nat /\ currentTerm'[i] \in Nat
  BY Zenon, <1>3 DEF HeldTypes
<1>5. ASSUME NEW i \in Server, NEW t \in T, Follows(i, H[t]), Keeps(i)
      PROVE  Follows(i, H2[t])'
  <2>1. Follows(i, H2[t])
    BY Zenon, <1>1, <1>2, <1>3, <1>5, <1>FollowsLonger
  <2>2. QED
    BY Zenon, <1>5, <2>1 DEF Keeps
<1>6. ASSUME NEW i \in Server PROVE PeerFollows(i, H2, T2)'
  <2>1. CASE Keeps(i)
    <3>1. LastLogTerm(i) \in T /\ LastLogTerm(i) <= currentTerm[i] /\ Follows(i, H[LastLogTerm(i)])
      BY Zenon DEF LogInv, PeerFollows
    <3>2. PICK u : u = LastLogTerm(i)
      BY Zenon
    <3>3. Follows(i, H2[u])' /\ u \in T /\ LastLogTerm(i)' = u
      BY Zenon, <1>5, <2>1, <3>1, <3>2 DEF Keeps
    <3>4. u <= currentTerm'[i]
      <4>1. u \in Nat
        BY Zenon, <1>1, <3>3, HistoryType
      <4>2. u <= currentTerm[i] /\ currentTerm'[i] >= currentTerm[i]
        BY Zenon, <3>1, <3>2 DEF RolesStep
      <4>3. QED
        BY <1>4, <4>1, <4>2
    <3>5. QED
      BY Zenon, <1>1, <3>3, <3>4 DEF PeerFollows
  <2>2. CASE Takes(i, H2, T2)
    <3>1. PICK t \in T2 : t = currentTerm'[i] /\ Follows(i, H2[t])'
      BY Zenon, <2>2 DEF Takes
    <3>2. FollowsToLast(i, H2, T2, t)'
      BY Zenon, <1>1, <1>3, <3>1, FollowsLastNext
    <3>3. PICK u : u = LastLogTerm(i)'
      BY Zenon
    <3>4. u \in T2 /\ u \in Nat /\ u <= t /\ Follows(i, H2[u])'
      BY Zenon, <3>2, <3>3 DEF FollowsToLast
    <3>5. t \in Nat
      BY Zenon, <1>1, HistoryType
    <3>6. u <= currentTerm'[i]
      BY Zenon, <1>4, <3>1, <3>4, <3>5
    <3>7. QED
      BY Zenon, <3>3, <3>4, <3>6 DEF PeerFollows
  <2>3. QED
    BY Zenon, <2>1, <2>2 DEF LogStep
<1>7. ASSUME NEW i \in Server, role'[i] = "Leader" PROVE LeaderFollows(i, H2, T2)'
  <2>1. CASE role[i] = "Leader" /\ Keeps(i) /\ Len(H2[currentTerm[i]]) = Len(H[currentTerm[i]])
    <3>1. LeaderFollows(i, H, T) /\ currentTerm'[i] = currentTerm[i]
      BY Zenon, <1>7, <2>1 DEF LogInv, RolesStep
    <3>2. PICK u : u = currentTerm[i]
      BY Zenon
    <3>3. u \in T /\ Follows(i, H[u]) /\ LastLogIndex(i) = Len(H2[u])
      BY Zenon, <2>1, <3>1, <3>2 DEF LeaderFollows
    <3>4. Follows(i, H2[u])' /\ LastLogIndex(i)' = Len(H2[u])
      BY Zenon, <1>5, <2>1, <3>3 DEF Keeps
    <3>5. QED
      BY Zenon, <1>1, <3>1, <3>2, <3>3, <3>4 DEF LeaderFollows
  <2>2. QED
    BY Zenon, <1>7, <2>1 DEF LogStep
<1>8. ASSUME NEW t \in T2, t # 0 PROVE TermLed(t)'
  <2>1. CASE t \in T
    BY Zenon, <1>1, <1>8, <2>1, HistoryType, <1>LedStaysLed DEF LogInv
  <2>2. QED
    BY Zenon, <2>1 DEF LogStep
<1>9. /\ \A m \in aeArgs : AppendFollows(m, H2, T2)
      /\ \A m \in isArgs : SnapshotFollows(m, H2, T2)
      /\ \A r \in aeReplies : Refuses(r, H2, T2)
  BY Zenon, <1>1, <1>CallsLonger DEF LogInv
<1>10. /\ \A m \in aeArgs' : AppendFollows(m, H2, T2)
       /\ \A m \in isArgs' : SnapshotFollows(m, H2, T2)
       /\ \A r \in aeReplies' : Refuses(r, H2, T2)
  BY Zenon, <1>9 DEF LogStep
<1>11. ASSUME NEW i \in Server, role'[i] # "Follower" PROVE currentTerm'[i] # 0
  <2>1. role'[i] \in {"Candidate", "Leader"}
    BY Zenon, <1>11 DEF TypeOK, Role
  <2>2. currentTerm'[i] > currentTerm[i] \/ (role[i] # "Follower" /\ currentTerm'[i] = currentTerm[i])
    BY Zenon, <2>1 DEF RolesStep
  <2>3. role[i] # "Follower" => currentTerm[i] # 0
    BY Zenon DEF LogInv
  <2>4. QED
    BY <1>4, <2>2, <2>3
<1>12. QED
  BY Zenon, <1>1, <1>6, <1>7, <1>8, <1>10, <1>11 DEF LogInv, AppendFollows, SnapshotFollows, Refuses

-----------------------------------------------------------------------------
(***************************************************************************)
(* What is committed.  A[j][t] is the highest index that peer j has ever   *)
(* acknowledged to the leader of term t, and ct the peers' terms.  The     *)
(* invariant says that, besides the leaders' logs H and T, there are       *)
(* acknowledgements A that fit the state.                                  *)
(***************************************************************************)

\* Agreement is transitive.
LEMMA AgreeTransitive ==
  ASSUME NEW s, NEW r, NEW q, NEW k, AgreeUpTo(s, r, k), AgreeUpTo(r, q, k)
  PROVE  AgreeUpTo(s, q, k)
  BY Zenon DEF AgreeUpTo

\* Orders are transitive.
LEMMA AtMost ==
  ASSUME NEW a \in Nat, NEW b \in Nat, NEW c \in Nat, a <= b, b <= c
  PROVE  a <= c
  OBVIOUS

\* A log extends itself.
LEMMA ExtendsSelf ==
  ASSUME NEW H, NEW T, Histories(H, T)
  PROVE  Extends(H, H, T)
<1>1. \A t \in T : Len(H[t]) \in Nat
  BY Zenon, HistoryType
<1>2. \A t \in T : Len(H[t]) <= Len(H[t])
  BY <1>1
<1>3. QED
  BY Zenon, <1>2 DEF Extends, AgreeUpTo

\* Up to a, the ranges to a and to a larger b have the same indexes.
LEMMA InBoth ==
  ASSUME NEW a \in Nat, NEW b \in Nat, NEW k \in Nat, k <= a, a <= b
  PROVE  k \in 1..a <=> k \in 1..b
  OBVIOUS

\* The leader of t put the entry at k there itself.
Own(H, t, k) == k \in 1..Len(H[t]) /\ H[t][k].term = t

\* A leader's own entries stay its own.
LEMMA StillOwn ==
  ASSUME NEW H, NEW T, Histories(H, T), NEW H2, H2 \in [Nat -> Seq(Entry)], Extends(H, H2, T),
         NEW t \in T, NEW k \in Nat, k <= Len(H[t])
  PROVE  Own(H, t, k) <=> Own(H2, t, k)
<1>1. t \in Nat /\ Len(H[t]) \in Nat
  BY Zenon, HistoryType
<1>2. Len(H2[t]) \in Nat
  BY Zenon, <1>1, LenType
<1>3. AgreeUpTo(H2[t], H[t], Len(H[t]))
  BY Zenon DEF Extends
<1>4. k \in 1..Len(H[t]) <=> k \in 1..Len(H2[t])
  <2>1. Len(H[t]) <= Len(H2[t])
    BY Zenon, <1>3 DEF AgreeUpTo
  <2>2. QED
    BY Zenon, <1>1, <1>2, <2>1, InBoth
<1>5. k \in 1..Len(H[t]) => H2[t][k] = H[t][k]
  BY Zenon, <1>3 DEF AgreeUpTo
<1>6. QED
  BY Zenon, <1>4, <1>5 DEF Own

\* A majority is past term t and never acknowledged k in it.
Lost(t, k, A, ct) ==
  \E Q \in SUBSET Server : IsMajority(Q) /\ \A j \in Q : A[j][t] < k /\ ct[j] > t

\* An entry is in the log of every later leader, or cannot be committed any more.
Elected(H, T, A, ct) ==
  \A t, u \in T, k \in Nat :
    t < u /\ Own(H, t, k) => AgreeUpTo(H[u], H[t], k) \/ Lost(t, k, A, ct)

\* A majority acknowledged an entry of its leader's own term.
Chosen(H, A, t, k) ==
  Own(H, t, k) /\ \E Q \in SUBSET Server : IsMajority(Q) /\ \A j \in Q : k <= A[j][t]

\* What is chosen is in the log of every later leader.
Stands(H, T, A) ==
  \A t, u \in T, k \in Nat : t <= u /\ Chosen(H, A, t, k) => AgreeUpTo(H[u], H[t], k)

\* Per peer and term, the highest index acknowledged to that term's leader.
Acks == [Server -> [Nat -> Nat]]

\* What is chosen is in the log of every later leader: the majority that chose it and the
\* one that lost it would have a peer in common.
LEMMA ElectedStands ==
  ASSUME Majorities, NEW H, NEW T, Histories(H, T), NEW A \in Acks, NEW ct, Elected(H, T, A, ct)
  PROVE  Stands(H, T, A)
<1> SUFFICES ASSUME NEW t \in T, NEW u \in T, NEW k \in Nat, t <= u, Chosen(H, A, t, k)
             PROVE  AgreeUpTo(H[u], H[t], k)
  BY Zenon DEF Stands
<1>1. t \in Nat /\ u \in Nat /\ Len(H[t]) \in Nat
  BY Zenon, HistoryType
<1>2. Own(H, t, k)
  BY Zenon DEF Chosen
<1>3. k <= Len(H[t])
  BY <1>1, <1>2 DEF Own
<1>4. CASE u = t
  BY Zenon, <1>3, <1>4 DEF AgreeUpTo
<1>5. CASE u # t
  <2>1. t < u
    BY <1>1, <1>5
  <2>2. SUFFICES ASSUME Lost(t, k, A, ct) PROVE FALSE
    BY Zenon, <1>2, <2>1 DEF Elected
  <2>3. PICK Q \in SUBSET Server : IsMajority(Q) /\ \A j \in Q : k <= A[j][t]
    BY Zenon DEF Chosen
  <2>4. PICK R \in SUBSET Server : IsMajority(R) /\ \A j \in R : A[j][t] < k
    BY Zenon, <2>2 DEF Lost
  <2>5. Q \subseteq Server /\ R \subseteq Server
    BY Zenon
  <2>6. PICK j \in Server : j \in Q /\ j \in R
    BY Zenon, <2>3, <2>4, <2>5, MajoritiesIntersect
  <2>7. k <= A[j][t] /\ A[j][t] < k /\ A[j][t] \in Nat
    BY Zenon, <1>1, <2>3, <2>4, <2>6 DEF Acks
  <2>8. QED
    BY <2>7
<1>6. QED
  BY Zenon, <1>4, <1>5

\* What a majority acknowledged stays chosen.
LEMMA StillChosen ==
  ASSUME NEW H, NEW T, Histories(H, T), NEW H2, H2 \in [Nat -> Seq(Entry)], Extends(H, H2, T),
         NEW A \in Acks, NEW A2 \in Acks, \A j \in Server, t \in Nat : A[j][t] <= A2[j][t],
         NEW t \in T, NEW k \in Nat, Chosen(H, A, t, k)
  PROVE  Chosen(H2, A2, t, k)
<1>1. t \in Nat /\ Len(H[t]) \in Nat
  BY Zenon, HistoryType
<1>2. Own(H, t, k)
  BY Zenon DEF Chosen
<1>3. k <= Len(H[t])
  BY <1>1, <1>2 DEF Own
<1>4. Own(H2, t, k)
  BY Zenon, <1>2, <1>3, StillOwn
<1>5. PICK Q \in SUBSET Server : IsMajority(Q) /\ \A j \in Q : k <= A[j][t]
  BY Zenon DEF Chosen
<1>6. ASSUME NEW j \in Q PROVE k <= A2[j][t]
  <2>1. A[j][t] \in Nat /\ A2[j][t] \in Nat /\ A[j][t] <= A2[j][t] /\ k <= A[j][t]
    BY ZenonT(30), <1>1, <1>5 DEF Acks
  <2>2. QED
    BY Zenon, <2>1, AtMost
<1>7. QED
  BY Zenon, <1>4, <1>5, <1>6 DEF Chosen

\* Up to index n, s is what was chosen in a term up to bound.
Committed(n, bound, s, H, T, A) ==
  n = 0 \/ \E t \in T, k \in Nat :
             t <= bound /\ n <= k /\ Chosen(H, A, t, k) /\ AgreeUpTo(s, H[t], n)

\* What is committed stays so: for longer logs, more acknowledgements, a later bound, and
\* every log that agrees with s.
LEMMA StillCommitted ==
  ASSUME NEW H, NEW T, Histories(H, T), NEW H2, NEW T2, Histories(H2, T2), T \subseteq T2,
         Extends(H, H2, T), NEW A \in Acks, NEW A2 \in Acks,
         \A j \in Server, t \in Nat : A[j][t] <= A2[j][t],
         NEW n \in Nat, NEW b \in Nat, NEW b2 \in Nat, b <= b2, NEW s, Len(s) \in Nat, Committed(n, b, s, H, T, A),
         NEW m \in Nat, m <= n, NEW s2, AgreeUpTo(s2, s, m)
  PROVE  Committed(m, b2, s2, H2, T2, A2)
<1> SUFFICES ASSUME m # 0
             PROVE  Committed(m, b2, s2, H2, T2, A2)
  BY Zenon DEF Committed
<1>0. H2 \in [Nat -> Seq(Entry)]
  BY Zenon DEF Histories
<1>1. n # 0
  OBVIOUS
<1>2. PICK t \in T, k \in Nat : t <= b /\ n <= k /\ Chosen(H, A, t, k) /\ AgreeUpTo(s, H[t], n)
  BY Zenon, <1>1 DEF Committed
<1>3. t \in Nat /\ Len(H[t]) \in Nat
  BY Zenon, HistoryType
<1>4. t <= b2 /\ m <= k
  BY <1>2, <1>3
<1>5. Chosen(H2, A2, t, k)
  BY Zenon, <1>0, <1>2, StillChosen
<1>6. AgreeUpTo(s, H2[t], m)
  <2>0. AgreeUpTo(s, H[t], m)
    BY Zenon, <1>2, <1>3, AgreeShorter
  <2>1. AgreeUpTo(s, H[t], m) /\ m <= Len(H[t])
    BY Zenon, <2>0 DEF AgreeUpTo
  <2>2. Len(H2[t]) \in Nat
    BY Zenon, <1>0, <1>3, LenType
  <2>3. AgreeUpTo(H2[t], H[t], Len(H[t]))
    BY Zenon DEF Extends
  <2>4. AgreeUpTo(H[t], H2[t], m)
    BY Zenon, <1>3, <2>1, <2>2, <2>3, AgreeShorter
  <2>5. QED
    BY Zenon, <2>1, <2>4, AgreeTransitive
<1>7. AgreeUpTo(s2, H2[t], m)
  BY Zenon, <1>6, AgreeTransitive
<1>8. QED
  BY Zenon, <1>4, <1>5, <1>7 DEF Committed

\* What is committed up to a term is in the log of every leader from that term on.
LEMMA CommittedStands ==
  ASSUME NEW H, NEW T, Histories(H, T), NEW A, Stands(H, T, A),
         NEW n \in Nat, NEW b \in Nat, NEW s, Len(s) \in Nat, Committed(n, b, s, H, T, A),
         NEW u \in T, b <= u
  PROVE  AgreeUpTo(s, H[u], n)
<1>1. u \in Nat /\ Len(H[u]) \in Nat
  BY Zenon, HistoryType
<1>2. CASE n = 0
  BY <1>1, <1>2 DEF AgreeUpTo
<1>3. CASE n # 0
  <2>1. PICK t \in T, k \in Nat : t <= b /\ n <= k /\ Chosen(H, A, t, k) /\ AgreeUpTo(s, H[t], n)
    BY Zenon, <1>3 DEF Committed
  <2>2. t \in Nat /\ Len(H[t]) \in Nat
    BY Zenon, HistoryType
  <2>3. t <= u
    BY <1>1, <2>1, <2>2
  <2>4. AgreeUpTo(H[u], H[t], k)
    BY Zenon, <2>1, <2>3 DEF Stands
  <2>5. AgreeUpTo(H[t], H[u], n)
    BY Zenon, <1>1, <2>1, <2>2, <2>4, AgreeShorter
  <2>6. QED
    BY Zenon, <2>1, <2>5, AgreeTransitive
<1>4. QED
  BY Zenon, <1>2, <1>3

\* The leaders' logs grew by entries of their own, and the peers acknowledged more to the
\* leaders of their present terms.
Grown(H, T, H2) == \A t \in T, k \in Nat : Own(H2, t, k) \/ k <= Len(H[t]) \/ k > Len(H2[t])

\* Acknowledgements only grow, and only those of a peer's own term.
AcksGrown(A, A2, ct) ==
  \A j \in Server, t \in Nat : A[j][t] <= A2[j][t] /\ (A2[j][t] # A[j][t] => t = ct[j])

\* What can not be chosen any more never is.
LEMMA StillLost ==
  ASSUME NEW A \in Acks, NEW A2 \in Acks, NEW ct \in [Server -> Nat], NEW ct2 \in [Server -> Nat],
         \A j \in Server : ct2[j] >= ct[j], AcksGrown(A, A2, ct2),
         NEW t \in Nat, NEW k \in Nat, Lost(t, k, A, ct)
  PROVE  Lost(t, k, A2, ct2)
<1>1. PICK Q \in SUBSET Server : IsMajority(Q) /\ \A j \in Q : A[j][t] < k /\ ct[j] > t
  BY Zenon DEF Lost
<1>2. ASSUME NEW j \in Q PROVE A2[j][t] < k /\ ct2[j] > t
  <2>1. /\ A[j][t] < k /\ ct[j] > t /\ ct2[j] >= ct[j]
        /\ A2[j][t] # A[j][t] => t = ct2[j]
    BY Zenon, <1>1 DEF AcksGrown
  <2>2. ct[j] \in Nat /\ ct2[j] \in Nat
    BY Zenon
  <2>3. ct2[j] > t
    BY <2>1, <2>2
  <2>4. QED
    BY <2>1, <2>2
<1>3. QED
  BY Zenon, <1>1, <1>2 DEF Lost

\* An own entry is within the log.
LEMMA OwnReach ==
  ASSUME NEW H, NEW t, Len(H[t]) \in Nat, NEW k \in Nat, Own(H, t, k)
  PROVE  k <= Len(H[t]) /\ ~(k > Len(H[t])) /\ 0 < k
  BY DEF Own

\* A peer that follows the leader of t follows the leader of the last term it holds.
LEMMA FollowsLast ==
  ASSUME NEW H, NEW T, Histories(H, T), NEW t \in T, NEW i
  PROVE  HeldTypes(i) /\ Follows(i, H[t]) => FollowsToLast(i, H, T, t)
<1> SUFFICES ASSUME HeldTypes(i), Follows(i, H[t])
             PROVE  FollowsToLast(i, H, T, t)
  BY Zenon
<1> DEFINE b == lastIncludedIndex[i]
           n == b + Len(log[i])
           u == EntryTerm(b, lastIncludedTerm[i], log[i], n)
<1>0. HoldsUpTo(b, lastIncludedTerm[i], log[i], persister[i].snapshot, H, T, t)
  BY Zenon, HoldsLast DEF Follows, HeldTypes
<1>1. /\ u \in T /\ u \in Nat /\ u <= t /\ u = TermOf(H[t], n) /\ AgreeUpTo(H[t], H[u], n)
      /\ Holds(b, lastIncludedTerm[i], log[i], persister[i].snapshot, H[u])
  BY Zenon, <1>0 DEF HoldsUpTo
<1>2. LastLogTerm(i) = u /\ LastLogIndex(i) = n
  BY Zenon DEF LastLogTerm, LastLogIndex, TermAt, EntryTerm
<1> HIDE DEF u, n
<1>3. QED
  BY Zenon, <1>1, <1>2 DEF FollowsToLast, Follows

\* Types of where a peer's log ends.
LastTypes(j, H, T) ==
  /\ LastLogIndex(j) \in Nat /\ LastLogTerm(j) \in T /\ LastLogTerm(j) \in Nat
  /\ LastLogTerm(j) <= currentTerm[j] /\ currentTerm[j] \in Nat
  /\ LastLogIndex(j) <= Len(H[LastLogTerm(j)]) /\ Len(H[LastLogTerm(j)]) \in Nat
  /\ LastLogTerm(j) = TermOf(H[LastLogTerm(j)], LastLogIndex(j))

\* Types of where a peer's log ends.
LEMMA LastTyped ==
  ASSUME NEW H, NEW T
  PROVE  TypeOK /\ LogInv(H, T) => \A j \in Server : LastTypes(j, H, T)
<1> SUFFICES ASSUME TypeOK, LogInv(H, T), NEW j \in Server
             PROVE  LastTypes(j, H, T)
  BY Zenon
<1>1. HeldTypes(j)
  BY Zenon, HeldTyped
<1>2. LastLogTerm(j) \in T /\ LastLogTerm(j) <= currentTerm[j] /\ Follows(j, H[LastLogTerm(j)])
  BY Zenon DEF LogInv, PeerFollows
<1>3. LastLogTerm(j) \in Nat /\ Len(H[LastLogTerm(j)]) \in Nat
  BY Zenon, <1>2, HistoryType DEF LogInv
<1>4. FollowsToLast(j, H, T, LastLogTerm(j))
  BY Zenon, <1>1, <1>2, FollowsLast DEF LogInv
<1>5. LastLogTerm(j) = TermOf(H[LastLogTerm(j)], LastLogIndex(j))
  BY Zenon, <1>4 DEF FollowsToLast
<1>6. QED
  BY Zenon, <1>1, <1>2, <1>3, <1>5, FollowsReach DEF LastTypes, HeldTypes

\* A leader after t, of a term up to bound, did not have what t's had up to k.
Superseded(H, T, t, k, bound) ==
  \E u \in T : t < u /\ u <= bound /\ ~AgreeUpTo(H[u], H[t], k)

\* The same of the log of the leader of w, for who holds it up to n.
KnownCommitted(c, n, bound, w, H, T, A) == c <= n /\ Committed(c, bound, H[w], H, T, A)

\* Elected for the entries and the leaders that are new in H2 and T2.
NewlyElected(H, T, H2, T2, A, ct) ==
  \A t, u \in T2, k \in Nat :
    t < u /\ Own(H2, t, k) /\ (t \in T /\ u \in T => k > Len(H[t])) =>
      AgreeUpTo(H2[u], H2[t], k) \/ Lost(t, k, A, ct)

\* Who holds what the leader of w did up to n holds, of every leader before t, the own
\* entries with the acknowledgements acks that no leader up to t has lost.
Covers(acks, n, w, t, H, T) ==
  \A u \in T, k \in Nat :
    u < t /\ Own(H, u, k) /\ k <= acks[u] =>
      (k <= n /\ AgreeUpTo(H[w], H[u], k)) \/ Superseded(H, T, u, k, t)

\* What a peer of term b with the acknowledgements acks made of them: it holds what the
\* leader of w did up to n, and that is what it acknowledged, unless a later leader lost it.
Accounts(acks, n, w, b, H, T) ==
  \A u, k \in Nat :
    0 < k /\ k <= acks[u] =>
      /\ u \in T /\ u <= b /\ k <= Len(H[u])
      /\ (k <= n /\ AgreeUpTo(H[w], H[u], k)) \/ Superseded(H, T, u, k, b)

\* New acknowledgements are to the leader of b, of what the peer holds.
NewAcks(acks, acks2, n, w, b, H, T) ==
  \A u \in Nat :
    \/ acks2[u] = acks[u]
    \/ u = b /\ u \in T /\ acks2[u] <= n /\ AgreeUpTo(H[w], H[u], acks2[u])

\* A peer that held what the leader of w did up to n takes from the leader of b what it
\* lacks, and then holds what the leader of w2 did up to n2.
Taken(n, w, n2, w2, b, H, T) ==
  /\ b \in T /\ w2 \in T /\ AgreeUpTo(H[b], H[w2], n2)
  /\ ~(n2 <= n /\ AgreeUpTo(H[w], H[b], n2))

\* Every peer accounts for what it acknowledged.
AcksFit(H, T, A) ==
  \A j \in Server : Accounts(A[j], LastLogIndex(j), LastLogTerm(j), currentTerm[j], H, T)

\* A candidate's log covers what those who voted for it had acknowledged.
VoteFits(j, t, c, H, T, A) ==
  /\ t <= currentTerm[c]
  /\ role[c] = "Candidate" /\ currentTerm[c] = t =>
       Covers(A[j], LastLogIndex(c), LastLogTerm(c), t, H, T)

\* A candidate asks for votes for the log it has.
AskFits(m) ==
  /\ m.term <= currentTerm[m.from]
  /\ role[m.from] = "Candidate" /\ currentTerm[m.from] = m.term =>
       m.lastLogTerm = LastLogTerm(m.from) /\ m.lastLogIndex = LastLogIndex(m.from)

\* What peer i counts as committed is.
CommitFits(i, H, T, A) ==
  KnownCommitted(commitIndex[i], LastLogIndex(i), currentTerm[i], LastLogTerm(i), H, T, A)

\* Snapshot, applied and committed are in this order.
ApplyFits(i) == lastIncludedIndex[i] <= lastApplied[i] /\ lastApplied[i] <= commitIndex[i]

\* A leader tells its peers what is committed.
AppendCommits(m, H, T, A) == Committed(m.leaderCommit, m.term, H[m.term], H, T, A)

\* So it does by a snapshot.
SnapshotCommits(m, H, T, A) == Committed(m.lastIncludedIndex, m.term, H[m.term], H, T, A)

\* A reply acknowledges what was sent, or backs up within the leader's log.
AppendAnswers(r, H, T, A) ==
  /\ r.success => r.reqTerm \in T /\ r.prevLogIndex + r.count <= A[r.from][r.reqTerm]
  /\ ~r.success /\ r.term <= r.reqTerm =>
       r.reqTerm \in T /\ r.conflictIndex \in 1..Len(H[r.reqTerm]) + 1

\* The same for a reply to a snapshot.
SnapshotAnswers(r, T, A) ==
  r.term <= r.reqTerm => r.reqTerm \in T /\ r.lastIncludedIndex <= A[r.from][r.reqTerm]

\* What a leader believes of its peers, they acknowledged.
LeaderFits(i, H, A) ==
  /\ LastLogIndex(i) <= A[i][currentTerm[i]]
  /\ \A j \in Server \ {i} :
       /\ matchIndex[i][j] <= A[j][currentTerm[i]]
       /\ nextIndex[i][j] \in 1..Len(H[currentTerm[i]]) + 1

\* The commit invariant.
CommitInv(H, T, A) ==
  /\ A \in Acks /\ AcksFit(H, T, A) /\ Elected(H, T, A, currentTerm)
  /\ \A j, c \in Server, t \in Nat : Granted(j, t, c) => VoteFits(j, t, c, H, T, A)
  /\ \A m \in rvArgs : AskFits(m)
  /\ \A i \in Server : CommitFits(i, H, T, A)
  /\ \A i \in Server : ApplyFits(i)
  /\ \A m \in aeArgs : AppendCommits(m, H, T, A)
  /\ \A m \in isArgs : SnapshotCommits(m, H, T, A)
  /\ \A r \in aeReplies : AppendAnswers(r, H, T, A)
  /\ \A r \in isReplies : SnapshotAnswers(r, T, A)
  /\ \A i \in Server : role[i] = "Leader" => LeaderFits(i, H, A)

\* The peers hold what they acknowledge.
AckStep(H2, T2, A, A2) ==
  /\ \A j \in Server, t \in Nat : A[j][t] <= A2[j][t]
  /\ \A j \in Server :
       NewAcks(A[j], A2[j], LastLogIndex(j)', LastLogTerm(j)', currentTerm'[j], H2, T2)

\* Leader i believes what it believed.
LeaderKeeps(i) ==
  /\ role[i] = "Leader" /\ LastLogIndex(i)' = LastLogIndex(i)
  /\ matchIndex'[i] = matchIndex[i] /\ nextIndex'[i] = nextIndex[i]

\* What a step must do to keep the invariant.
AcksStep(H, T, A, H2, T2, A2) ==
  /\ A2 \in Acks /\ Grown(H, T, H2) /\ AckStep(H2, T2, A, A2)
  /\ NewlyElected(H, T, H2, T2, A2, currentTerm')

\* A vote that the step grants fits.
VotesStep(H2, T2, A2) ==
  /\ \A j, c \in Server, t \in Nat :
       Granted(j, t, c)' => Granted(j, t, c) \/ VoteFits(j, t, c, H2, T2, A2)'
  /\ \A m \in rvArgs' : m \in rvArgs \/ AskFits(m)'

\* An index that the step moves fits.
CommitsStep(H2, T2, A2) ==
  \A i \in Server :
    ApplyFits(i)' /\ (commitIndex'[i] = commitIndex[i] \/ CommitFits(i, H2, T2, A2)')

\* A call that the step makes fits.
CallsStep(H2, T2, A2) ==
  /\ \A m \in aeArgs' : m \in aeArgs \/ AppendCommits(m, H2, T2, A2)
  /\ \A m \in isArgs' : m \in isArgs \/ SnapshotCommits(m, H2, T2, A2)

\* A reply that the step sends fits.
AnswersStep(H2, T2, A2) ==
  /\ \A r \in aeReplies' : r \in aeReplies \/ AppendAnswers(r, H2, T2, A2)
  /\ \A r \in isReplies' : r \in isReplies \/ SnapshotAnswers(r, T2, A2)

\* Who leads after the step believes what it did, or what was acknowledged.
LeadersStep(H2, A2) ==
  \A i \in Server : role'[i] = "Leader" => LeaderKeeps(i) \/ LeaderFits(i, H2, A2)'

\* What a step has to do to keep the commit invariant.
CommitStep(H, T, A, H2, T2, A2) ==
  /\ AcksStep(H, T, A, H2, T2, A2) /\ VotesStep(H2, T2, A2) /\ CommitsStep(H2, T2, A2)
  /\ CallsStep(H2, T2, A2) /\ AnswersStep(H2, T2, A2) /\ LeadersStep(H2, A2)

\* Where a peer's log is, before and after a step.
LastMoves(j, H2, T2) ==
  \/ LastLogIndex(j)' = LastLogIndex(j) /\ LastLogTerm(j)' = LastLogTerm(j)
  \/ /\ Taken(LastLogIndex(j), LastLogTerm(j), LastLogIndex(j)', LastLogTerm(j)', currentTerm'[j], H2, T2)
     /\ role'[j] # "Candidate"

\* A step that does what CommitStep asks keeps the commit invariant.
LEMMA CommitPreserved ==
  \A H, T, A, H2, T2, A2 :
    /\ CommitInv(H, T, A) /\ CommitStep(H, T, A, H2, T2, A2)
    /\ LogInv(H, T) /\ LogStep(H, T, H2, T2) /\ LogInv(H2, T2)'
    /\ Majorities /\ TypeOK /\ TypeOK' /\ VotesRemembered /\ RolesStep
    => CommitInv(H2, T2, A2)'
\* Logs that agree up to an index within them still do when they have grown.
<1>StillAgree. ASSUME NEW H, NEW T, Histories(H, T), NEW H2, H2 \in [Nat -> Seq(Entry)], Extends(H, H2, T),
             NEW t \in T, NEW u \in T, NEW k \in Nat, AgreeUpTo(H[u], H[t], k)
      PROVE  AgreeUpTo(H2[u], H2[t], k)
  <2> USE <1>StillAgree
  <2>1. /\ t \in Nat /\ u \in Nat /\ Len(H[t]) \in Nat /\ Len(H[u]) \in Nat
    BY Zenon, HistoryType
  <2>2. Len(H2[t]) \in Nat /\ Len(H2[u]) \in Nat
    BY Zenon, <2>1, LenType
  <2>3. AgreeUpTo(H2[t], H[t], Len(H[t])) /\ AgreeUpTo(H2[u], H[u], Len(H[u]))
    BY Zenon DEF Extends
  <2>4. k <= Len(H[t]) /\ k <= Len(H[u])
    BY Zenon DEF AgreeUpTo
  <2>5. AgreeUpTo(H[t], H2[t], k)
    BY Zenon, <2>1, <2>2, <2>3, <2>4, AgreeShorter
  <2>6. AgreeUpTo(H2[u], H[u], k)
    BY Zenon, <2>1, <2>2, <2>3, <2>4, AgreeShorter
  <2>7. QED
    BY Zenon, <2>5, <2>6, AgreeTransitive
\* Logs that differ up to an index still do when they have grown.
<1>StillDisagree. ASSUME NEW H, NEW T, Histories(H, T), NEW H2, NEW T2, Histories(H2, T2), T \subseteq T2,
             Extends(H, H2, T), Grown(H, T, H2),
             NEW t \in T, NEW u \in T, t < u, NEW k \in Nat, k <= Len(H[t]), AgreeUpTo(H2[u], H2[t], k)
      PROVE  AgreeUpTo(H[u], H[t], k)
  <2> USE <1>StillDisagree
  <2>0. H2 \in [Nat -> Seq(Entry)]
    BY Zenon DEF Histories
  <2>1. t \in Nat /\ u \in Nat /\ Len(H[t]) \in Nat /\ Len(H[u]) \in Nat
    BY Zenon, HistoryType
  <2>2. Len(H2[t]) \in Nat /\ Len(H2[u]) \in Nat
    BY Zenon, <2>0, <2>1, LenType
  <2>3. AgreeUpTo(H2[t], H[t], Len(H[t])) /\ AgreeUpTo(H2[u], H[u], Len(H[u]))
    BY Zenon DEF Extends
  <2>4. CASE k <= Len(H[u])
    <3>1. AgreeUpTo(H2[t], H[t], k)
      BY Zenon, <2>1, <2>2, <2>3, AgreeShorter
    <3>2. AgreeUpTo(H[u], H2[u], k)
      BY Zenon, <2>1, <2>2, <2>3, <2>4, AgreeShorter
    <3>3. QED
      BY Zenon, <3>1, <3>2, AgreeTransitive
  <2>5. CASE k > Len(H[u])
    <3>1. k <= Len(H2[u]) /\ k <= Len(H2[t]) /\ k \in 1..k
      BY <2>1, <2>5 DEF AgreeUpTo
    <3>2. Own(H2, u, k)
      <4>1. ~(k <= Len(H[u])) /\ ~(k > Len(H2[u]))
        BY <2>1, <2>2, <2>5, <3>1
      <4>2. QED
        BY Zenon, <4>1 DEF Grown
    <3>3. H2[t][k].term = u
      BY Zenon, <3>1, <3>2 DEF Own, AgreeUpTo
    <3>4. H2[t][k].term <= t
      <4>1. t \in T2 /\ k \in 1..Len(H2[t])
        BY <2>2, <3>1
      <4>2. QED
        BY Zenon, <4>1 DEF Histories
    <3>5. QED
      BY <2>1, <3>3, <3>4
  <2>6. QED
    BY <2>1, <2>4, <2>5
\* What a later leader lacked it lacks for good.
<1>StillSuperseded. ASSUME NEW H, NEW T, Histories(H, T), NEW H2, NEW T2, Histories(H2, T2), T \subseteq T2,
             Extends(H, H2, T), Grown(H, T, H2),
             NEW t \in T, NEW k \in Nat, k <= Len(H[t]),
             NEW b \in Nat, NEW b2 \in Nat, b <= b2, Superseded(H, T, t, k, b)
      PROVE  Superseded(H2, T2, t, k, b2)
  <2> USE <1>StillSuperseded
  <2>1. PICK u \in T : t < u /\ u <= b /\ ~AgreeUpTo(H[u], H[t], k)
    BY Zenon DEF Superseded
  <2>2. u \in Nat
    BY Zenon, HistoryType
  <2>3. u <= b2
    BY <2>1, <2>2
  <2>4. ~AgreeUpTo(H2[u], H2[t], k)
    BY Zenon, <2>1, <1>StillDisagree
  <2>5. QED
    BY Zenon, <2>1, <2>3, <2>4 DEF Superseded
\* Later leaders have what was chosen, after the step as before it.
<1>ElectedPreserved. ASSUME NEW H, NEW T, Histories(H, T), NEW H2, NEW T2, Histories(H2, T2),
             Extends(H, H2, T), NEW A \in Acks, NEW A2 \in Acks,
             NEW ct \in [Server -> Nat], NEW ct2 \in [Server -> Nat],
             \A j \in Server : ct2[j] >= ct[j], AcksGrown(A, A2, ct2), Elected(H, T, A, ct),
             NewlyElected(H, T, H2, T2, A2, ct2)
      PROVE  Elected(H2, T2, A2, ct2)
  <2> USE <1>ElectedPreserved
  <2> SUFFICES ASSUME NEW t \in T2, NEW u \in T2, NEW k \in Nat, t < u, Own(H2, t, k)
               PROVE  AgreeUpTo(H2[u], H2[t], k) \/ Lost(t, k, A2, ct2)
    BY Zenon DEF Elected
  <2>1. CASE t \in T /\ u \in T /\ ~(k > Len(H[t]))
    <3>0. H2 \in [Nat -> Seq(Entry)]
      BY Zenon DEF Histories
    <3>1. t \in Nat /\ Len(H[t]) \in Nat
      BY Zenon, <2>1, HistoryType
    <3>2. k <= Len(H[t])
      BY <2>1, <3>1
    <3>3. Own(H, t, k)
      BY Zenon, <2>1, <3>0, <3>2, StillOwn
    <3>4. CASE AgreeUpTo(H[u], H[t], k)
      BY Zenon, <2>1, <3>0, <3>4, <1>StillAgree
    <3>5. CASE Lost(t, k, A, ct)
      BY Zenon, <3>1, <3>5, StillLost
    <3>6. QED
      BY Zenon, <2>1, <3>3, <3>4, <3>5 DEF Elected
  <2>2. QED
    BY Zenon, <2>1 DEF NewlyElected
\* A log still covers the acknowledgements, and those of later terms do not count.
<1>StillCovers. ASSUME NEW H, NEW T, Histories(H, T), NEW H2, NEW T2, Histories(H2, T2), T \subseteq T2,
             Extends(H, H2, T), Grown(H, T, H2),
             NEW acks, NEW m, NEW v, NEW b, Accounts(acks, m, v, b, H, T),
             NEW n, NEW w \in T, NEW t \in Nat, Covers(acks, n, w, t, H, T),
             NEW acks2, \A u \in Nat : u < t => acks2[u] = acks[u]
      PROVE  Covers(acks2, n, w, t, H2, T2)
  <2> USE <1>StillCovers
  <2>0. SUFFICES ASSUME NEW u \in T2, NEW k \in Nat, u < t, Own(H2, u, k), k <= acks2[u]
                 PROVE  (k <= n /\ AgreeUpTo(H2[w], H2[u], k)) \/ Superseded(H2, T2, u, k, t)
    BY Zenon DEF Covers
  <2>1. u \in Nat /\ Len(H2[u]) \in Nat /\ H2 \in [Nat -> Seq(Entry)]
    BY Zenon, HistoryType DEF Histories
  <2>2. k <= acks[u] /\ 0 < k
    BY Zenon, <2>0, <2>1, OwnReach
  <2>3. u \in T /\ k <= Len(H[u])
    BY Zenon, <2>1, <2>2 DEF Accounts
  <2>4. Own(H, u, k)
    BY Zenon, <2>0, <2>1, <2>3, StillOwn
  <2>5. CASE k <= n /\ AgreeUpTo(H[w], H[u], k)
    BY Zenon, <2>1, <2>3, <2>5, <1>StillAgree
  <2>6. CASE Superseded(H, T, u, k, t)
    <3>1. t <= t
      OBVIOUS
    <3>2. QED
      BY ZenonT(30), <2>3, <2>6, <3>1, <1>StillSuperseded
  <2>7. QED
    BY ZenonT(30), <2>0, <2>2, <2>3, <2>4, <2>5, <2>6 DEF Covers
\* A peer whose log is kept, or that takes what it lacks, accounts for what it acknowledged.
<1>StillAccounts. ASSUME NEW H, NEW T, Histories(H, T), NEW H2, NEW T2, Histories(H2, T2), T \subseteq T2,
             Extends(H, H2, T), Grown(H, T, H2),
             NEW acks \in [Nat -> Nat], NEW n \in Nat, NEW w \in T, NEW b \in Nat, Accounts(acks, n, w, b, H, T),
             NEW acks2 \in [Nat -> Nat], NEW n2 \in Nat, NEW w2 \in T2, NEW b2 \in Nat, b <= b2,
             NewAcks(acks, acks2, n2, w2, b2, H2, T2),
             (n2 = n /\ w2 = w) \/ Taken(n, w, n2, w2, b2, H2, T2)
      PROVE  Accounts(acks2, n2, w2, b2, H2, T2)
  <2> USE <1>StillAccounts
  <2>0. SUFFICES ASSUME NEW u \in Nat, NEW k \in Nat, 0 < k, k <= acks2[u]
                 PROVE  /\ u \in T2 /\ u <= b2 /\ k <= Len(H2[u])
                        /\ \/ k <= n2 /\ AgreeUpTo(H2[w2], H2[u], k)
                           \/ Superseded(H2, T2, u, k, b2)
    BY Zenon DEF Accounts
  <2>1. H2 \in [Nat -> Seq(Entry)] /\ acks2[u] \in Nat
    BY Zenon DEF Histories
  <2>2. Len(H2[u]) \in Nat /\ Len(H2[w2]) \in Nat
    BY Zenon, <2>1, HistoryType, LenType
  <2>3. CASE acks2[u] # acks[u]
    <3>1. u = b2 /\ u \in T2 /\ acks2[u] <= n2 /\ AgreeUpTo(H2[w2], H2[u], acks2[u])
      BY Zenon, <2>3 DEF NewAcks
    <3>2. AgreeUpTo(H2[w2], H2[u], k)
      BY ZenonT(30), <2>0, <2>1, <2>2, <3>1, AgreeShorter
    <3>3. u <= b2 /\ k <= n2
      BY <2>0, <2>1, <3>1
    <3>4. QED
      BY Zenon, <3>1, <3>2, <3>3 DEF AgreeUpTo
  <2>4. CASE acks2[u] = acks[u]
    <3>1. /\ u \in T /\ u <= b /\ k <= Len(H[u])
          /\ (k <= n /\ AgreeUpTo(H[w], H[u], k)) \/ Superseded(H, T, u, k, b)
      BY Zenon, <2>0, <2>4 DEF Accounts
    <3>2. u \in T2 /\ u <= b2 /\ k <= Len(H2[u])
      <4>1. Len(H[u]) \in Nat /\ Len(H[u]) <= Len(H2[u])
        BY Zenon, <3>1, HistoryType DEF Extends
      <4>2. QED
        BY Zenon, <2>2, <3>1, <4>1, AtMost
    <3>3. CASE Superseded(H, T, u, k, b)
      <4>1. Superseded(H2, T2, u, k, b2)
        BY Zenon, <3>1, <3>3, <1>StillSuperseded
      <4>2. QED
        BY Zenon, <3>2, <4>1
    <3>4. CASE k <= n /\ AgreeUpTo(H[w], H[u], k)
      <4>1. AgreeUpTo(H2[w], H2[u], k) /\ k <= n
        BY Zenon, <2>1, <3>1, <3>4, <1>StillAgree
      <4>2. CASE n2 = n /\ w2 = w
        BY Zenon, <3>2, <4>1, <4>2
      <4>3. CASE Taken(n, w, n2, w2, b2, H2, T2)
        <5>0. /\ b2 \in T2 /\ w2 \in T2 /\ AgreeUpTo(H2[b2], H2[w2], n2)
              /\ ~(n2 <= n /\ AgreeUpTo(H2[w], H2[b2], n2))
          BY Zenon, <4>3 DEF Taken
        <5>1. Len(H2[b2]) \in Nat /\ Len(H2[w]) \in Nat
          BY Zenon, <5>0, HistoryType
        <5>2. CASE ~AgreeUpTo(H2[b2], H2[u], k)
          <6>1. u # b2
            <7>1. SUFFICES ASSUME u = b2 PROVE FALSE
              BY Zenon
            <7>2. QED
              BY Zenon, <3>2, <5>2, <7>1 DEF AgreeUpTo
          <6>2. u < b2 /\ b2 <= b2
            BY <3>2, <6>1
          <6>3. Superseded(H2, T2, u, k, b2)
            BY Zenon, <5>0, <5>2, <6>2 DEF Superseded
          <6>4. QED
            BY Zenon, <3>2, <6>3
        <5>3. CASE AgreeUpTo(H2[b2], H2[u], k)
          <6>1. AgreeUpTo(H2[u], H2[b2], k)
            <7>1. k <= k
              OBVIOUS
            <7>2. QED
              BY ZenonT(30), <2>2, <5>1, <5>3, <7>1, AgreeShorter
          <6>2. AgreeUpTo(H2[w], H2[b2], k)
            BY Zenon, <4>1, <6>1, AgreeTransitive
          <6>3. k <= n2
            <7>1. SUFFICES ASSUME ~(k <= n2) PROVE FALSE
              BY ZenonT(30)
            <7>2. n2 <= k /\ n2 <= n
              BY <4>1, <7>1
            <7>3. AgreeUpTo(H2[w], H2[b2], n2)
              BY Zenon, <5>1, <6>2, <7>2, AgreeShorter
            <7>4. QED
              BY Zenon, <5>0, <7>2, <7>3
          <6>4. AgreeUpTo(H2[w2], H2[b2], k)
            BY ZenonT(30), <2>2, <5>0, <5>1, <6>3, AgreeShorter
          <6>5. AgreeUpTo(H2[w2], H2[u], k)
            BY Zenon, <5>3, <6>4, AgreeTransitive
          <6>6. QED
            BY Zenon, <3>2, <6>3, <6>5
        <5>4. QED
          BY Zenon, <5>2, <5>3
      <4>4. QED
        BY Zenon, <4>2, <4>3
    <3>5. QED
      BY Zenon, <3>1, <3>3, <3>4
  <2>5. QED
    BY Zenon, <2>3, <2>4
\* What a peer knows to be committed is not what it drops for the log of a leader.
<1>CommittedTaken. ASSUME NEW H, NEW T, Histories(H, T), NEW A \in Acks, Stands(H, T, A),
             NEW c \in Nat, NEW b \in Nat, NEW b2 \in Nat, b <= b2,
             NEW w \in T, NEW n \in Nat, KnownCommitted(c, n, b, w, H, T, A), NEW n2 \in Nat, NEW w2, Taken(n, w, n2, w2, b2, H, T)
      PROVE  KnownCommitted(c, n2, b2, w2, H, T, A)
  <2> USE <1>CommittedTaken
  <2>0. /\ b2 \in T /\ w2 \in T /\ AgreeUpTo(H[b2], H[w2], n2)
        /\ ~(n2 <= n /\ AgreeUpTo(H[w], H[b2], n2))
    BY Zenon DEF Taken
  <2>1. Len(H[w]) \in Nat /\ Len(H[w2]) \in Nat /\ Len(H[b2]) \in Nat
    BY Zenon, <2>0, HistoryType
  <2>2. AgreeUpTo(H[w], H[b2], c) /\ c <= n
    BY Zenon, <2>0, <2>1, CommittedStands DEF KnownCommitted
  <2>3. c <= n2
    <3>1. SUFFICES ASSUME ~(c <= n2) PROVE FALSE
      BY Zenon
    <3>2. n2 <= c /\ n2 <= n
      BY <2>2, <3>1
    <3>3. AgreeUpTo(H[w], H[b2], n2)
      BY Zenon, <2>1, <2>2, <3>2, AgreeShorter
    <3>4. QED
      BY Zenon, <2>0, <3>2, <3>3
  <2>4. AgreeUpTo(H[w2], H[b2], c)
    BY Zenon, <2>0, <2>1, <2>3, AgreeShorter
  <2>5. c <= c
    OBVIOUS
  <2>6. AgreeUpTo(H[b2], H[w], c)
    BY Zenon, <2>1, <2>2, <2>5, AgreeShorter
  <2>7. AgreeUpTo(H[w2], H[w], c)
    BY Zenon, <2>4, <2>6, AgreeTransitive
  <2>8. Extends(H, H, T)
    BY Zenon, ExtendsSelf
  <2>9. \A j \in Server, t \in Nat : A[j][t] <= A[j][t]
    BY DEF Acks
  <2>10. Committed(c, b2, H[w2], H, T, A)
    BY Zenon, <2>1, <2>5, <2>7, <2>8, <2>9, StillCommitted DEF KnownCommitted
  <2>11. QED
    BY Zenon, <2>3, <2>10 DEF KnownCommitted
\* The same after a step.
<1>LastTypedNext. ASSUME NEW H, NEW T
      PROVE  TypeOK' /\ LogInv(H, T)' => \A j \in Server : LastTypes(j, H, T)'
  <2> USE <1>LastTypedNext
  <2>1. TypeOK' /\ LogInv(H, T)' => (\A j \in Server : LastTypes(j, H, T))'
    BY LastTyped, PTL
  <2>2. QED
    BY Zenon, <2>1
\* A peer's log ends where it ended, or it took its leader's.
<1>LastStep. ASSUME NEW H, NEW T, NEW H2, NEW T2, LogStep(H, T, H2, T2), TypeOK', NEW j \in Server
      PROVE  LastMoves(j, H2, T2)
  <2> USE <1>LastStep
  <2>1. CASE Keeps(j)
    BY Zenon, <2>1 DEF Keeps, LastMoves
  <2>2. CASE Takes(j, H2, T2)
    <3>1. PICK t \in T2 : /\ t = currentTerm'[j] /\ role'[j] # "Candidate" /\ Follows(j, H2[t])'
                          /\ ~Reaches(j, H2, t, LastLogIndex(j)')
      BY Zenon, <2>2 DEF Takes
    <3>2. HeldTypes(j)' /\ Histories(H2, T2)
      BY Zenon, HeldTypedNext DEF LogStep
    <3>3. FollowsToLast(j, H2, T2, t)'
      BY Zenon, <3>1, <3>2, FollowsLastNext
    <3>4. LastLogTerm(j)' \in T2 /\ AgreeUpTo(H2[t], H2[LastLogTerm(j)'], LastLogIndex(j)')
      BY Zenon, <3>3 DEF FollowsToLast
    <3>5. Taken(LastLogIndex(j), LastLogTerm(j), LastLogIndex(j)', LastLogTerm(j)', t, H2, T2)
      BY Zenon, <3>1, <3>4 DEF Taken, Reaches
    <3>6. QED
      BY Zenon, <3>1, <3>5 DEF LastMoves
  <2>3. QED
    BY Zenon, <2>1, <2>2 DEF LogStep
<1> SUFFICES ASSUME NEW H, NEW T, NEW A, NEW H2, NEW T2, NEW A2,
                    CommitInv(H, T, A), CommitStep(H, T, A, H2, T2, A2),
                    LogInv(H, T), LogStep(H, T, H2, T2), LogInv(H2, T2)',
                    Majorities, TypeOK, TypeOK', VotesRemembered, RolesStep
             PROVE  CommitInv(H2, T2, A2)'
  BY ZenonT(30)
<1> USE DEF LastTypes
<1>1. /\ Histories(H, T) /\ Histories(H2, T2) /\ T \subseteq T2 /\ Extends(H, H2, T)
      /\ H2 \in [Nat -> Seq(Entry)] /\ Grown(H, T, H2)
  BY Zenon DEF LogInv, LogStep, CommitStep, AcksStep, Histories
<1>2. A \in Acks /\ A2 \in Acks /\ \A j \in Server, t \in Nat : A[j][t] <= A2[j][t]
  BY Zenon DEF CommitInv, CommitStep, AcksStep, AckStep
<1>3. ASSUME NEW j \in Server PROVE A[j] \in [Nat -> Nat] /\ A2[j] \in [Nat -> Nat]
  BY Zenon, <1>2 DEF Acks
<1>4. ASSUME NEW j \in Server PROVE LastTypes(j, H, T) /\ LastTypes(j, H2, T2)'
  BY Zenon, LastTyped, <1>LastTypedNext
<1>5. ASSUME NEW j \in Server
      PROVE  currentTerm[j] \in Nat /\ currentTerm'[j] \in Nat /\ currentTerm[j] <= currentTerm'[j]
  BY Zenon, <1>4 DEF RolesStep
<1>6. ASSUME NEW j \in Server PROVE LastMoves(j, H2, T2)
  BY Zenon, <1>LastStep
<1>7. ASSUME NEW j \in Server, NEW t \in Nat, t < currentTerm'[j] PROVE A2[j][t] = A[j][t]
  <2>1. t # currentTerm'[j]
    BY <1>5, <1>7
  <2>2. QED
    BY Zenon, <2>1 DEF CommitStep, AcksStep, AckStep, NewAcks
<1>8. AcksFit(H2, T2, A2)'
  <2>1. SUFFICES ASSUME NEW j \in Server
                 PROVE  Accounts(A2[j], LastLogIndex(j)', LastLogTerm(j)', currentTerm'[j], H2, T2)
    BY Zenon DEF AcksFit
  <2>2. Accounts(A[j], LastLogIndex(j), LastLogTerm(j), currentTerm[j], H, T)
    BY Zenon DEF CommitInv, AcksFit
  <2>3. NewAcks(A[j], A2[j], LastLogIndex(j)', LastLogTerm(j)', currentTerm'[j], H2, T2)
    BY Zenon DEF CommitStep, AcksStep, AckStep
  <2>4. /\ LastLogIndex(j) \in Nat /\ LastLogTerm(j) \in T
        /\ LastLogIndex(j)' \in Nat /\ LastLogTerm(j)' \in T2
    BY Zenon, <1>4
  <2>5. \/ LastLogIndex(j)' = LastLogIndex(j) /\ LastLogTerm(j)' = LastLogTerm(j)
        \/ Taken(LastLogIndex(j), LastLogTerm(j), LastLogIndex(j)', LastLogTerm(j)', currentTerm'[j], H2, T2)
    BY Zenon, <1>6 DEF LastMoves
  <2>6. QED
    BY Zenon, <1>1, <1>3, <1>5, <2>2, <2>3, <2>4, <2>5, <1>StillAccounts
<1>9. Elected(H2, T2, A2, currentTerm')
  <2>1. currentTerm \in [Server -> Nat] /\ currentTerm' \in [Server -> Nat]
    BY Zenon DEF TypeOK
  <2>2. AcksGrown(A, A2, currentTerm')
    BY Zenon, <1>2 DEF CommitStep, AcksStep, AckStep, NewAcks, AcksGrown
  <2>3. \A j \in Server : currentTerm'[j] >= currentTerm[j]
    BY Zenon DEF RolesStep
  <2>4. Elected(H, T, A, currentTerm) /\ NewlyElected(H, T, H2, T2, A2, currentTerm')
    BY Zenon DEF CommitInv, CommitStep, AcksStep
  <2>5. Histories(H, T) /\ Histories(H2, T2) /\ Extends(H, H2, T) /\ A \in Acks /\ A2 \in Acks
    BY Zenon, <1>1, <1>2
  <2>6. QED
    BY ONLY SMTT(30), <2>1, <2>2, <2>3, <2>4, <2>5, <1>ElectedPreserved
<1>10. ASSUME NEW c \in Server, role'[c] = "Candidate", NEW t \in Nat, currentTerm'[c] = t, t <= currentTerm[c]
       PROVE  /\ role[c] = "Candidate" /\ currentTerm[c] = t
              /\ LastLogIndex(c)' = LastLogIndex(c) /\ LastLogTerm(c)' = LastLogTerm(c)
  <2>0. currentTerm[c] \in Nat /\ currentTerm[c] <= currentTerm'[c]
    BY Zenon, <1>5
  <2>1. currentTerm[c] = t
    BY ONLY <1>10, <2>0
  <2>2. ~(currentTerm'[c] > currentTerm[c])
    BY ONLY <1>10, <2>0
  <2>3. role[c] = "Candidate"
    BY Zenon, <1>10, <2>2 DEF RolesStep
  <2>4. QED
    BY Zenon, <1>6, <1>10, <2>1, <2>3 DEF LastMoves
<1>11. ASSUME NEW j \in Server, NEW c \in Server, NEW t \in Nat, Granted(j, t, c)'
       PROVE  VoteFits(j, t, c, H2, T2, A2)'
  <2>1. SUFFICES ASSUME Granted(j, t, c) PROVE VoteFits(j, t, c, H2, T2, A2)'
    BY Zenon, <1>11 DEF CommitStep, VotesStep
  <2>2. VoteFits(j, t, c, H, T, A)
    BY Zenon, <2>1 DEF CommitInv
  <2>3. t <= currentTerm'[c]
    BY Zenon, <1>5, <2>2, AtMost DEF VoteFits
  <2>4. ASSUME role'[c] = "Candidate", currentTerm'[c] = t
        PROVE  Covers(A2[j], LastLogIndex(c)', LastLogTerm(c)', t, H2, T2)
    <3>1. /\ role[c] = "Candidate" /\ currentTerm[c] = t
          /\ LastLogIndex(c)' = LastLogIndex(c) /\ LastLogTerm(c)' = LastLogTerm(c)
      BY Zenon, <1>10, <2>2, <2>4 DEF VoteFits
    <3>2. Covers(A[j], LastLogIndex(c), LastLogTerm(c), t, H, T)
      BY Zenon, <2>2, <3>1 DEF VoteFits
    <3>3. t <= currentTerm'[j]
      <4>1. currentTerm[j] > t \/ currentTerm[j] = t
        BY Zenon, <2>1 DEF VotesRemembered
      <4>2. QED
        BY <1>5, <4>1
    <3>4. ASSUME NEW u \in Nat, u < t PROVE A2[j][u] = A[j][u]
      <4>1. u < currentTerm'[j]
        BY <1>5, <3>3, <3>4
      <4>2. QED
        BY Zenon, <1>7, <4>1
    <3>5. Accounts(A[j], LastLogIndex(j), LastLogTerm(j), currentTerm[j], H, T)
      BY Zenon DEF CommitInv, AcksFit
    <3>6. LastLogTerm(c) \in T
      BY Zenon, <1>4
    <3>7. Covers(A2[j], LastLogIndex(c), LastLogTerm(c), t, H2, T2)
      BY ZenonT(30), <1>1, <3>2, <3>4, <3>5, <3>6, <1>StillCovers
    <3>8. QED
      BY Zenon, <3>1, <3>7
  <2>5. QED
    BY Zenon, <2>3, <2>4 DEF VoteFits
<1>12. ASSUME NEW m \in rvArgs' PROVE AskFits(m)'
  <2>1. SUFFICES ASSUME m \in rvArgs PROVE AskFits(m)'
    BY Zenon, <1>12 DEF CommitStep, VotesStep
  <2>2. m.from \in Server /\ m.term \in Nat
    BY Zenon, <2>1 DEF TypeOK, RequestVoteArgs
  <2>3. AskFits(m)
    BY Zenon, <2>1 DEF CommitInv
  <2>4. m.term <= currentTerm'[m.from]
    BY Zenon, <1>5, <2>2, <2>3, AtMost DEF AskFits
  <2>5. QED
    BY Zenon, <1>10, <2>2, <2>3, <2>4 DEF AskFits
<1>13. Stands(H2, T2, A2)
  BY Zenon, <1>1, <1>2, <1>9, ElectedStands
<1>14. ASSUME NEW i \in Server PROVE CommitFits(i, H2, T2, A2)'
  <2>1. SUFFICES ASSUME commitIndex'[i] = commitIndex[i] PROVE CommitFits(i, H2, T2, A2)'
    BY Zenon DEF CommitStep, CommitsStep
  <2>2. PICK c \in Nat : c = commitIndex[i]
    BY Zenon DEF TypeOK
  <2>3. PICK n, w, n2, w2 : /\ n = LastLogIndex(i) /\ w = LastLogTerm(i)
                            /\ n2 = LastLogIndex(i)' /\ w2 = LastLogTerm(i)'
    BY Zenon
  <2>4. /\ n \in Nat /\ w \in T /\ n2 \in Nat /\ w2 \in T2
        /\ n <= Len(H[w]) /\ Len(H[w]) \in Nat /\ Len(H2[w2]) \in Nat
    BY Zenon, <1>4, <2>3
  <2>5. c <= n /\ Committed(c, currentTerm[i], H[w], H, T, A)
    BY Zenon, <2>2, <2>3 DEF CommitInv, CommitFits, KnownCommitted
  <2>6. c <= c /\ c <= Len(H[w])
    BY <2>4, <2>5
  <2>7. Committed(c, currentTerm'[i], H2[w], H2, T2, A2)
    <3>1. AgreeUpTo(H2[w], H[w], Len(H[w])) /\ Len(H2[w]) \in Nat
      BY Zenon, <1>1, <2>4, HistoryType DEF Extends
    <3>2. AgreeUpTo(H2[w], H[w], c)
      BY Zenon, <2>4, <2>6, <3>1, AgreeShorter
    <3>3. QED
      BY ZenonT(30), <1>1, <1>2, <1>5, <2>4, <2>5, <2>6, <3>2, StillCommitted
  <2>8. KnownCommitted(c, n2, currentTerm'[i], w2, H2, T2, A2)
    <3>0. KnownCommitted(c, n, currentTerm'[i], w, H2, T2, A2)
      BY Zenon, <2>5, <2>7 DEF KnownCommitted
    <3>1. CASE n2 = n /\ w2 = w
      BY Zenon, <3>0, <3>1
    <3>2. CASE Taken(n, w, n2, w2, currentTerm'[i], H2, T2)
      <4>0. w \in T2
        BY ZenonT(30), <1>1, <2>4
      <4>1. currentTerm'[i] <= currentTerm'[i]
        BY <1>5
      <4>2. QED
        BY ZenonT(30), <1>1, <1>2, <1>5, <1>13, <2>4, <3>0, <3>2, <4>0, <4>1, <1>CommittedTaken
    <3>3. QED
      BY Zenon, <1>6, <2>3, <3>1, <3>2 DEF LastMoves
  <2>9. QED
    BY Zenon, <2>1, <2>2, <2>3, <2>8 DEF CommitFits
<1>15. ASSUME NEW n \in Nat, NEW t \in T, Committed(n, t, H[t], H, T, A)
       PROVE  Committed(n, t, H2[t], H2, T2, A2)
  <2>1. t \in Nat /\ Len(H[t]) \in Nat /\ Len(H2[t]) \in Nat
    BY Zenon, <1>1, HistoryType
  <2>2. t <= t /\ n <= n
    BY <2>1
  <2>3. CASE n = 0
    BY Zenon, <2>3 DEF Committed
  <2>4. CASE n # 0
    <3>1. n <= Len(H[t])
      BY Zenon, <1>15, <2>4 DEF Committed, AgreeUpTo
    <3>2. AgreeUpTo(H2[t], H[t], Len(H[t]))
      BY Zenon, <1>1 DEF Extends
    <3>3. AgreeUpTo(H2[t], H[t], n)
      BY Zenon, <2>1, <3>1, <3>2, AgreeShorter
    <3>4. QED
      BY ZenonT(30), <1>1, <1>2, <1>15, <2>1, <2>2, <3>3, StillCommitted
  <2>5. QED
    BY Zenon, <2>3, <2>4
<1>16. ASSUME NEW m \in aeArgs' PROVE AppendCommits(m, H2, T2, A2)
  <2>1. SUFFICES ASSUME m \in aeArgs PROVE AppendCommits(m, H2, T2, A2)
    BY Zenon, <1>16 DEF CommitStep, CallsStep
  <2>2. m.leaderCommit \in Nat
    BY Zenon, <2>1 DEF TypeOK, AppendEntriesArgs
  <2>3. m.term \in T
    BY Zenon, <2>1 DEF LogInv, AppendFollows
  <2>4. QED
    BY Zenon, <1>15, <2>1, <2>2, <2>3 DEF CommitInv, AppendCommits
<1>17. ASSUME NEW m \in isArgs' PROVE SnapshotCommits(m, H2, T2, A2)
  <2>1. SUFFICES ASSUME m \in isArgs PROVE SnapshotCommits(m, H2, T2, A2)
    BY Zenon, <1>17 DEF CommitStep, CallsStep
  <2>2. m.lastIncludedIndex \in Nat
    BY Zenon, <2>1 DEF TypeOK, InstallSnapshotArgs
  <2>3. m.term \in T
    BY Zenon, <2>1 DEF LogInv, SnapshotFollows
  <2>4. QED
    BY Zenon, <1>15, <2>1, <2>2, <2>3 DEF CommitInv, SnapshotCommits
<1>18. ASSUME NEW j \in Server, NEW t \in Nat, NEW n \in Nat, n <= A[j][t]
       PROVE  n <= A2[j][t]
  BY Zenon, <1>2, <1>3, <1>18, AtMost
<1>19. ASSUME NEW t \in T, NEW n \in 1..Len(H[t]) + 1 PROVE n \in 1..Len(H2[t]) + 1
  <2>1. Len(H[t]) \in Nat /\ Len(H2[t]) \in Nat /\ Len(H[t]) <= Len(H2[t])
    BY Zenon, <1>1, HistoryType DEF Extends
  <2>2. QED
    BY <2>1
<1>20. ASSUME NEW r \in aeReplies' PROVE AppendAnswers(r, H2, T2, A2)
  <2>1. SUFFICES ASSUME r \in aeReplies PROVE AppendAnswers(r, H2, T2, A2)
    BY Zenon, <1>20 DEF CommitStep, AnswersStep
  <2>2. /\ r.from \in Server /\ r.reqTerm \in Nat
        /\ r.prevLogIndex \in Nat /\ r.count \in Nat
    BY Zenon, <2>1 DEF TypeOK, AppendEntriesReply
  <2>3. r.prevLogIndex + r.count \in Nat
    BY <2>2
  <2>4. AppendAnswers(r, H, T, A)
    BY Zenon, <2>1 DEF CommitInv
  <2>5. QED
    BY Zenon, <1>1, <1>18, <1>19, <2>2, <2>3, <2>4 DEF AppendAnswers
<1>21. ASSUME NEW r \in isReplies' PROVE SnapshotAnswers(r, T2, A2)
  <2>1. SUFFICES ASSUME r \in isReplies PROVE SnapshotAnswers(r, T2, A2)
    BY Zenon, <1>21 DEF CommitStep, AnswersStep
  <2>2. r.from \in Server /\ r.reqTerm \in Nat /\ r.lastIncludedIndex \in Nat
    BY Zenon, <2>1 DEF TypeOK, InstallSnapshotReply
  <2>3. SnapshotAnswers(r, T, A)
    BY Zenon, <2>1 DEF CommitInv
  <2>4. QED
    BY Zenon, <1>1, <1>18, <2>2, <2>3 DEF SnapshotAnswers
<1>22. ASSUME NEW i \in Server, role'[i] = "Leader" PROVE LeaderFits(i, H2, A2)'
  <2>1. SUFFICES ASSUME LeaderKeeps(i) PROVE LeaderFits(i, H2, A2)'
    BY Zenon, <1>22 DEF CommitStep, LeadersStep
  <2>2. /\ LeaderFits(i, H, A) /\ currentTerm[i] \in T
        /\ currentTerm'[i] = currentTerm[i]
    BY Zenon, <1>22, <2>1 DEF CommitInv, LogInv, LeaderFollows, LeaderKeeps, RolesStep
  <2>3. PICK t \in T : t = currentTerm[i]
    BY Zenon, <2>2
  <2>4. t \in Nat /\ LastLogIndex(i) \in Nat
    BY Zenon, <1>4, <2>3
  <2>5. LastLogIndex(i)' <= A2[i][t]
    BY Zenon, <1>18, <2>1, <2>2, <2>3, <2>4 DEF LeaderFits, LeaderKeeps
  <2>6. ASSUME NEW j \in Server \ {i}
        PROVE  matchIndex'[i][j] <= A2[j][t] /\ nextIndex'[i][j] \in 1..Len(H2[t]) + 1
    <3>1. matchIndex[i][j] \in Nat /\ nextIndex[i][j] \in Nat
      BY Zenon DEF TypeOK
    <3>2. matchIndex[i][j] <= A[j][t] /\ nextIndex[i][j] \in 1..Len(H[t]) + 1
      BY Zenon, <2>2, <2>3 DEF LeaderFits
    <3>3. QED
      BY Zenon, <1>18, <1>19, <2>1, <2>4, <3>1, <3>2 DEF LeaderKeeps
  <2>7. QED
    BY Zenon, <2>2, <2>3, <2>5, <2>6 DEF LeaderFits
<1>23. \A i \in Server : ApplyFits(i)'
  BY Zenon DEF CommitStep, CommitsStep
<1>24. QED
  BY ZenonT(30), <1>2, <1>8, <1>9, <1>11, <1>12, <1>14, <1>16, <1>17, <1>20, <1>21, <1>22, <1>23
     DEF CommitInv, AppendCommits, SnapshotCommits, AppendAnswers, SnapshotAnswers

-----------------------------------------------------------------------------
(* What is known of a step, and what it must do *)

\* What is known before a step and about it.
Ready(H, T, A) ==
  /\ LogInv(H, T) /\ CommitInv(H, T, A) /\ ElectionInv
  /\ TypeOK' /\ RolesStep /\ votes \subseteq votes'

\* The leaders' logs and the acknowledgements follow the step.
Advances(H, T, A) == \E H2, T2, A2 : LogStep(H, T, H2, T2) /\ CommitStep(H, T, A, H2, T2, A2)

-----------------------------------------------------------------------------
(* What several steps have in common *)

\* What Histories says of one entry.
Descends(H, T, t, k) ==
  /\ H[t][k].term \in T /\ H[t][k].term <= t
  /\ AgreeUpTo(H[t], H[H[t][k].term], k)
  /\ \A x \in 1..k : H[t][x].term <= H[t][k].term

\* The entries that were there are as they were.
LEMMA StillDescends ==
  ASSUME NEW H, NEW T, Histories(H, T), NEW H2, H2 \in [Nat -> Seq(Entry)], Extends(H, H2, T),
         NEW t \in T, NEW k \in 1..Len(H[t])
  PROVE  Descends(H2, T, t, k)
<1> DEFINE u == H[t][k].term
<1>1. u \in T /\ u <= t /\ AgreeUpTo(H[t], H[u], k) /\ \A x \in 1..k : H[t][x].term <= u
  BY Zenon DEF Histories
<1>2. Len(H[t]) \in Nat /\ Len(H[u]) \in Nat /\ t \in Nat /\ u \in Nat
  BY Zenon, <1>1, HistoryType
<1> HIDE DEF u
<1>0. H2[t] \in Seq(Entry) /\ H2[u] \in Seq(Entry)
  BY Zenon, <1>2
<1>3. Len(H2[t]) \in Nat /\ Len(H2[u]) \in Nat
  BY Zenon, <1>0, LenType
<1>11. AgreeUpTo(H[t], H[u], k)
  BY Zenon, <1>1
<1>4. AgreeUpTo(H2[t], H[t], Len(H[t])) /\ AgreeUpTo(H2[u], H[u], Len(H[u]))
  BY Zenon, <1>1 DEF Extends
<1>5. k \in Nat /\ k <= Len(H[t]) /\ k <= Len(H[u]) /\ k \in 1..k
  <2> DEFINE n == Len(H[t])
  <2>1. k <= Len(H[u]) /\ n \in Nat /\ k \in 1..n
    BY Zenon, <1>2, <1>11 DEF AgreeUpTo
  <2>2. ASSUME NEW q \in Nat PROVE \A x \in 1..q : x \in Nat /\ x <= q /\ x \in 1..x
    OBVIOUS
  <2>3. QED
    BY Zenon, <2>1, <2>2
<1>6. AgreeUpTo(H2[t], H[t], k) /\ AgreeUpTo(H[u], H2[u], k)
  BY Zenon, <1>2, <1>3, <1>4, <1>5, AgreeShorter
<1>7. AgreeUpTo(H2[t], H2[u], k)
  BY Zenon, <1>1, <1>6, AgreeTransitive
<1>8. \A x \in 1..k : H2[t][x] = H[t][x]
  BY Zenon, <1>6 DEF AgreeUpTo
<1>9. H2[t][k].term = u
  BY Zenon, <1>5, <1>8 DEF u
<1>10. QED
  BY Zenon, <1>1, <1>7, <1>8, <1>9 DEF Descends

\* The step leaves alone the variables in which peer i holds its log.
LogKept(i) ==
  /\ log'[i] = log[i] /\ lastIncludedIndex'[i] = lastIncludedIndex[i]
  /\ lastIncludedTerm'[i] = lastIncludedTerm[i]
  /\ persister'[i].snapshot = persister[i].snapshot

\* A peer whose variables are kept holds what it held.
LEMMA KeptIsKept ==
  ASSUME NEW i, LogKept(i)
  PROVE  Keeps(i)
<1>1. LastLogIndex(i)' = LastLogIndex(i)
  BY Zenon DEF LogKept, LastLogIndex
<1>2. LastLogTerm(i)' = LastLogTerm(i)
  BY Zenon, <1>1 DEF LogKept, LastLogTerm, TermAt
<1>3. \A s : Follows(i, s) => Follows(i, s)'
  BY Zenon DEF LogKept, Follows
<1>4. QED
  BY Zenon, <1>1, <1>2, <1>3 DEF Keeps

\* Save writes the snapshot it is given, to no other peer's disk.
LEMMA SavedSnapshot ==
  ASSUME TypeOK, NEW i \in Server, NEW snapshot, Save(i, snapshot)
  PROVE  /\ persister'[i].snapshot = snapshot
         /\ \A j \in Server : j # i => persister'[j] = persister[j]
<1>1. persister \in [Server -> Saved]
  BY Zenon DEF TypeOK
<1>2. /\ persister'[i] = [currentTerm |-> currentTerm'[i], votedFor |-> votedFor'[i],
                          log |-> log'[i], lastIncludedIndex |-> lastIncludedIndex'[i],
                          lastIncludedTerm |-> lastIncludedTerm'[i], snapshot |-> snapshot]
      /\ \A j \in Server : j # i => persister'[j] = persister[j]
  BY Zenon, <1>1 DEF Save
<1>3. persister'[i].snapshot = snapshot
  BY <1>2
<1>4. QED
  BY Zenon, <1>2, <1>3

\* Nobody votes.
LEMMA SameVotes ==
  ASSUME NEW H2, NEW T2, NEW A2, votes' = votes, rvReplies' \subseteq rvReplies, rvArgs' \subseteq rvArgs
  PROVE  VotesStep(H2, T2, A2)
<1>1. \A j, c \in Server, t \in Nat : Granted(j, t, c)' => Granted(j, t, c)
  BY Zenon DEF Granted
<1>2. QED
  BY Zenon, <1>1 DEF VotesStep

\* No index moves.
LEMMA SameCommits ==
  ASSUME NEW H, NEW T, NEW A, CommitInv(H, T, A), NEW H2, NEW T2, NEW A2,
         UNCHANGED <<commitIndex, lastApplied, lastIncludedIndex>>
  PROVE  CommitsStep(H2, T2, A2)
  BY Zenon DEF CommitInv, CommitsStep, ApplyFits

\* No call is made.
LEMMA SameCalls ==
  ASSUME NEW H2, NEW T2, NEW A2, aeArgs' \subseteq aeArgs, isArgs' \subseteq isArgs
  PROVE  CallsStep(H2, T2, A2)
  BY Zenon DEF CallsStep

\* No reply is sent.
LEMMA SameAnswers ==
  ASSUME NEW H2, NEW T2, NEW A2, aeReplies' \subseteq aeReplies, isReplies' \subseteq isReplies
  PROVE  AnswersStep(H2, T2, A2)
  BY Zenon DEF AnswersStep

\* The acknowledgements of one peer in one term reach n.
AckRaised(A, A2, i, t, n) ==
  /\ A2 \in Acks /\ A2[i][t] = n
  /\ \A u \in Nat : u # t => A2[i][u] = A[i][u]
  /\ \A j \in Server : j # i => A2[j] = A[j]
  /\ \A j \in Server, u \in Nat : A[j][u] <= A2[j][u]

\* One acknowledgement is raised.
LEMMA AckOne ==
  ASSUME NEW A \in Acks, NEW i \in Server, NEW t \in Nat, NEW n \in Nat, A[i][t] <= n,
         NEW A2, A2 = [A EXCEPT ![i] = [@ EXCEPT ![t] = n]]
  PROVE  AckRaised(A, A2, i, t, n)
<1>1. A[i] \in [Nat -> Nat]
  BY Zenon DEF Acks
<1>2. PICK a : a = [A[i] EXCEPT ![t] = n]
  BY Zenon
<1>3. a \in [Nat -> Nat] /\ a[t] = n /\ \A u \in Nat : u # t => a[u] = A[i][u]
  BY Zenon, <1>1, <1>2
<1>4. A2 = [A EXCEPT ![i] = a]
  BY Zenon, <1>2
<1>5. A2[i] = a /\ \A j \in Server : j # i => A2[j] = A[j]
  BY Zenon, <1>4 DEF Acks
<1>6. A2 \in Acks
  BY Zenon, <1>3, <1>4 DEF Acks
<1>7. ASSUME NEW j \in Server, NEW u \in Nat PROVE A[j][u] <= A2[j][u]
  <2>1. A[j][u] \in Nat
    BY Zenon DEF Acks
  <2>2. CASE j = i /\ u = t
    BY Zenon, <1>3, <1>5, <2>2
  <2>3. CASE ~(j = i /\ u = t)
    <3>1. A2[j][u] = A[j][u]
      BY Zenon, <1>3, <1>5, <2>3
    <3>2. QED
      BY <2>1, <3>1
  <2>4. QED
    BY Zenon, <2>2, <2>3
<1>8. QED
  BY Zenon, <1>3, <1>5, <1>6, <1>7 DEF AckRaised

\* Nobody acknowledges more than the leader's log has.
LEMMA AckedReach ==
  ASSUME NEW H, NEW T, NEW A, Histories(H, T), CommitInv(H, T, A), NEW j \in Server, NEW t \in T
  PROVE  A[j][t] \in Nat /\ A[j][t] <= Len(H[t])
<1>1. t \in Nat /\ Len(H[t]) \in Nat
  BY Zenon, HistoryType
<1>2. A[j][t] \in Nat
  BY Zenon, <1>1 DEF CommitInv, Acks
<1>3. Accounts(A[j], LastLogIndex(j), LastLogTerm(j), currentTerm[j], H, T)
  BY Zenon DEF CommitInv, AcksFit
<1>4. PICK a : a = A[j][t]
  BY Zenon
<1>5. a \in Nat /\ a <= a
  BY <1>2, <1>4
<1>6. 0 < a => a <= Len(H[t])
  BY Zenon, <1>1, <1>3, <1>4, <1>5 DEF Accounts
<1>7. a <= Len(H[t])
  BY <1>1, <1>5, <1>6
<1>8. QED
  BY Zenon, <1>4, <1>5, <1>7

\* A voter is at least in the term it voted in.
LEMMA VoterTerm ==
  ASSUME TypeOK, VotesRemembered, NEW j \in Server, NEW c \in Server, NEW t \in Nat, Granted(j, t, c)
  PROVE  currentTerm[j] >= t
<1>1. currentTerm[j] > t \/ currentTerm[j] = t
  BY Zenon DEF VotesRemembered
<1>2. currentTerm[j] \in Nat
  BY Zenon DEF TypeOK
<1>3. QED
  BY <1>1, <1>2

\* A prefix of a sequence.
LEMMA Prefixes ==
  ASSUME NEW S, NEW s \in Seq(S), NEW n \in 0..Len(s)
  PROVE  /\ SubSeq(s, 1, n) \in Seq(S) /\ Len(SubSeq(s, 1, n)) = n
         /\ \A k \in 1..n : SubSeq(s, 1, n)[k] = s[k]
  OBVIOUS

\* The terms of a leader's log ascend.
LEMMA HistoryAscends ==
  ASSUME NEW H, NEW T, Histories(H, T), NEW t \in T, NEW k \in 0..Len(H[t]), NEW x \in 0..k
  PROVE  TermOf(H[t], x) <= TermOf(H[t], k)
<1>1. TermOf(H[t], k) \in Nat /\ Len(H[t]) \in Nat
  BY Zenon, HistoryTerm, HistoryType
<1>2. CASE x = 0
  <2>1. TermOf(H[t], x) = 0
    BY Zenon, <1>2 DEF TermOf
  <2>2. QED
    BY <1>1, <2>1
<1>3. CASE x # 0
  <2>1. k \in 1..Len(H[t]) /\ x \in 1..k /\ k # 0
    BY <1>1, <1>3
  <2>2. TermOf(H[t], x) = H[t][x].term /\ TermOf(H[t], k) = H[t][k].term
    BY Zenon, <1>3, <2>1 DEF TermOf
  <2>3. H[t][x].term <= H[t][k].term
    BY Zenon, <2>1 DEF Histories
  <2>4. QED
    BY Zenon, <2>2, <2>3
<1>4. QED
  BY Zenon, <1>2, <1>3

\* persist leaves the log and the snapshot alone.
LEMMA PersistKeeps ==
  ASSUME TypeOK, NEW i \in Server, UNCHANGED logVars, Persist(i) \/ UNCHANGED persister
  PROVE  \A j \in Server : LogKept(j)
<1>1. CASE Persist(i)
  <2>1. /\ persister'[i].snapshot = persister[i].snapshot
        /\ \A j \in Server : j # i => persister'[j] = persister[j]
    BY Zenon, <1>1, SavedSnapshot DEF Persist
  <2>2. QED
    BY Zenon, <2>1 DEF LogKept, logVars
<1>2. CASE UNCHANGED persister
  BY Zenon, <1>2 DEF LogKept, logVars
<1>3. QED
  BY Zenon, <1>1, <1>2

\* Every peer holds what it held, nobody wins an election, and the new calls and
\* refusals are right.
LEMMA QuietLog ==
  ASSUME NEW H, NEW T, LogInv(H, T),
         \A j \in Server : Keeps(j),
         \A j \in Server : role'[j] = "Leader" => role[j] = "Leader",
         \A m \in aeArgs' : m \in aeArgs \/ AppendFollows(m, H, T),
         \A m \in isArgs' : m \in isArgs \/ SnapshotFollows(m, H, T),
         \A r \in aeReplies' : r \in aeReplies \/ Refuses(r, H, T)
  PROVE  LogStep(H, T, H, T)
<1>1. Histories(H, T)
  BY Zenon DEF LogInv
<1>2. Extends(H, H, T)
  BY Zenon, <1>1, ExtendsSelf
<1>3. QED
  BY Zenon, <1>1, <1>2 DEF LogStep

\* No leader's log has grown and none is new.
LEMMA ElectedSame ==
  ASSUME NEW H, NEW T, Histories(H, T), NEW A, NEW ct
  PROVE  NewlyElected(H, T, H, T, A, ct)
<1> SUFFICES ASSUME NEW t \in T, NEW u \in T, NEW k \in Nat, Own(H, t, k), k > Len(H[t])
             PROVE  FALSE
  BY Zenon DEF NewlyElected
<1>1. Len(H[t]) \in Nat
  BY Zenon, HistoryType
<1>2. QED
  BY Zenon, <1>1, OwnReach

\* Nothing new is acknowledged and no log has grown.
LEMMA SameAcks ==
  ASSUME NEW H, NEW T, NEW A, Histories(H, T), A \in Acks
  PROVE  AcksStep(H, T, A, H, T, A)
<1>1. ASSUME NEW t \in T, NEW k \in Nat PROVE k <= Len(H[t]) \/ k > Len(H[t])
  <2>1. Len(H[t]) \in Nat
    BY Zenon, HistoryType
  <2>2. QED
    BY <2>1
<1>2. Grown(H, T, H)
  BY Zenon, <1>1 DEF Grown
<1>3. \A j \in Server, t \in Nat : A[j][t] <= A[j][t]
  BY DEF Acks
<1>4. AckStep(H, T, A, A)
  BY Zenon, <1>3 DEF AckStep, NewAcks
<1>5. NewlyElected(H, T, H, T, A, currentTerm')
  BY Zenon, ElectedSame
<1>6. QED
  BY Zenon, <1>2, <1>4, <1>5 DEF AcksStep

\* The terms a peer has are those of the log it follows.
LEMMA FollowsTerm ==
  ASSUME NEW i, HeldTypes(i), NEW s, Follows(i, s), NEW k, InLog(i, k)
  PROVE  TermAt(i, k) = TermOf(s, k)
<1>1. k \in lastIncludedIndex[i]..lastIncludedIndex[i] + Len(log[i])
  BY ZenonT(30) DEF InLog, LastLogIndex
<1>2. EntryTerm(lastIncludedIndex[i], lastIncludedTerm[i], log[i], k) = TermOf(s, k)
  BY <1>1, HoldsTerm DEF Follows, HeldTypes
<1>3. QED
  BY Zenon, <1>2 DEF TermAt, EntryTerm

\* One peer's role and term change.
LEMMA OneRole ==
  ASSUME TypeOK, NEW i \in Server, NEW x, NEW t \in Nat,
         role' = [role EXCEPT ![i] = x], currentTerm' = [currentTerm EXCEPT ![i] = t],
         t >= currentTerm[i],
         x = "Candidate" => t > currentTerm[i] \/ (role[i] = "Candidate" /\ t = currentTerm[i]),
         x = "Leader" => t = currentTerm[i] /\ role[i] \in {"Leader", "Candidate"}
  PROVE  RolesStep
<1> SUFFICES ASSUME NEW j \in Server
             PROVE  /\ currentTerm'[j] >= currentTerm[j]
                    /\ role'[j] = "Candidate" =>
                         \/ currentTerm'[j] > currentTerm[j]
                         \/ role[j] = "Candidate" /\ currentTerm'[j] = currentTerm[j]
                    /\ role'[j] = "Leader" =>
                         /\ currentTerm'[j] = currentTerm[j]
                         /\ role[j] \in {"Leader", "Candidate"}
  BY Zenon DEF RolesStep
<1>1. CASE j = i
  <2>1. role'[j] = x /\ currentTerm'[j] = t
    BY Zenon, <1>1 DEF TypeOK
  <2>2. QED
    BY Zenon, <1>1, <2>1
<1>2. CASE j # i
  <2>1. role'[j] = role[j] /\ currentTerm'[j] = currentTerm[j] /\ currentTerm[j] \in Nat
    BY Zenon, <1>2 DEF TypeOK
  <2>2. currentTerm[j] >= currentTerm[j]
    BY <2>1
  <2>3. QED
    BY Zenon, <2>1, <2>2
<1>3. QED
  BY Zenon, <1>1, <1>2

\* Nobody becomes a candidate or a leader.
NoPromotion ==
  \A j \in Server :
    /\ role'[j] = "Leader" => role[j] = "Leader"
    /\ role'[j] = "Candidate" => role[j] = "Candidate" /\ currentTerm'[j] = currentTerm[j]

\* Stepping down promotes nobody.
LEMMA StepDownRoles ==
  ASSUME TypeOK, NEW i \in Server, NEW term \in Nat, term > currentTerm[i], StepDown(i, term)
  PROVE  RolesStep /\ NoPromotion
<1>1. currentTerm[i] \in Nat
  BY Zenon DEF TypeOK
<1>2. term >= currentTerm[i]
  BY <1>1
<1>3. RolesStep
  BY Zenon, <1>2, OneRole DEF StepDown
<1>4. NoPromotion
  BY Zenon DEF StepDown, TypeOK, NoPromotion
<1>5. QED
  BY Zenon, <1>3, <1>4

\* A reply of a later term promotes nobody.
LEMMA ReplyRoles ==
  ASSUME TypeOK, NEW r \in aeReplies \cup isReplies, LeaderReplyNewTerm(r)
  PROVE  RolesStep /\ NoPromotion
<1>1. r.to \in Server /\ r.term \in Nat
  BY Zenon DEF TypeOK, AppendEntriesReply, InstallSnapshotReply
<1>2. QED
  BY Zenon, <1>1, StepDownRoles DEF LeaderReplyNewTerm

\* Nobody's log or role changes.
LEMMA NothingLogged ==
  ASSUME UNCHANGED <<electionVars, logVars, persister>>
  PROVE  /\ \A j \in Server : Keeps(j)
         /\ \A j \in Server : role'[j] = "Leader" => role[j] = "Leader"
<1>1. \A j \in Server : LogKept(j)
  BY Zenon DEF LogKept, logVars
<1>2. QED
  BY Zenon, <1>1, KeptIsKept DEF electionVars

\* The replies and the applier touch no log.
LEMMA LocalLog ==
  ASSUME NEW H, NEW T, LogInv(H, T), UNCHANGED <<electionVars, logVars, persister, aeNet, isNet>>
  PROVE  LogStep(H, T, H, T)
<1>1. aeArgs' = aeArgs /\ isArgs' = isArgs /\ aeReplies' = aeReplies
  BY Zenon DEF aeNet, isNet
<1>2. QED
  BY Zenon, <1>1, NothingLogged, QuietLog

\* The leaders believe what they believed.
LEMMA SameLeaders ==
  ASSUME NEW H2, NEW A2,
         \A j \in Server : role'[j] = "Leader" =>
           /\ role[j] = "Leader" /\ LastLogIndex(j)' = LastLogIndex(j)
           /\ matchIndex'[j] = matchIndex[j] /\ nextIndex'[j] = nextIndex[j]
  PROVE  LeadersStep(H2, A2)
  BY Zenon DEF LeadersStep, LeaderKeeps

\* The peers' votes, indexes and beliefs are what they were.
SameBut(H2, T2, A2) == VotesStep(H2, T2, A2) /\ CommitsStep(H2, T2, A2) /\ LeadersStep(H2, A2)

\* Nobody is promoted, and votes, logs and indexes are what they were.
LEMMA RestSame ==
  ASSUME NEW H, NEW T, NEW A, CommitInv(H, T, A), NEW H2, NEW T2, NEW A2,
         UNCHANGED <<votes, logVars, applyVars, leaderVars>>,
         \A j \in Server : role'[j] = "Leader" => role[j] = "Leader",
         rvReplies' \subseteq rvReplies, rvArgs' \subseteq rvArgs
  PROVE  SameBut(H2, T2, A2)
<1>2. VotesStep(H2, T2, A2)
  BY Zenon, SameVotes
<1>3. CommitsStep(H2, T2, A2)
  BY Zenon, SameCommits DEF logVars, applyVars
<1>4. \A j \in Server : LastLogIndex(j)' = LastLogIndex(j)
  BY Zenon DEF logVars, LastLogIndex
<1>5. LeadersStep(H2, A2)
  BY Zenon, <1>4, SameLeaders DEF leaderVars
<1>6. QED
  BY Zenon, <1>2, <1>3, <1>5 DEF SameBut

\* Nobody's role or term changes.
LEMMA SameRoles ==
  ASSUME TypeOK, UNCHANGED <<currentTerm, role>>
  PROVE  RolesStep
<1>1. \A i \in Server : currentTerm[i] \in Nat
  BY Zenon DEF TypeOK
<1>2. \A i \in Server : currentTerm[i] >= currentTerm[i]
  BY <1>1
<1>3. QED
  BY Zenon, <1>2 DEF RolesStep

\* What a peer knows to be committed is so of every log that agrees with its own.
LEMMA CommittedHere ==
  ASSUME NEW H, NEW T, NEW A, LogInv(H, T), CommitInv(H, T, A), TypeOK, NEW i \in Server,
         NEW n \in Nat, n <= commitIndex[i], NEW s, AgreeUpTo(s, H[LastLogTerm(i)], n),
         NEW b \in Nat, currentTerm[i] <= b
  PROVE  Committed(n, b, s, H, T, A)
<1>1. Histories(H, T) /\ A \in Acks /\ Extends(H, H, T)
  BY Zenon, ExtendsSelf DEF LogInv, CommitInv
<1>2. LastTypes(i, H, T)
  BY Zenon, LastTyped
<1>3. PICK c \in Nat : c = commitIndex[i]
  BY Zenon DEF TypeOK
<1>4. PICK w \in T : w = LastLogTerm(i)
  BY Zenon, <1>2 DEF LastTypes
<1>5. Len(H[w]) \in Nat /\ currentTerm[i] \in Nat
  BY Zenon, <1>2, <1>4 DEF LastTypes
<1>6. Committed(c, currentTerm[i], H[w], H, T, A)
  BY Zenon, <1>3, <1>4 DEF CommitInv, CommitFits, KnownCommitted
<1>8. \A j \in Server, t \in Nat : A[j][t] <= A[j][t]
  BY <1>1 DEF Acks
<1>9. QED
  BY Zenon, <1>1, <1>3, <1>4, <1>5, <1>6, <1>8, StillCommitted

\* Only messages change.
LEMMA MailOnly ==
  ASSUME NEW H, NEW T, NEW A, LogInv(H, T), CommitInv(H, T, A),
         UNCHANGED <<electionVars, logVars, applyVars, leaderVars>>,
         rvReplies' \subseteq rvReplies, rvArgs' \subseteq rvArgs
  PROVE  AcksStep(H, T, A, H, T, A) /\ SameBut(H, T, A)
<1>1. AcksStep(H, T, A, H, T, A)
  BY Zenon, SameAcks DEF LogInv, CommitInv
<1>2. SameBut(H, T, A)
  BY Zenon, RestSame DEF electionVars
<1>3. QED
  BY Zenon, <1>1, <1>2

\* The rest of a sequence.
LEMMA Suffixes ==
  ASSUME NEW S, NEW s \in Seq(S), NEW n \in 0..Len(s)
  PROVE  /\ SubSeq(s, n + 1, Len(s)) \in Seq(S)
         /\ Len(SubSeq(s, n + 1, Len(s))) = Len(s) - n
         /\ \A k \in 1..Len(s) - n : SubSeq(s, n + 1, Len(s))[k] = s[n + k]
  OBVIOUS

-----------------------------------------------------------------------------
(* Start *)

\* The leader's entry goes to the end of the log of its term.
Starts(i, t, H, T, H2) ==
  /\ LogStep(H, T, H2, T) /\ t \in T
  /\ LastLogIndex(i)' = LastLogIndex(i) + 1 /\ LastLogIndex(i)' = Len(H2[t])
  /\ Len(H2[t]) = Len(H[t]) + 1 /\ H2[t][Len(H2[t])].term = t
  /\ \A w \in Nat : w # t => H2[w] = H[w]

\* A leader acknowledges to itself the entry it appends.
StarterAcks(i, t, H, T, A, H2, A2) ==
  /\ AckRaised(A, A2, i, t, Len(H2[t]))
  /\ AcksStep(H, T, A, H2, T, A2)

\* Start: a leader appends a command, which it acknowledges to itself.
LEMMA StartAdvances ==
  \A H, T, A : Ready(H, T, A) /\ (\E i \in Server, command \in Command : Start(i, command)) => Advances(H, T, A)
\* A sequence with an element appended.
<1>Appended. ASSUME NEW S, NEW s \in Seq(S), NEW e \in S
      PROVE  /\ Append(s, e) \in Seq(S) /\ Len(Append(s, e)) = Len(s) + 1
             /\ Append(s, e)[Len(s) + 1] = e
             /\ \A k \in 1..Len(s) : Append(s, e)[k] = s[k]
  BY <1>Appended
\* The log of a leader grows by an entry of its term.
<1>HistoryGrows. ASSUME NEW H, NEW T, Histories(H, T), NEW t \in T, t # 0, NEW e \in Entry, e.term = t,
             NEW H2, H2 = [H EXCEPT ![t] = Append(@, e)]
      PROVE  Histories(H2, T) /\ Extends(H, H2, T)
  <2> USE <1>HistoryGrows
  <2>1. H \in [Nat -> Seq(Entry)] /\ H[0] = <<>> /\ T \in SUBSET Nat /\ 0 \in T
    BY Zenon DEF Histories
  <2>2. t \in Nat /\ H[t] \in Seq(Entry) /\ Len(H[t]) \in Nat
    BY Zenon, HistoryType
  <2> DEFINE s == Append(H[t], e)
  <2>3. /\ s \in Seq(Entry) /\ Len(s) = Len(H[t]) + 1 /\ s[Len(H[t]) + 1] = e
        /\ \A k \in 1..Len(H[t]) : s[k] = H[t][k]
    BY <2>2, <1>Appended
  <2> HIDE DEF s
  <2>4. H2[t] = s /\ \A u \in Nat : u # t => H2[u] = H[u]
    BY Zenon, <2>1, <2>2 DEF s
  <2>5. H2 \in [Nat -> Seq(Entry)]
    BY Zenon, <2>1, <2>2, <2>3 DEF s
  <2>6. Extends(H, H2, T)
    <3> SUFFICES ASSUME NEW u \in T
                 PROVE  Len(H[u]) <= Len(H2[u]) /\ AgreeUpTo(H2[u], H[u], Len(H[u]))
      BY Zenon DEF Extends
    <3>1. u \in Nat /\ Len(H[u]) \in Nat
      BY Zenon, HistoryType
    <3>2. CASE u = t
      BY SMTT(30), <2>2, <2>3, <2>4, <3>2 DEF AgreeUpTo
    <3>3. CASE u # t
      BY <2>4, <3>1, <3>3 DEF AgreeUpTo
    <3>4. QED
      BY Zenon, <3>2, <3>3
  <2>7. ASSUME NEW u \in T, NEW k \in 1..Len(H2[u])
        PROVE  Descends(H2, T, u, k)
    <3>1. CASE k \in 1..Len(H[u])
      BY Zenon, <2>5, <2>6, <3>1, StillDescends
    <3>2. CASE k \notin 1..Len(H[u])
      <4>1. u \in Nat
        BY Zenon, HistoryType
      <4>2. u = t
        BY ZenonT(30), <2>4, <3>2, <4>1
      <4>3. k = Len(H[t]) + 1 /\ k \in Nat /\ k <= Len(H2[t])
        BY SMTT(30), <2>2, <2>3, <2>4, <3>2, <4>2
      <4>4. H2[t][k].term = t
        BY Zenon, <2>3, <2>4, <4>3
      <4>5. AgreeUpTo(H2[t], H2[t], k)
        BY Zenon, <4>3 DEF AgreeUpTo
      <4>6. t <= t
        BY <2>2
      <4>7. ASSUME NEW x \in 1..k PROVE H2[t][x].term <= t
        <5>1. CASE x = k
          BY Zenon, <4>4, <4>6, <5>1
        <5>2. CASE x # k
          <6>1. x \in 1..Len(H[t])
            BY SMTT(30), <2>2, <4>3, <5>2
          <6>2. H2[t][x] = H[t][x] /\ H[t][x].term <= t
            BY Zenon, <2>3, <2>4, <6>1 DEF Histories
          <6>3. QED
            BY Zenon, <6>2
        <5>3. QED
          BY Zenon, <5>1, <5>2
      <4>8. QED
        BY Zenon, <4>2, <4>4, <4>5, <4>6, <4>7 DEF Descends
    <3>3. QED
      BY Zenon, <3>1, <3>2
  <2>8. H2[0] = <<>>
    BY Zenon, <2>1, <2>4
  <2>9. QED
    BY ZenonT(30), <2>1, <2>5, <2>6, <2>7, <2>8 DEF Histories, Descends
\* Start appends to both.
<1>HoldsAppended. ASSUME NEW base \in Nat, NEW bterm, NEW entries \in Seq(Entry), NEW snapshot,
             NEW s \in Seq(Entry), Holds(base, bterm, entries, snapshot, s),
             base + Len(entries) = Len(s), NEW e \in Entry
      PROVE  Holds(base, bterm, Append(entries, e), snapshot, Append(s, e))
  <2> USE <1>HoldsAppended
  <2>1. Len(entries) \in Nat /\ Len(s) \in Nat /\ base \in 0..Len(s)
    OBVIOUS
  <2>2. /\ Len(Append(entries, e)) = Len(entries) + 1 /\ Append(entries, e)[Len(entries) + 1] = e
        /\ \A k \in 1..Len(entries) : Append(entries, e)[k] = entries[k]
    BY <1>Appended
  <2>3. /\ Len(Append(s, e)) = Len(s) + 1 /\ Append(s, e)[Len(s) + 1] = e
        /\ \A k \in 1..Len(s) : Append(s, e)[k] = s[k]
    BY <1>Appended
  <2> DEFINE es == Append(entries, e)
             r == Append(s, e)
  <2> HIDE DEF es, r
  <2>4. AgreeUpTo(s, r, Len(s))
    BY <2>1, <2>3 DEF AgreeUpTo, r
  <2>5. Holds(base, bterm, entries, snapshot, r)
    BY Zenon, <2>1, <2>4, HoldsOther
  <2>6. base + Len(es) <= Len(r)
    BY SMTT(30), <2>1, <2>2, <2>3 DEF es, r
  <2>7. ASSUME NEW k \in 1..Len(es) PROVE es[k] = r[base + k]
    <3>1. CASE k \in 1..Len(entries)
      BY Zenon, <2>2, <2>5, <3>1 DEF Holds, Carries, es
    <3>2. CASE k \notin 1..Len(entries)
      <4>1. k = Len(entries) + 1 /\ base + k = Len(s) + 1
        BY <2>1, <2>2, <3>2 DEF es
      <4>2. QED
        BY Zenon, <2>2, <2>3, <4>1 DEF es, r
    <3>3. QED
      BY Zenon, <3>1, <3>2
  <2>8. QED
    BY Zenon, <2>5, <2>6, <2>7 DEF Holds, Carries, es, r
\* A leader that appends an entry after a later leader was elected.
<1>ElectedStarts. ASSUME NEW H, NEW T, Histories(H, T), NEW A \in Acks, NEW A2 \in Acks, NEW ct \in [Server -> Nat],
             AcksGrown(A, A2, ct), NEW t \in T, NEW H2, Len(H2[t]) \in Nat,
             \A x \in T : x # t => H2[x] = H[x],
             \A j \in Server : A[j][t] <= Len(H[t]),
             \A u \in T : t < u => \E Q \in SUBSET Server : IsMajority(Q) /\ \A j \in Q : ct[j] >= u
      PROVE  NewlyElected(H, T, H2, T, A2, ct)
  <2> USE <1>ElectedStarts
  <2>0. SUFFICES ASSUME NEW x \in T, NEW u \in T, NEW k \in Nat, x < u, Own(H2, x, k), k > Len(H[x])
                 PROVE  Lost(x, k, A2, ct)
    BY Zenon DEF NewlyElected
  <2>1. t \in Nat /\ Len(H[t]) \in Nat /\ u \in Nat /\ Len(H[x]) \in Nat
    BY Zenon, HistoryType
  <2>2. x = t
    <3>1. SUFFICES ASSUME x # t PROVE FALSE
      BY Zenon
    <3>2. Own(H, x, k)
      BY Zenon, <2>0, <3>1 DEF Own
    <3>3. QED
      BY Zenon, <2>0, <2>1, <3>2, OwnReach
  <2>3. PICK Q \in SUBSET Server : IsMajority(Q) /\ \A j \in Q : ct[j] >= u
    BY ZenonT(30), <2>0, <2>2
  <2>4. ASSUME NEW j \in Q PROVE A2[j][t] < k /\ ct[j] > t
    <3>1. /\ A[j][t] <= Len(H[t]) /\ ct[j] >= u
          /\ A2[j][t] # A[j][t] => t = ct[j]
      BY Zenon, <2>1, <2>3 DEF AcksGrown
    <3>2. ct[j] \in Nat /\ A[j][t] \in Nat
      BY Zenon, <2>1 DEF Acks
    <3>3. ct[j] > t
      BY SMTT(30), <2>0, <2>1, <2>2, <3>1, <3>2
    <3>4. A2[j][t] = A[j][t]
      BY SMTT(30), <2>1, <3>1, <3>2, <3>3
    <3>5. QED
      BY SMTT(30), <2>0, <2>1, <2>2, <3>1, <3>2, <3>3, <3>4
  <2>5. QED
    BY Zenon, <2>2, <2>3, <2>4 DEF Lost
<1>StartLog. ASSUME NEW H, NEW T, LogInv(H, T), ElectionInv, NEW i \in Server, NEW command \in Command,
             Start(i, command), NEW t, t = currentTerm[i],
             NEW H2, H2 = [H EXCEPT ![t] = Append(@, [term |-> t, command |-> command])]
      PROVE  Starts(i, t, H, T, H2)
  <2> USE <1>StartLog
  <2> DEFINE e == [term |-> t, command |-> command]
  <2>0. TypeOK /\ Histories(H, T) /\ ElectionSafety
    BY Zenon, ElectionInvSafe DEF LogInv, ElectionInv, DiskInv
  <2>1. role[i] = "Leader" /\ role' = role /\ currentTerm' = currentTerm
    BY Zenon DEF Start, electionVars
  <2>2. t \in T /\ Follows(i, H[t]) /\ LastLogIndex(i) = Len(H[t]) /\ t # 0
    BY Zenon, <2>1 DEF LogInv, LeaderFollows
  <2>3. HeldTypes(i)
    BY Zenon, <2>0, HeldTyped
  <2>4. t \in Nat /\ H[t] \in Seq(Entry) /\ Len(H[t]) \in Nat /\ H \in [Nat -> Seq(Entry)]
    BY Zenon, <2>0, <2>2, HistoryType DEF Histories
  <2>5. e \in Entry /\ e.term = t
    BY Zenon, <2>4 DEF Entry
  <2>6. H2 = [H EXCEPT ![t] = Append(@, e)] /\ log' = [log EXCEPT ![i] = Append(@, e)]
    BY Zenon DEF Start
  <2> HIDE DEF e
  <2>7. Histories(H2, T) /\ Extends(H, H2, T)
    BY Zenon, <2>0, <2>2, <2>5, <2>6, <1>HistoryGrows
  <2>8. H2[t] = Append(H[t], e) /\ \A w \in Nat : w # t => H2[w] = H[w]
    BY Zenon, <2>4, <2>6
  <2>9. /\ lastIncludedIndex' = lastIncludedIndex /\ lastIncludedTerm' = lastIncludedTerm
        /\ Save(i, persister[i].snapshot)
    BY Zenon DEF Start, Persist
  <2>10. /\ persister'[i].snapshot = persister[i].snapshot
         /\ \A j \in Server : j # i => persister'[j] = persister[j]
    BY Zenon, <2>0, <2>9, SavedSnapshot
  <2>11. log'[i] = Append(log[i], e) /\ \A j \in Server : j # i => log'[j] = log[j]
    BY ZenonT(30), <2>0, <2>6 DEF TypeOK
  <2>12. Len(H2[t]) = Len(H[t]) + 1 /\ H2[t][Len(H2[t])] = e
    BY SMTT(30), <2>4, <2>5, <2>8, <1>Appended
  <2>13. Len(log'[i]) = Len(log[i]) + 1
    BY SMTT(30), <2>3, <2>5, <2>11, <1>Appended DEF HeldTypes
  <2>14. LastLogIndex(i)' = LastLogIndex(i) + 1
    <3>1. LastLogIndex(i)' = lastIncludedIndex[i] + Len(log'[i])
      BY Zenon, <2>9 DEF LastLogIndex
    <3>2. QED
      BY <2>3, <2>13, <3>1 DEF HeldTypes
  <2>15. LastLogIndex(i)' = Len(H2[t])
    BY Zenon, <2>2, <2>12, <2>14
  <2>16. Follows(i, H2[t])'
    <3>1. Holds(lastIncludedIndex[i], lastIncludedTerm[i], Append(log[i], e),
                persister[i].snapshot, Append(H[t], e))
      <4>1. lastIncludedIndex[i] + Len(log[i]) = Len(H[t])
        BY Zenon, <2>2 DEF LastLogIndex
      <4>2. QED
        BY Zenon, <2>2, <2>3, <2>4, <2>5, <4>1, <1>HoldsAppended DEF Follows, HeldTypes
    <3>2. QED
      BY Zenon, <2>8, <2>9, <2>10, <2>11, <3>1 DEF Follows
  <2>17. ASSUME NEW j \in Server, j # i PROVE Keeps(j)
    BY ZenonT(30), <2>9, <2>10, <2>11, <2>17, KeptIsKept DEF LogKept
  <2>18. Takes(i, H2, T)
    <3>1. ~(LastLogIndex(i)' <= LastLogIndex(i))
      BY <2>3, <2>14 DEF HeldTypes
    <3>2. ~Reaches(i, H2, t, LastLogIndex(i)')
      BY Zenon, <3>1 DEF Reaches
    <3>3. t = currentTerm'[i] /\ role'[i] # "Candidate"
      BY Zenon, <2>1
    <3>4. QED
      BY ZenonT(30), <2>2, <2>16, <3>2, <3>3 DEF Takes
  <2>19. LeaderFollows(i, H2, T)'
    BY Zenon, <2>1, <2>2, <2>15, <2>16 DEF LeaderFollows
  <2>20. ASSUME NEW j \in Server, role'[j] = "Leader"
         PROVE  \/ role[j] = "Leader" /\ Keeps(j) /\ Len(H2[currentTerm[j]]) = Len(H[currentTerm[j]])
                \/ LeaderFollows(j, H2, T)'
    <3>1. CASE j # i
      <4>1. currentTerm[j] # t /\ role[j] = "Leader"
        BY Zenon, <2>0, <2>1, <2>20, <3>1 DEF ElectionSafety
      <4>2. currentTerm[j] \in Nat
        BY Zenon, <2>0 DEF TypeOK
      <4>3. QED
        BY Zenon, <2>8, <2>17, <3>1, <4>1, <4>2
    <3>2. QED
      BY Zenon, <2>19, <3>1
  <2>21. aeArgs' = aeArgs /\ isArgs' = isArgs /\ aeReplies' = aeReplies
    BY Zenon DEF Start, aeNet, isNet
  <2>22. LogStep(H, T, H2, T)
    BY ZenonT(30), <2>7, <2>17, <2>18, <2>20, <2>21 DEF LogStep
  <2>23. QED
    BY Zenon, <2>2, <2>5, <2>8, <2>12, <2>14, <2>15, <2>22 DEF Starts
\* The terms after t that had a leader have a majority that is past t.
<1>LaterMajority. ASSUME NEW H, NEW T, LogInv(H, T), TypeOK, VotesRemembered, NEW u \in T, u # 0
      PROVE  \E Q \in SUBSET Server : IsMajority(Q) /\ \A j \in Q : currentTerm[j] >= u
  <2> USE <1>LaterMajority
  <2>1. u \in Nat
    BY Zenon, HistoryType DEF LogInv
  <2>2. PICK c \in Server : IsMajority(Tally(c, u))
    BY Zenon DEF LogInv, TermLed
  <2>3. ASSUME NEW j \in Tally(c, u) PROVE j \in Server /\ currentTerm[j] >= u
    <3>1. j \in Server /\ Granted(j, u, c)
      BY Zenon DEF Tally, Granted
    <3>2. QED
      BY Zenon, <2>1, <3>1, VoterTerm
  <2>4. QED
    BY Zenon, <2>2, <2>3
<1>StartAcks. ASSUME NEW H, NEW T, NEW A, LogInv(H, T), CommitInv(H, T, A), TypeOK, TypeOK', VotesRemembered,
             NEW i \in Server, NEW command \in Command, Start(i, command),
             NEW t, t = currentTerm[i], NEW H2, Starts(i, t, H, T, H2)
      PROVE  \E A2 : StarterAcks(i, t, H, T, A, H2, A2)
  <2> USE <1>StartAcks
  <2>1. Histories(H, T) /\ Histories(H2, T) /\ A \in Acks
    BY Zenon DEF LogInv, CommitInv, Starts, LogStep
  <2>2. PICK n : n = Len(H2[t])
    BY Zenon
  <2>3. PICK l : l = Len(H[t])
    BY Zenon
  <2>4. t \in T /\ LastLogIndex(i)' = n /\ n = l + 1 /\ H2[t][n].term = t /\ \A x \in Nat : x # t => H2[x] = H[x]
    BY Zenon, <2>2, <2>3 DEF Starts
  <2>5. t \in Nat /\ n \in Nat /\ l \in Nat
    <3>1. t \in Nat /\ Len(H[t]) \in Nat
      BY Zenon, <2>1, <2>4, HistoryType
    <3>2. Len(H2[t]) \in Nat
      BY Zenon, <2>1, <2>4, HistoryType
    <3>3. QED
      BY Zenon, <2>2, <2>3, <3>1, <3>2
  <2>6. currentTerm' = currentTerm /\ role'[i] = "Leader" /\ currentTerm \in [Server -> Nat]
    BY Zenon DEF Start, electionVars, TypeOK
  <2>7. PICK ct : ct = currentTerm
    BY Zenon
  <2>8. ct = currentTerm' /\ ct[i] = t /\ ct \in [Server -> Nat]
    BY Zenon, <2>6, <2>7
  <2>9. ASSUME NEW j \in Server PROVE A[j][t] \in Nat /\ A[j][t] <= l
    BY ZenonT(30), <2>1, <2>3, <2>4, AckedReach
  <2>10. A[i][t] <= n
    <3>1. A[i][t] \in Nat /\ A[i][t] <= l
      BY Zenon, <2>9
    <3>2. QED
      BY ONLY <2>4, <2>5, <3>1
  <2>11. PICK A2 : A2 = [A EXCEPT ![i] = [@ EXCEPT ![t] = n]]
    BY Zenon
  <2>12. AckRaised(A, A2, i, t, n)
    BY Zenon, <2>1, <2>5, <2>10, <2>11, AckOne
  <2>13. A2 \in Acks /\ A2[i][t] = n /\ (\A u \in Nat : u # t => A2[i][u] = A[i][u])
         /\ (\A j \in Server : j # i => A2[j] = A[j]) /\ \A j \in Server, u \in Nat : A[j][u] <= A2[j][u]
    BY Zenon, <2>12 DEF AckRaised
  <2>14. Grown(H, T, H2)
    <3>1. ASSUME NEW x \in T, NEW k \in Nat PROVE Own(H2, x, k) \/ k <= Len(H[x]) \/ k > Len(H2[x])
      <4>1. x \in Nat /\ Len(H[x]) \in Nat
        BY Zenon, <2>1, HistoryType
      <4>2. CASE x = t
        <5>1. k <= l \/ k > n \/ (k = n /\ n \in 1..n)
          BY ONLY k \in Nat, <2>4, <2>5
        <5>2. QED
          BY ZenonT(30), <2>2, <2>3, <2>4, <4>2, <5>1 DEF Own
      <4>3. CASE x # t
        <5>1. H2[x] = H[x]
          BY Zenon, <2>4, <4>1, <4>3
        <5>2. k <= Len(H[x]) \/ k > Len(H[x])
          BY ONLY k \in Nat, <4>1
        <5>3. QED
          BY Zenon, <5>1, <5>2
      <4>4. QED
        BY Zenon, <4>2, <4>3
    <3>2. QED
      BY Zenon, <3>1 DEF Grown
  <2>15. AgreeUpTo(H2[LastLogTerm(i)'], H2[t], n)
    <3>1. ~Keeps(i)
      <4>1. LastLogIndex(i) \in Nat /\ LastLogIndex(i)' = LastLogIndex(i) + 1
        BY Zenon, HeldTyped DEF HeldTypes, Starts
      <4>2. LastLogIndex(i)' # LastLogIndex(i)
        BY ONLY <4>1
      <4>3. QED
        BY Zenon, <4>2 DEF Keeps
    <3>2. LeaderFollows(i, H2, T)'
      BY Zenon, <2>6, <3>1 DEF Starts, LogStep
    <3>3. Follows(i, H2[t])'
      BY Zenon, <2>6, <3>2 DEF LeaderFollows
    <3>4. FollowsToLast(i, H2, T, t)'
      BY Zenon, <2>1, <2>4, <3>3, HeldTypedNext, FollowsLastNext
    <3>5. AgreeUpTo(H2[t], H2[LastLogTerm(i)'], LastLogIndex(i)')
      BY Zenon, <3>4 DEF FollowsToLast
    <3>6. QED
      BY Zenon, <2>4, <3>5 DEF AgreeUpTo
  <2>16. AckStep(H2, T, A, A2)
    <3>1. n <= n
      BY ONLY <2>5
    <3>2. NewAcks(A[i], A2[i], n, LastLogTerm(i)', t, H2, T)
      BY Zenon, <2>4, <2>13, <2>15, <3>1 DEF NewAcks
    <3>3. ASSUME NEW j \in Server
          PROVE  NewAcks(A[j], A2[j], LastLogIndex(j)', LastLogTerm(j)', currentTerm'[j], H2, T)
      <4>1. CASE j = i
        BY Zenon, <2>4, <2>6, <3>2, <4>1
      <4>2. CASE j # i
        BY Zenon, <2>13, <4>2 DEF NewAcks
      <4>3. QED
        BY Zenon, <4>1, <4>2
    <3>4. QED
      BY Zenon, <2>13, <3>3 DEF AckStep
  <2>17. AcksGrown(A, A2, ct)
    BY Zenon, <2>8, <2>13 DEF AcksGrown
  <2>18. NewlyElected(H, T, H2, T, A2, ct)
    <3>1. ASSUME NEW u \in T, t < u
          PROVE  \E Q \in SUBSET Server : IsMajority(Q) /\ \A j \in Q : ct[j] >= u
      <4>1. u \in Nat
        BY Zenon, <2>1, HistoryType
      <4>2. u # 0
        BY ONLY <2>5, <3>1, <4>1
      <4>3. QED
        BY Zenon, <2>7, <4>2, <1>LaterMajority
    <3>2. \A x \in T : x # t => H2[x] = H[x]
      BY Zenon, <2>1, <2>4, HistoryType
    <3>3. Len(H2[t]) \in Nat /\ \A j \in Server : A[j][t] <= Len(H[t])
      BY ZenonT(30), <2>2, <2>3, <2>5, <2>9
    <3>4. QED
      BY ZenonT(30), <2>1, <2>4, <2>8, <2>13, <2>17, <3>1, <3>2, <3>3, <1>ElectedStarts
  <2>19. AcksStep(H, T, A, H2, T, A2)
    BY ZenonT(30), <2>8, <2>13, <2>14, <2>16, <2>18 DEF AcksStep
  <2>20. QED
    BY Zenon, <2>2, <2>12, <2>19 DEF StarterAcks
<1>StartCommit. ASSUME NEW H, NEW T, NEW A, LogInv(H, T), CommitInv(H, T, A), TypeOK, TypeOK', VotesRemembered,
             NEW i \in Server, NEW command \in Command, Start(i, command),
             NEW t, t = currentTerm[i], NEW H2, Starts(i, t, H, T, H2)
      PROVE  \E A2 : CommitStep(H, T, A, H2, T, A2)
  <2> USE <1>StartCommit
  <2>1. PICK A2 : StarterAcks(i, t, H, T, A, H2, A2)
    BY Zenon, <1>StartAcks
  <2>2. AcksStep(H, T, A, H2, T, A2)
    BY Zenon, <2>1 DEF StarterAcks
  <2>3. UNCHANGED <<electionVars, lastIncludedIndex, applyVars, leaderVars, rvNet, aeNet, isNet>>
    BY Zenon DEF Start
  <2>4. VotesStep(H2, T, A2)
    BY Zenon, <2>3, SameVotes DEF electionVars, rvNet
  <2>5. CommitsStep(H2, T, A2)
    BY Zenon, <2>3, SameCommits DEF applyVars
  <2>6. CallsStep(H2, T, A2) /\ AnswersStep(H2, T, A2)
    BY Zenon, <2>3, SameCalls, SameAnswers DEF aeNet, isNet
  <2>7. ASSUME NEW j \in Server, role'[j] = "Leader", j # i PROVE LeaderKeeps(j)
    <3>1. log'[j] = log[j]
      BY Zenon, <2>7 DEF Start, TypeOK
    <3>2. QED
      BY Zenon, <2>3, <2>7, <3>1 DEF LeaderKeeps, electionVars, leaderVars, LastLogIndex
  <2>8. LeaderFits(i, H2, A2)'
    <3>1. PICK n : n = Len(H2[t])
      BY Zenon
    <3>2. PICK l : l = Len(H[t])
      BY Zenon
    <3>3. LastLogIndex(i)' = n /\ n = l + 1 /\ t \in T /\ Histories(H, T)
      BY Zenon, <3>1, <3>2 DEF Starts, LogInv
    <3>4. t \in Nat /\ l \in Nat
      BY Zenon, <3>2, <3>3, HistoryType
    <3>5. A2[i][t] = n /\ A2 \in Acks /\ A \in Acks /\ \A j \in Server, u \in Nat : A[j][u] <= A2[j][u]
      BY Zenon, <2>1, <3>1 DEF StarterAcks, AckRaised, CommitInv
    <3>6. currentTerm'[i] = t /\ nextIndex' = nextIndex /\ matchIndex' = matchIndex
      BY Zenon, <2>3 DEF electionVars, leaderVars
    <3>7. n <= A2[i][t]
      BY ONLY <3>3, <3>4, <3>5
    <3>8. LeaderFits(i, H, A)
      BY Zenon DEF CommitInv, Start
    <3>9. ASSUME NEW j \in Server \ {i}
          PROVE  matchIndex[i][j] <= A2[j][t] /\ nextIndex[i][j] \in 1..Len(H2[t]) + 1
      <4>1. matchIndex[i][j] <= A[j][t] /\ nextIndex[i][j] \in 1..l + 1
        BY Zenon, <3>2, <3>8 DEF LeaderFits
      <4>2. A[j][t] \in Nat /\ A2[j][t] \in Nat /\ A[j][t] <= A2[j][t]
        BY Zenon, <3>4, <3>5 DEF Acks
      <4>6. matchIndex[i][j] \in Nat
        <5>1. matchIndex \in [Server -> [Server -> Nat]]
          BY Zenon DEF TypeOK
        <5>2. QED
          BY Zenon, <5>1
      <4>3. matchIndex[i][j] <= A2[j][t]
        BY ZenonT(30), <4>1, <4>2, <4>6, AtMost
      <4>4. nextIndex[i][j] \in 1..n + 1
        BY ONLY <3>3, <3>4, <4>1
      <4>5. QED
        BY Zenon, <3>1, <4>3, <4>4
    <3>10. QED
      BY ZenonT(30), <3>3, <3>6, <3>7, <3>9 DEF LeaderFits
  <2>9. LeadersStep(H2, A2)
    BY Zenon, <2>7, <2>8 DEF LeadersStep
  <2>10. QED
    BY Zenon, <2>2, <2>4, <2>5, <2>6, <2>9 DEF CommitStep
<1> SUFFICES ASSUME NEW H, NEW T, NEW A, LogInv(H, T), CommitInv(H, T, A), ElectionInv, TypeOK',
                    NEW i \in Server, NEW command \in Command, Start(i, command)
             PROVE  Advances(H, T, A)
  BY Zenon DEF Ready
<1>0. TypeOK /\ DiskInv /\ Majorities /\ VotesRemembered
  BY Zenon DEF ElectionInv, DiskInv
<1>1. PICK t : t = currentTerm[i]
  BY Zenon
<1>2. PICK H2 : H2 = [H EXCEPT ![t] = Append(@, [term |-> t, command |-> command])]
  BY Zenon
<1>3. Starts(i, t, H, T, H2)
  BY Zenon, <1>1, <1>2, <1>StartLog
<1>4. \E A2 : CommitStep(H, T, A, H2, T, A2)
  BY Zenon, <1>0, <1>1, <1>3, <1>StartCommit
<1>5. QED
  BY Zenon, <1>3, <1>4 DEF Starts, Advances

-----------------------------------------------------------------------------
(* Crashes and lost messages *)

\* A shutdown leaves the logs as they are: what is on disk is what was in memory.
LEMMA CrashKeeps ==
  ASSUME DiskInv, Crash
  PROVE  /\ RolesStep /\ NoPromotion
         /\ \A j \in Server : LogKept(j)
\* A restarted peer is a follower.
<1>MakeRoles. ASSUME TypeOK, NEW i \in Server, NEW saved, saved.currentTerm \in Nat,
             saved.currentTerm >= currentTerm[i], Make(i, saved)
      PROVE  RolesStep /\ NoPromotion
  <2> USE <1>MakeRoles
  <2>1. RolesStep
    BY Zenon, OneRole DEF Make
  <2>2. NoPromotion
    BY DEF Make, TypeOK, NoPromotion
  <2>3. QED
    BY Zenon, <2>1, <2>2
<1>0. TypeOK /\ DiskIsCurrent
  BY Zenon DEF DiskInv
<1>1. ASSUME NEW i \in Server
      PROVE  /\ persister[i] \in Saved /\ currentTerm[i] \in Nat
             /\ persister[i].currentTerm = currentTerm[i] /\ persister[i].log = log[i]
             /\ persister[i].lastIncludedIndex = lastIncludedIndex[i]
             /\ persister[i].lastIncludedTerm = lastIncludedTerm[i]
  BY Zenon, <1>0 DEF TypeOK, DiskIsCurrent
<1>2. ASSUME NEW i \in Server, NEW saved, Make(i, saved), saved.log = log[i],
             saved.lastIncludedIndex = lastIncludedIndex[i],
             saved.lastIncludedTerm = lastIncludedTerm[i]
      PROVE  UNCHANGED logVars
  BY <1>0, <1>2 DEF Make, TypeOK, logVars
<1>3. ASSUME NEW i \in Server, Restart(i)
      PROVE  /\ RolesStep /\ NoPromotion
             /\ \A j \in Server : LogKept(j)
  <2>1. Make(i, persister[i]) /\ UNCHANGED persister
    BY Zenon, <1>3 DEF Restart
  <2>2. UNCHANGED logVars
    BY Zenon, <1>1, <1>2, <2>1
  <2>3. persister[i].currentTerm \in Nat /\ persister[i].currentTerm >= currentTerm[i]
    BY <1>1
  <2>4. QED
    BY Zenon, <1>0, <2>1, <2>2, <2>3, <1>MakeRoles, PersistKeeps
<1>4. ASSUME NEW m \in rvArgs \cup aeArgs \cup isArgs, CrashInHandler(m)
      PROVE  /\ RolesStep /\ NoPromotion
             /\ \A j \in Server : LogKept(j)
  <2> DEFINE i == m.to
             saved == [persister[i] EXCEPT !.currentTerm = m.term, !.votedFor = Nil]
  <2>1. i \in Server /\ m.term \in Nat
    BY Zenon, <1>0 DEF TypeOK, RequestVoteArgs, AppendEntriesArgs, InstallSnapshotArgs
  <2>2. /\ Make(i, saved) /\ persister' = [persister EXCEPT ![i] = saved]
        /\ m.term > currentTerm[i]
    BY Zenon, <1>4 DEF CrashInHandler
  <2>3. /\ saved.log = persister[i].log
        /\ saved.lastIncludedIndex = persister[i].lastIncludedIndex
        /\ saved.lastIncludedTerm = persister[i].lastIncludedTerm
        /\ saved.snapshot = persister[i].snapshot /\ saved.currentTerm = m.term
    BY <1>1, <2>1 DEF Saved
  <2> HIDE DEF i, saved
  <2>4. UNCHANGED logVars
    BY Zenon, <1>1, <1>2, <2>1, <2>2, <2>3
  <2>5. saved.currentTerm \in Nat /\ saved.currentTerm >= currentTerm[i]
    BY <1>1, <2>1, <2>2, <2>3
  <2>6. RolesStep /\ NoPromotion
    BY Zenon, <1>0, <2>1, <2>2, <2>5, <1>MakeRoles
  <2>7. \A j \in Server : persister'[j].snapshot = persister[j].snapshot
    BY <1>0, <2>1, <2>2, <2>3 DEF TypeOK
  <2>8. \A j \in Server : LogKept(j)
    BY Zenon, <2>4, <2>7 DEF LogKept, logVars
  <2>9. QED
    BY Zenon, <2>6, <2>8
<1>5. QED
  BY Zenon, <1>3, <1>4 DEF Crash

\* Peer i comes back with what it had saved.
Returns(i) ==
  /\ commitIndex' = [commitIndex EXCEPT ![i] = lastIncludedIndex[i]]
  /\ lastApplied' = [lastApplied EXCEPT ![i] = lastIncludedIndex[i]]
  /\ lastIncludedIndex' = [lastIncludedIndex EXCEPT ![i] = lastIncludedIndex[i]]
  /\ role' = [role EXCEPT ![i] = "Follower"]
  /\ \A j \in Server : j # i => nextIndex'[j] = nextIndex[j] /\ matchIndex'[j] = matchIndex[j]
  /\ votes' = votes /\ rvReplies' = rvReplies /\ rvArgs' \subseteq rvArgs
  /\ UNCHANGED <<aeNet, isNet>>

\* A shutdown and restart, which keeps what is on disk, and a lost message.
LEMMA FaultAdvances ==
  \A H, T, A : Ready(H, T, A) /\ (Crash \/ Lose) => Advances(H, T, A)
<1>LoseLog. ASSUME NEW H, NEW T, LogInv(H, T), Lose
      PROVE  LogStep(H, T, H, T)
  <2> USE <1>LoseLog
  <2>1. UNCHANGED <<electionVars, logVars, persister>>
    BY Zenon DEF Lose
  <2>2. aeArgs' \subseteq aeArgs /\ isArgs' \subseteq isArgs /\ aeReplies' \subseteq aeReplies
    BY DEF Lose, aeNet, isNet
  <2>3. /\ \A m \in aeArgs' : m \in aeArgs
        /\ \A m \in isArgs' : m \in isArgs
        /\ \A r \in aeReplies' : r \in aeReplies
    BY Zenon, <2>2
  <2>4. QED
    BY Zenon, <2>1, <2>3, NothingLogged, QuietLog
<1>CrashLog. ASSUME NEW H, NEW T, LogInv(H, T), DiskInv, Crash
      PROVE  LogStep(H, T, H, T)
  <2> USE <1>CrashLog
  <2>1. aeArgs' = aeArgs /\ isArgs' = isArgs /\ aeReplies' = aeReplies
    BY Zenon DEF Crash, Restart, CrashInHandler, aeNet, isNet
  <2>2. QED
    BY Zenon, <2>1, CrashKeeps, KeptIsKept, QuietLog DEF NoPromotion
<1>LoseCommit. ASSUME NEW H, NEW T, NEW A, LogInv(H, T), CommitInv(H, T, A), Lose
      PROVE  CommitStep(H, T, A, H, T, A)
  <2> USE <1>LoseCommit
  <2>1. /\ UNCHANGED <<electionVars, logVars, applyVars, leaderVars>>
        /\ rvReplies' \subseteq rvReplies /\ rvArgs' \subseteq rvArgs
        /\ aeArgs' \subseteq aeArgs /\ isArgs' \subseteq isArgs
        /\ aeReplies' \subseteq aeReplies /\ isReplies' \subseteq isReplies
    BY DEF Lose, rvNet, aeNet, isNet
  <2>2. AcksStep(H, T, A, H, T, A) /\ SameBut(H, T, A)
    BY Zenon, <2>1, MailOnly
  <2>3. QED
    BY Zenon, <2>1, <2>2, SameCalls, SameAnswers DEF CommitStep, SameBut
<1>MakeReturns. ASSUME DiskInv, NEW i \in Server, NEW saved, saved.lastIncludedIndex = persister[i].lastIncludedIndex,
             Make(i, saved), UNCHANGED <<votes, rvReplies, aeNet, isNet>>, rvArgs' \subseteq rvArgs
      PROVE  Returns(i)
  <2> USE <1>MakeReturns
  <2>1. saved.lastIncludedIndex = lastIncludedIndex[i]
    BY Zenon DEF DiskInv, DiskIsCurrent
  <2>2. matchIndex \in [Server -> [Server -> Nat]] /\ nextIndex \in [Server -> [Server -> Nat]]
    BY Zenon DEF DiskInv, TypeOK
  <2>3. \A j \in Server : j # i => nextIndex'[j] = nextIndex[j] /\ matchIndex'[j] = matchIndex[j]
    BY Zenon, <2>2 DEF Make
  <2>4. /\ commitIndex' = [commitIndex EXCEPT ![i] = lastIncludedIndex[i]]
        /\ lastApplied' = [lastApplied EXCEPT ![i] = lastIncludedIndex[i]]
        /\ lastIncludedIndex' = [lastIncludedIndex EXCEPT ![i] = lastIncludedIndex[i]]
        /\ role' = [role EXCEPT ![i] = "Follower"]
    BY Zenon, <2>1 DEF Make
  <2>5. QED
    BY Zenon, <2>3, <2>4 DEF Returns
<1>CrashReturns. ASSUME DiskInv, Crash
      PROVE  \E i \in Server : Returns(i)
  <2> USE <1>CrashReturns
  <2>1. ASSUME NEW i \in Server, Restart(i) PROVE Returns(i)
    BY Zenon, <2>1, <1>MakeReturns DEF Restart, rvNet
  <2>2. ASSUME NEW m \in rvArgs \cup aeArgs \cup isArgs, CrashInHandler(m) PROVE m.to \in Server /\ Returns(m.to)
    <3>1. m.to \in Server /\ TypeOK
      BY Zenon DEF DiskInv, TypeOK, RequestVoteArgs, AppendEntriesArgs, InstallSnapshotArgs
    <3>2. PICK saved : saved = [persister[m.to] EXCEPT !.currentTerm = m.term, !.votedFor = Nil]
      BY Zenon
    <3>3. persister[m.to] \in Saved
      BY Zenon, <3>1 DEF TypeOK
    <3>4. saved.lastIncludedIndex = persister[m.to].lastIncludedIndex
      BY <3>2, <3>3 DEF Saved
    <3>5. Make(m.to, saved) /\ rvArgs' \subseteq rvArgs /\ UNCHANGED <<votes, rvReplies, aeNet, isNet>>
      BY Zenon, <2>2, <3>2 DEF CrashInHandler
    <3>6. QED
      BY Zenon, <3>1, <3>4, <3>5, <1>MakeReturns
  <2>3. QED
    BY Zenon, <2>1, <2>2 DEF Crash
<1>CrashCommit. ASSUME NEW H, NEW T, NEW A, LogInv(H, T), CommitInv(H, T, A), DiskInv, TypeOK', Crash
      PROVE  CommitStep(H, T, A, H, T, A)
  <2> USE <1>CrashCommit
  <2>0. TypeOK
    BY Zenon DEF DiskInv
  <2>1. PICK i \in Server : Returns(i)
    BY Zenon, <1>CrashReturns
  <2>2. RolesStep /\ NoPromotion /\ \A j \in Server : LogKept(j)
    BY Zenon, CrashKeeps
  <2>3. ASSUME NEW j \in Server PROVE LastLogIndex(j)' = LastLogIndex(j) /\ LastLogTerm(j)' = LastLogTerm(j)
    BY Zenon, <2>2 DEF LogKept, LastLogIndex, LastLogTerm, TermAt
  <2>4. /\ votes' = votes /\ rvReplies' = rvReplies /\ rvArgs' \subseteq rvArgs
        /\ UNCHANGED <<aeNet, isNet>>
    BY Zenon, <2>1 DEF Returns
  <2>5. VotesStep(H, T, A)
    BY Zenon, <2>4, SameVotes
  <2>6. CallsStep(H, T, A) /\ AnswersStep(H, T, A)
    BY Zenon, <2>4, SameCalls, SameAnswers DEF aeNet, isNet
  <2>7. AcksStep(H, T, A, H, T, A)
    BY Zenon, SameAcks DEF LogInv, CommitInv
  <2>8. LeadersStep(H, A)
    <3>1. ASSUME NEW j \in Server, role'[j] = "Leader" PROVE j # i
      <4>1. role'[i] = "Follower"
        BY Zenon, <2>0, <2>1 DEF Returns, TypeOK
      <4>2. QED
        BY <3>1, <4>1
    <3>2. QED
      BY Zenon, <2>1, <2>2, <2>3, <3>1, SameLeaders DEF Returns, NoPromotion
  <2>9. /\ lastApplied \in [Server -> Nat] /\ commitIndex \in [Server -> Nat]
        /\ lastIncludedIndex \in [Server -> Nat] /\ currentTerm[i] \in Nat
    BY Zenon, <2>0 DEF TypeOK
  <2>10. ASSUME NEW j \in Server
         PROVE  /\ lastIncludedIndex'[j] <= lastApplied'[j] /\ lastApplied'[j] <= commitIndex'[j]
                /\ commitIndex'[j] = commitIndex[j] \/ (j = i /\ commitIndex'[j] = lastIncludedIndex[i])
                /\ lastIncludedIndex[j] <= commitIndex[j]
    <3>1. lastIncludedIndex[j] <= lastApplied[j] /\ lastApplied[j] <= commitIndex[j]
      BY Zenon DEF CommitInv, ApplyFits
    <3>2. /\ commitIndex' = [commitIndex EXCEPT ![i] = lastIncludedIndex[i]]
          /\ lastApplied' = [lastApplied EXCEPT ![i] = lastIncludedIndex[i]]
          /\ lastIncludedIndex' = [lastIncludedIndex EXCEPT ![i] = lastIncludedIndex[i]]
      BY Zenon, <2>1 DEF Returns
    <3>3. QED
      BY ONLY i \in Server, j \in Server, <2>9, <3>1, <3>2
  <2>11. ASSUME commitIndex'[i] = lastIncludedIndex[i] PROVE CommitFits(i, H, T, A)'
    <3>1. PICK n \in Nat : n = lastIncludedIndex[i]
      BY Zenon, <2>9
    <3>2. PICK w : w = LastLogTerm(i)
      BY Zenon
    <3>3. LastTypes(i, H, T)
      BY Zenon, <2>0, LastTyped
    <3>4. LastLogIndex(i) \in Nat /\ LastLogIndex(i) <= Len(H[w]) /\ Len(H[w]) \in Nat
      BY Zenon, <3>2, <3>3 DEF LastTypes
    <3>5. n <= LastLogIndex(i)
      <4>1. HeldTypes(i)
        BY Zenon, <2>0, HeldTyped
      <4>2. /\ lastIncludedIndex[i] \in Nat /\ Len(log[i]) \in Nat
            /\ LastLogIndex(i) = lastIncludedIndex[i] + Len(log[i])
        BY Zenon, <4>1 DEF HeldTypes
      <4>3. QED
        BY ONLY <3>1, <4>2
    <3>6. n <= Len(H[w])
      BY Zenon, <3>4, <3>5, AtMost
    <3>7. AgreeUpTo(H[w], H[w], n)
      BY Zenon, <3>6 DEF AgreeUpTo
    <3>8. currentTerm'[i] \in Nat /\ currentTerm[i] <= currentTerm'[i]
      <4>1. currentTerm'[i] \in Nat /\ currentTerm'[i] >= currentTerm[i]
        BY Zenon, <2>2 DEF TypeOK, RolesStep
      <4>2. QED
        BY ONLY <2>9, <4>1
    <3>9. Committed(n, currentTerm'[i], H[w], H, T, A)
      BY Zenon, <2>0, <2>10, <3>1, <3>2, <3>7, <3>8, CommittedHere
    <3>10. QED
      BY Zenon, <2>3, <2>11, <3>1, <3>2, <3>5, <3>9 DEF CommitFits, KnownCommitted
  <2>12. CommitsStep(H, T, A)
    BY Zenon, <2>10, <2>11 DEF CommitsStep, ApplyFits
  <2>13. QED
    BY Zenon, <2>5, <2>6, <2>7, <2>8, <2>12 DEF CommitStep
<1> SUFFICES ASSUME NEW H, NEW T, NEW A, LogInv(H, T), CommitInv(H, T, A), ElectionInv, TypeOK', Crash \/ Lose
             PROVE  Advances(H, T, A)
  BY Zenon DEF Ready
<1>0. TypeOK /\ DiskInv /\ Majorities /\ VotesRemembered
  BY Zenon DEF ElectionInv, DiskInv
<1>1. CASE Crash
  BY Zenon, <1>0, <1>1, <1>CrashLog, <1>CrashCommit DEF Advances
<1>2. CASE Lose
  BY ZenonT(30), <1>2, <1>LoseLog, <1>LoseCommit DEF Advances
<1>3. QED
  BY Zenon, <1>1, <1>2

=============================================================================
