------------------------------ MODULE RaftInv -------------------------------
(***************************************************************************)
(* What the proofs about Raft share of the invariant: the types, the disk  *)
(* and the elections.                                                      *)
(***************************************************************************)
EXTENDS Raft

-----------------------------------------------------------------------------
(* The disk *)

\* A snapshot covers exactly the indexes up to the lastIncludedIndex it comes with.
SnapshotsCover ==
  /\ \A i \in Server : Len(persister[i].snapshot) = lastIncludedIndex[i]
  /\ \A m \in isArgs : Len(m.data) = m.lastIncludedIndex

\* Types, and what the disk says of memory.
DiskInv == TypeOK /\ DiskIsCurrent /\ SnapshotsCover

-----------------------------------------------------------------------------
(* Elections *)

\* Voter v has answered candidate c with its vote for term t: counted already, or under way.
Granted(v, t, c) ==
  \/ [candidate |-> c, term |-> t, voter |-> v] \in votes
  \/ \E r \in rvReplies : r.voteGranted /\ r.from = v /\ r.reqTerm = t /\ r.to = c

\* What the proofs use of majorities; a fact about the constants.
Majorities ==
  /\ IsMajority(Server)
  /\ \A S, T \in SUBSET Server : S \subseteq T /\ IsMajority(S) => IsMajority(T)
  /\ \A S, T \in SUBSET Server :
       IsMajority(S) /\ IsMajority(T) => \E v \in Server : v \in S /\ v \in T

\* A voter remembers its last vote.
VotesRemembered ==
  \A v, c \in Server, t \in Nat :
    Granted(v, t, c) => currentTerm[v] > t \/ (currentTerm[v] = t /\ votedFor[v] = c)

\* No voter grants two votes in a term.
VotesUnique ==
  \A v, c, d \in Server, t \in Nat : Granted(v, t, c) /\ Granted(v, t, d) => c = d

\* Who leads has counted a majority.
LeadersElected ==
  \A i \in Server : role[i] = "Leader" => IsMajority(Tally(i, currentTerm[i]))

\* So has who made a call under way.
CallersElected == \A m \in aeArgs \cup isArgs : IsMajority(Tally(m.from, m.term))

\* The election invariant.
ElectionInv ==
  Majorities /\ DiskInv /\ VotesRemembered /\ VotesUnique /\ LeadersElected /\ CallersElected

=============================================================================
