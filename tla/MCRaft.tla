------------------------------- MODULE MCRaft -------------------------------
(***************************************************************************)
(* Bounded instances of Raft for TLC.  The bounds are conjuncts on the     *)
(* state an action leads to: terms, log length, who may become a candidate *)
(* in which term, and how many messages of each kind are in flight at      *)
(* once.  Messages may always be lost, so a bound on those in flight does  *)
(* not bound how many are sent.                                            *)
(***************************************************************************)
EXTENDS Raft

CONSTANTS s1, s2, s3,
          MaxTerm, MaxIndex, MaxCommands,
          MayTimeOut,     \* MayTimeOut[t]: the peers that may stand for term t
          MayReach,       \* MayReach[t]: the peers that calls of the leader of term t reach
          MaySnapshot,    \* the peers whose service applies and takes snapshots
          MaxVoteCalls, MaxVoteReplies,
          MaxCalls, MaxReplies   \* AppendEntries and InstallSnapshot

ThreeServers == {s1, s2, s3}
TwoServers == {s1, s2}
OnlyS1 == [t \in 1..MaxTerm |-> {s1}]
\* s1 and s3 take turns as leaders, as in Figure 8 of the Raft paper.
TakingTurns == [t \in 1..MaxTerm |-> IF t % 2 = 1 THEN {s1} ELSE {s3}]
\* The same, after a first term that both stand for.
ContestedTurns == [TakingTurns EXCEPT ![1] = {s1, s3}]
\* Every peer leads once.
EachOnce == [t \in 1..MaxTerm |-> CASE t = 1 -> {s1} [] t = 2 -> {s3} [] OTHER -> {s2}]

\* The network: whole, or one in which the first leader is cut off from s2.
Connected == [t \in 1..MaxTerm |-> Server]
S2CutOff == [Connected EXCEPT ![1] = Server \ {s2}]

StandsFor(i, t) == role[i] = "Candidate" /\ currentTerm[i] = t
Leads(i, t) == role[i] = "Leader" /\ currentTerm[i] = t

\* The messages that can still have an effect.  A reply to a goroutine whose peer has
\* left the role or the term it called in is dropped by the goroutine's first check,
\* and so is the answer to a call that is stale for both its ends.
LiveVoteCalls == {m \in rvArgs : StandsFor(m.from, m.term) \/ m.term >= currentTerm[m.to]}
LiveVoteReplies ==
  {r \in rvReplies : StandsFor(r.to, r.reqTerm) /\ (r.voteGranted \/ r.term > r.reqTerm)}
LiveCalls(calls) == {m \in calls : Leads(m.from, m.term) \/ m.term >= currentTerm[m.to]}
LiveAppendReplies == {r \in aeReplies : Leads(r.to, r.reqTerm)}
LiveSnapshotReplies == {r \in isReplies : Leads(r.to, r.reqTerm)}

\* Two states that differ only in dead messages, in the tallies of finished elections
\* or in the leader state of a peer that is not leading have the same successors.
View ==
  <<currentTerm, votedFor, role, logVars, applyVars, persister,
    [i \in Server |-> IF role[i] = "Candidate" THEN Tally(i, currentTerm[i]) ELSE {}],
    [i \in Server |-> IF role[i] = "Leader" THEN <<nextIndex[i], matchIndex[i]>> ELSE <<>>],
    LiveVoteCalls, LiveVoteReplies, LiveCalls(aeArgs), LiveAppendReplies,
    LiveCalls(isArgs), LiveSnapshotReplies>>

Bounds ==
  /\ \A i \in Server :
       /\ currentTerm[i] <= MaxTerm
       /\ LastLogIndex(i) <= MaxIndex
       /\ i \notin MaySnapshot => lastApplied[i] <= lastIncludedIndex[i]
       /\ role[i] = "Candidate" => i \in MayTimeOut[currentTerm[i]]
  /\ \A m \in aeArgs \cup isArgs : m.to \in MayReach[m.term]
  /\ Cardinality(LiveVoteCalls) <= MaxVoteCalls
  /\ Cardinality(LiveVoteReplies) <= MaxVoteReplies
  /\ Cardinality(LiveCalls(aeArgs)) + Cardinality(LiveCalls(isArgs)) <= MaxCalls
  /\ Cardinality(LiveAppendReplies) + Cardinality(LiveSnapshotReplies) <= MaxReplies

\* No command is passed to Start twice, as by a client that numbers its commands; here
\* by the term and the index it gets.  Of them, MaxCommands are in the logs at once.
Numbered == (1..MaxTerm) \X (1..MaxIndex)
\* Two commands for the first leader and two for the second.
TwoEach == {<<1, 1>>, <<1, 2>>, <<2, 1>>, <<2, 2>>}
InLogs == UNION {{Commands(i)[k] : k \in DOMAIN Commands(i)} : i \in Server}
FreshCommands ==
  \A i \in Server :
    role[i] = "Leader" /\ Len(log'[i]) > Len(log[i]) =>
      /\ log'[i][Len(log'[i])].command = <<currentTerm[i], LastLogIndex(i) + 1>>
      /\ Cardinality(InLogs) < MaxCommands

\* Elections, replication and crashes, without snapshots.
CrashNext == (Elect \/ Replicate \/ Crash \/ Lose) /\ FreshCommands /\ Bounds'
CrashSpec == Init /\ [][CrashNext]_vars

\* Elections and replication, without crashes and snapshots.
ReplicationNext == (Elect \/ Replicate \/ Lose) /\ FreshCommands /\ Bounds'
ReplicationSpec == Init /\ [][ReplicationNext]_vars

\* Elections, replication and snapshots, without crashes.
CompactionNext == (Elect \/ Replicate \/ Compact \/ Lose) /\ FreshCommands /\ Bounds'
CompactionSpec == Init /\ [][CompactionNext]_vars

=============================================================================
