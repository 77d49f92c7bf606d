-------------------------------- MODULE Raft --------------------------------
(***************************************************************************)
(* The Raft peer of raft1/raft.go: leader election, log replication with   *)
(* fast backup, log compaction with InstallSnapshot, persistence and       *)
(* restart, over the lossy, reordering network of labrpc/labrpc.go.        *)
(*                                                                         *)
(* An action is one critical section of rf.mu (one Lock ... Unlock of a    *)
(* goroutine).  What happens between two critical sections of the same     *)
(* goroutine is an RPC, so it is a message: a record of the arguments      *)
(* while the call travels, a record of the reply, with the local variables *)
(* the caller's goroutine still holds, while the answer travels.           *)
(***************************************************************************)
EXTENDS Integers, Sequences, FiniteSets

CONSTANTS Server,    \* the peers
          Command,   \* what clients pass to Start
          Nil        \* votedFor = -1

ASSUME ServerAssumption == IsFiniteSet(Server) /\ Server # {}
ASSUME NilAssumption == Nil \notin Server

VARIABLES
  currentTerm, votedFor,  \* Figure 2 persistent state, in memory
  log,                    \* the entries after lastIncludedIndex
  lastIncludedIndex,      \* index and term of the sentinel rf.log[0]
  lastIncludedTerm,
  commitIndex, lastApplied,
  role,
  votes,                  \* the votes counted so far, in every election
  nextIndex, matchIndex,
  persister               \* what the last Save of each peer wrote

VARIABLES
  rvArgs, rvReplies,      \* RequestVote calls and replies in flight
  aeArgs, aeReplies,      \* AppendEntries
  isArgs, isReplies       \* InstallSnapshot

electionVars == <<currentTerm, votedFor, role, votes>>
logVars == <<log, lastIncludedIndex, lastIncludedTerm>>
applyVars == <<commitIndex, lastApplied>>
leaderVars == <<nextIndex, matchIndex>>
rvNet == <<rvArgs, rvReplies>>
aeNet == <<aeArgs, aeReplies>>
isNet == <<isArgs, isReplies>>
vars == <<electionVars, logVars, applyVars, leaderVars, persister,
          rvNet, aeNet, isNet>>

Role == {"Follower", "Candidate", "Leader"}
Entry == [term : Nat, command : Command]

\* A vote counted by the goroutines of one startElection.  Each election has a
\* counter of its own, shared by its goroutines.
Vote == [candidate : Server, term : Nat, voter : Server]

(***************************************************************************)
(* What persist() and Save write: labgob encodes the five fields, and the  *)
(* service's snapshot travels with them.  A snapshot stands for the        *)
(* commands the service had applied when it took it.                       *)
(***************************************************************************)
Saved == [currentTerm : Nat, votedFor : Server \cup {Nil}, log : Seq(Entry),
          lastIncludedIndex : Nat, lastIncludedTerm : Nat,
          snapshot : Seq(Command)]

(***************************************************************************)
(* The messages.  A reply carries, besides the fields of the reply struct, *)
(* what the calling goroutine remembers of its call: the term it was in    *)
(* (reqTerm), and prevLogIndex and len(entries), or lastIncludedIndex.     *)
(***************************************************************************)
RequestVoteArgs ==
  [from : Server, to : Server, term : Nat, lastLogIndex : Nat, lastLogTerm : Nat]
RequestVoteReply ==
  [from : Server, to : Server, reqTerm : Nat, term : Nat, voteGranted : BOOLEAN]
AppendEntriesArgs ==
  [from : Server, to : Server, term : Nat, prevLogIndex : Nat, prevLogTerm : Nat,
   entries : Seq(Entry), leaderCommit : Nat]
AppendEntriesReply ==
  [from : Server, to : Server, reqTerm : Nat, prevLogIndex : Nat, count : Nat,
   term : Nat, success : BOOLEAN, conflictTerm : Int, conflictIndex : Nat]
InstallSnapshotArgs ==
  [from : Server, to : Server, term : Nat, lastIncludedIndex : Nat,
   lastIncludedTerm : Nat, data : Seq(Command)]
InstallSnapshotReply ==
  [from : Server, to : Server, reqTerm : Nat, lastIncludedIndex : Nat, term : Nat]

-----------------------------------------------------------------------------
(* Helpers *)

IsMajority(S) == Cardinality(S) > Cardinality(Server) \div 2

\* Who voted for i in the election it started for term t.
Tally(i, t) == {v \in Server : [candidate |-> i, term |-> t, voter |-> v] \in votes}

LastLogIndex(i) == lastIncludedIndex[i] + Len(log[i])

\* rf.log[getRelativeIndex(index)] exists, as an entry or as the sentinel.  Where the
\* code does not test this, Go does, and panics; IndexesInRange says it never has to.
InLog(i, index) == index \in lastIncludedIndex[i]..LastLogIndex(i)

\* The term of rf.log[getRelativeIndex(index)]; the sentinel has lastIncludedTerm.
TermAt(i, index) ==
  IF index = lastIncludedIndex[i] THEN lastIncludedTerm[i]
  ELSE log[i][index - lastIncludedIndex[i]].term

LastLogTerm(i) == TermAt(i, LastLogIndex(i))

EntriesAfter(i, index) ==  \* mutant: an off-by-one in getRelativeIndex
  SubSeq(log[i], index + 1 - lastIncludedIndex[i], Len(log[i]))

\* The entries from index on, rf.log[getRelativeIndex(index):].
EntriesFrom(i, index) ==
  SubSeq(log[i], index - lastIncludedIndex[i], Len(log[i]))

\* All the commands peer i holds: those its snapshot covers, then its log's.
Commands(i) ==
  persister[i].snapshot \o [k \in DOMAIN log[i] |-> log[i][k].command]

\* Save: raft state and snapshot replace the old ones in one atomic step.
Save(i, snapshot) ==
  persister' = [persister EXCEPT ![i] =
    [currentTerm |-> currentTerm'[i], votedFor |-> votedFor'[i], log |-> log'[i],
     lastIncludedIndex |-> lastIncludedIndex'[i],
     lastIncludedTerm |-> lastIncludedTerm'[i], snapshot |-> snapshot]]

\* persist() writes the state the critical section leaves, and the old snapshot.
Persist(i) == Save(i, persister[i].snapshot)

PersistLost(cond, i) == UNCHANGED persister  \* mutant: the handler forgets to persist
PersistIf(cond, i) == IF cond THEN Persist(i) ELSE UNCHANGED persister

\* A reply from a higher term: adopt it, forget the vote, become a follower.
StepDown(i, term) ==
  /\ currentTerm' = [currentTerm EXCEPT ![i] = term]
  /\ role' = [role EXCEPT ![i] = "Follower"]
  /\ votedFor' = [votedFor EXCEPT ![i] = Nil]
  /\ UNCHANGED <<votes, logVars>>
  /\ Persist(i)

FollowAnyLeader(i, term) ==  \* mutant: without the check of the term
  /\ currentTerm' = [currentTerm EXCEPT ![i] = term]
  /\ role' = [role EXCEPT ![i] = IF @ = "Candidate" THEN "Follower" ELSE @]
  /\ votedFor' = [votedFor EXCEPT ![i] = IF term > currentTerm[i] THEN Nil ELSE @]
  /\ UNCHANGED votes

\* A request from a leader of this term or a later one: the part AppendEntries
\* and InstallSnapshot share.  A peer that is itself Leader of that term stays so.
FollowLeader(i, term) ==
  /\ term >= currentTerm[i]
  /\ currentTerm' = [currentTerm EXCEPT ![i] = term]
  /\ role' = [role EXCEPT ![i] =
       IF term > currentTerm[i] \/ @ = "Candidate" THEN "Follower" ELSE @]
  /\ votedFor' = [votedFor EXCEPT ![i] = IF term > currentTerm[i] THEN Nil ELSE @]
  /\ UNCHANGED votes

-----------------------------------------------------------------------------
(* Elections *)

\* ticker found the election timeout expired: startElection.  The timeout is not
\* modelled, so any peer that is not a leader may time out at any moment.
StartElection(i) ==
  /\ role[i] # "Leader"
  /\ role' = [role EXCEPT ![i] = "Candidate"]
  /\ currentTerm' = [currentTerm EXCEPT ![i] = @ + 1]
  /\ votedFor' = [votedFor EXCEPT ![i] = i]
  /\ votes' = votes \cup {[candidate |-> i, term |-> currentTerm[i] + 1, voter |-> i]}
  /\ rvArgs' = rvArgs \cup
       {[from |-> i, to |-> j, term |-> currentTerm[i] + 1,
         lastLogIndex |-> LastLogIndex(i), lastLogTerm |-> LastLogTerm(i)]
        : j \in Server \ {i}}
  /\ UNCHANGED <<logVars, applyVars, leaderVars, rvReplies, aeNet, isNet>>
  /\ Persist(i)

LogUpToDateByTerm(i, m) ==  \* mutant: without the comparison of the indexes
  m.lastLogTerm >= LastLogTerm(i)

\* Rule 3 of RequestVote: the candidate's log is at least as up to date as i's.
LogUpToDate(i, m) ==
  \/ m.lastLogTerm > LastLogTerm(i)
  \/ m.lastLogTerm = LastLogTerm(i) /\ m.lastLogIndex >= LastLogIndex(i)

GrantsAnyVote(i, voted, m) == LogUpToDate(i, m)  \* mutant: without the check of votedFor

\* RequestVote grants its vote when it is free, or was already given to the caller.
GrantsVote(i, voted, m) == voted \in {Nil, m.from} /\ LogUpToDate(i, m)

\* The reply to a RequestVote call.  A call is made once and answered once.
AnswerVote(m, term, granted) ==
  /\ rvArgs' = rvArgs \ {m}
  /\ rvReplies' = rvReplies \cup
       {[from |-> m.to, to |-> m.from, reqTerm |-> m.term,
         term |-> term, voteGranted |-> granted]}

\* RequestVote, rule 1: the candidate's term is older.
RejectVote(m) ==
  /\ m.term < currentTerm[m.to]
  /\ AnswerVote(m, currentTerm[m.to], FALSE)
  /\ UNCHANGED <<electionVars, logVars, applyVars, leaderVars, persister, aeNet, isNet>>

\* RequestVote, rules 2 and 3.
ConsiderVote(m) ==
  LET i == m.to
      newer == m.term > currentTerm[i]
      voted == IF newer THEN Nil ELSE votedFor[i]
      grant == GrantsVote(i, voted, m)
  IN  /\ m.term >= currentTerm[i]
      /\ currentTerm' = [currentTerm EXCEPT ![i] = m.term]
      /\ role' = [role EXCEPT ![i] = IF newer THEN "Follower" ELSE @]
      /\ votedFor' = [votedFor EXCEPT ![i] = IF grant THEN m.from ELSE voted]
      /\ UNCHANGED <<votes, logVars, applyVars, leaderVars, aeNet, isNet>>
      /\ AnswerVote(m, m.term, grant)
      /\ PersistIf(newer \/ grant, i)

RequestVote(m) == RejectVote(m) \/ ConsiderVote(m)

\* The candidate's goroutine gets a reply from a later term.
VoteReplyNewTerm(r) ==
  /\ role[r.to] = "Candidate" /\ currentTerm[r.to] = r.reqTerm
  /\ r.term > currentTerm[r.to]
  /\ rvReplies' = rvReplies \ {r}
  /\ StepDown(r.to, r.term)
  /\ UNCHANGED <<applyVars, leaderVars, rvArgs, aeNet, isNet>>

\* The candidate's goroutine counts a vote; with a majority it becomes leader.
CountVote(r) ==
  LET i == r.to
      won == IsMajority(Tally(i, r.reqTerm) \cup {r.from})
  IN  /\ role[i] = "Candidate" /\ currentTerm[i] = r.reqTerm
      /\ r.term <= currentTerm[i] /\ r.voteGranted
      /\ votes' = votes \cup {[candidate |-> i, term |-> r.reqTerm, voter |-> r.from]}
      /\ role' = [role EXCEPT ![i] = IF won THEN "Leader" ELSE @]
      /\ nextIndex' = [nextIndex EXCEPT ![i] =
           IF won THEN [j \in Server |-> LastLogIndex(i) + 1] ELSE @]
      /\ matchIndex' = [matchIndex EXCEPT ![i] =
           IF won THEN [j \in Server |-> 0] ELSE @]
      /\ rvReplies' = rvReplies \ {r}
      /\ UNCHANGED <<currentTerm, votedFor, logVars, applyVars, persister,
                     rvArgs, aeNet, isNet>>

-----------------------------------------------------------------------------
(* Replication *)

\* Start: the leader appends a client's command to its log.
Start(i, command) ==
  /\ role[i] = "Leader"
  /\ log' = [log EXCEPT ![i] =
       Append(@, [term |-> currentTerm[i], command |-> command])]
  /\ UNCHANGED <<electionVars, lastIncludedIndex, lastIncludedTerm, applyVars,
                 leaderVars, rvNet, aeNet, isNet>>
  /\ Persist(i)

\* sendAppendEntriesToPeer, the entries the peer needs are in the log.  Calls are
\* repeated by every heartbeat, so any number of them may be under way at once.
SendAppendEntries(i, j) ==
  LET next == nextIndex[i][j]
  IN  /\ role[i] = "Leader" /\ j # i
      /\ next > lastIncludedIndex[i] /\ InLog(i, next - 1)
      /\ aeArgs' = aeArgs \cup
           {[from |-> i, to |-> j, term |-> currentTerm[i],
             prevLogIndex |-> next - 1, prevLogTerm |-> TermAt(i, next - 1),
             entries |-> EntriesFrom(i, next), leaderCommit |-> commitIndex[i]]}
      /\ UNCHANGED <<electionVars, logVars, applyVars, leaderVars, persister,
                     rvNet, aeReplies, isNet>>

\* sendAppendEntriesToPeer, the entries the peer needs were compacted away.
SendInstallSnapshot(i, j) ==
  /\ role[i] = "Leader" /\ j # i
  /\ nextIndex[i][j] <= lastIncludedIndex[i]
  /\ isArgs' = isArgs \cup
       {[from |-> i, to |-> j, term |-> currentTerm[i],
         lastIncludedIndex |-> lastIncludedIndex[i],
         lastIncludedTerm |-> lastIncludedTerm[i],
         data |-> persister[i].snapshot]}
  /\ UNCHANGED <<electionVars, logVars, applyVars, leaderVars, persister,
                 rvNet, aeNet, isReplies>>

AnswerAppend(m, term, success, conflictTerm, conflictIndex) ==
  aeReplies' = aeReplies \cup
    {[from |-> m.to, to |-> m.from, reqTerm |-> m.term,
      prevLogIndex |-> m.prevLogIndex, count |-> Len(m.entries), term |-> term,
      success |-> success, conflictTerm |-> conflictTerm,
      conflictIndex |-> conflictIndex]}

\* AppendEntries, rule 1: the leader's term is older.
RejectAppend(m) ==
  /\ m.term < currentTerm[m.to]
  /\ AnswerAppend(m, currentTerm[m.to], FALSE, 0, 0)
  /\ UNCHANGED <<electionVars, logVars, applyVars, leaderVars, persister,
                 rvNet, aeArgs, isNet>>

\* AppendEntries finds no entry at prevLogIndex: it was compacted away, or the log
\* is too short.
MissingPrev(m) ==
  LET i == m.to
      first == IF m.prevLogIndex < lastIncludedIndex[i]
               THEN lastIncludedIndex[i] ELSE LastLogIndex(i)
  IN  /\ FollowLeader(i, m.term)
      /\ ~InLog(i, m.prevLogIndex)
      /\ AnswerAppend(m, m.term, FALSE, -1, first + 1)
      /\ UNCHANGED <<logVars, applyVars, leaderVars, rvNet, aeArgs, isNet>>
      /\ PersistIf(m.term > currentTerm[i], i)

\* AppendEntries finds another term at prevLogIndex, and looks for the first index
\* of that term.
ConflictingPrev(m) ==
  LET i == m.to
      conflict == TermAt(i, m.prevLogIndex)
  IN  /\ FollowLeader(i, m.term)
      /\ InLog(i, m.prevLogIndex)
      /\ conflict # m.prevLogTerm
      /\ \E first \in lastIncludedIndex[i]..m.prevLogIndex :
           /\ \A k \in first..m.prevLogIndex : TermAt(i, k) = conflict
           /\ first > lastIncludedIndex[i] => TermAt(i, first - 1) # conflict
           /\ AnswerAppend(m, m.term, FALSE, conflict, first)
      /\ UNCHANGED <<logVars, applyVars, leaderVars, rvNet, aeArgs, isNet>>
      /\ PersistIf(m.term > currentTerm[i], i)

MergedByCutting(old, base, kept, entries) ==  \* mutant: a late call cuts newer entries
  SubSeq(old, 1, base + kept) \o SubSeq(entries, kept + 1, Len(entries))

\* The log after its entry `base` is followed by `entries`, of which the first `kept`
\* are there already: from the first that is not, the log is cut and the rest appended.
Merged(old, base, kept, entries) ==
  IF kept = Len(entries) THEN old
  ELSE SubSeq(old, 1, base + kept) \o SubSeq(entries, kept + 1, Len(entries))

\* AppendEntries, rules 3 to 5.  The first `kept` entries agree with the log by term.
AcceptAppend(m) ==
  LET i == m.to
      base == m.prevLogIndex - lastIncludedIndex[i]
      n == Len(m.entries)
      agrees(k) == base + k <= Len(log[i]) /\ log[i][base + k].term = m.entries[k].term
      lastNew == m.prevLogIndex + n
      newCommit == IF m.leaderCommit < lastNew THEN m.leaderCommit ELSE lastNew
  IN  /\ FollowLeader(i, m.term)
      /\ InLog(i, m.prevLogIndex)
      /\ TermAt(i, m.prevLogIndex) = m.prevLogTerm
      /\ \E kept \in 0..n :
           /\ \A k \in 1..kept : agrees(k)
           /\ kept < n => ~agrees(kept + 1)
           /\ log' = [log EXCEPT ![i] = Merged(@, base, kept, m.entries)]
           /\ UNCHANGED <<lastIncludedIndex, lastIncludedTerm>>
           /\ PersistIf(m.term > currentTerm[i] \/ kept < n, i)
      /\ commitIndex' = [commitIndex EXCEPT ![i] = IF newCommit > @ THEN newCommit ELSE @]
      /\ AnswerAppend(m, m.term, TRUE, 0, 0)
      /\ UNCHANGED <<lastApplied, leaderVars, rvNet, aeArgs, isNet>>

AppendEntries(m) ==
  RejectAppend(m) \/ MissingPrev(m) \/ ConflictingPrev(m) \/ AcceptAppend(m)

\* The leader's goroutine, back from AppendEntries or InstallSnapshot, finds itself
\* still the leader it was, and the peer in a later term.
LeaderReplyNewTerm(r) ==
  /\ role[r.to] = "Leader" /\ currentTerm[r.to] = r.reqTerm
  /\ r.term > currentTerm[r.to]
  /\ StepDown(r.to, r.term)
  /\ UNCHANGED <<applyVars, leaderVars, rvNet, aeNet, isNet>>

AnyTermFrom(i, N) == TRUE  \* mutant: counts replicas of entries of earlier terms

\* The loop of updateCommitIndex gets down to N: it breaks at an entry of another term.
CurrentTermFrom(i, N) == \A M \in N..LastLogIndex(i) : TermAt(i, M) = currentTerm[i]

\* updateCommitIndex: from the end of the log down, over entries of the current term
\* only, the first index that a majority holds.
UpdateCommitIndex(i) ==
  LET replicated(N) == {i} \cup {j \in Server \ {i} : matchIndex'[i][j] >= N}
      committable == {N \in commitIndex[i] + 1 .. LastLogIndex(i) :
                        CurrentTermFrom(i, N) /\ IsMajority(replicated(N))}
  IN  \/ committable = {} /\ UNCHANGED commitIndex
      \/ \E N \in committable :
           /\ \A M \in committable : M <= N
           /\ commitIndex' = [commitIndex EXCEPT ![i] = N]

MatchedToEnd(i, r) == LastLogIndex(i)  \* mutant: the log as it is now, not as it was sent

\* What the call's prevLogIndex and entries reached when it was made.
Matched(i, r) == r.prevLogIndex + r.count

\* sendAppendEntriesToPeer, the peer accepted.
AppendSucceeded(r) ==
  LET i == r.to
      matched == Matched(i, r)
  IN  /\ role[i] = "Leader" /\ currentTerm[i] = r.reqTerm
      /\ r.term <= currentTerm[i] /\ r.success
      /\ matchIndex' = [matchIndex EXCEPT ![i][r.from] = matched]
      /\ nextIndex' = [nextIndex EXCEPT ![i][r.from] = matched + 1]
      /\ UpdateCommitIndex(i)
      /\ UNCHANGED <<electionVars, logVars, lastApplied, persister, rvNet, aeNet, isNet>>

OneBack(i, r) == {nextIndex[i][r.from] - 1}  \* mutant: for late refusals too
PastConflict(i, r) == {r.conflictIndex + 1}     \* mutant: an off-by-one

\* Fast backup: the leader skips to the end of its own entries of the conflicting
\* term, or else to conflictIndex.
BackupIndex(i, r) ==
  LET ofTerm == {k \in DOMAIN log[i] : log[i][k].term = r.conflictTerm}
  IN  IF ofTerm = {} THEN {r.conflictIndex}
      ELSE {lastIncludedIndex[i] + k + 1 : k \in {x \in ofTerm : \A y \in ofTerm : y <= x}}

\* sendAppendEntriesToPeer, the peer refused.
AppendRefused(r) ==
  LET i == r.to
  IN  /\ role[i] = "Leader" /\ currentTerm[i] = r.reqTerm
      /\ r.term <= currentTerm[i] /\ ~r.success
      /\ \E next \in BackupIndex(i, r) :
           nextIndex' = [nextIndex EXCEPT ![i][r.from] = next]
      /\ UNCHANGED <<electionVars, logVars, applyVars, matchIndex, persister,
                     rvNet, aeNet, isNet>>

-----------------------------------------------------------------------------
(* Snapshots *)

CommitTo(i, index) ==  \* mutant: lastApplied stays behind the snapshot
  /\ commitIndex' = [commitIndex EXCEPT ![i] = IF @ < index THEN index ELSE @]
  /\ UNCHANGED lastApplied

\* What a snapshot up to index covers is committed and applied.
AdvanceTo(i, index) ==
  /\ commitIndex' = [commitIndex EXCEPT ![i] = IF @ < index THEN index ELSE @]
  /\ lastApplied' = [lastApplied EXCEPT ![i] = IF @ < index THEN index ELSE @]

\* Snapshot: the service has folded the commands up to index into data.
Snapshot(i, index, data) ==
  /\ index > lastIncludedIndex[i] /\ InLog(i, index)
  /\ lastIncludedTerm' = [lastIncludedTerm EXCEPT ![i] = TermAt(i, index)]
  /\ log' = [log EXCEPT ![i] = EntriesFrom(i, index + 1)]
  /\ lastIncludedIndex' = [lastIncludedIndex EXCEPT ![i] = index]
  /\ AdvanceTo(i, index)
  /\ UNCHANGED <<electionVars, leaderVars, rvNet, aeNet, isNet>>
  /\ Save(i, data)

\* The reply's term is read before the handler adopts the caller's.
AnswerSnapshot(m) ==
  isReplies' = isReplies \cup
    {[from |-> m.to, to |-> m.from, reqTerm |-> m.term,
      lastIncludedIndex |-> m.lastIncludedIndex, term |-> currentTerm[m.to]]}

\* InstallSnapshot from an older term.
RejectSnapshot(m) ==
  /\ m.term < currentTerm[m.to]
  /\ AnswerSnapshot(m)
  /\ UNCHANGED <<electionVars, logVars, applyVars, leaderVars, persister,
                 rvNet, aeNet, isArgs>>

\* InstallSnapshot of a prefix the peer has already compacted.
IgnoreSnapshot(m) ==
  LET i == m.to
  IN  /\ FollowLeader(i, m.term)
      /\ m.lastIncludedIndex <= lastIncludedIndex[i]
      /\ AnswerSnapshot(m)
      /\ UNCHANGED <<logVars, applyVars, leaderVars, rvNet, aeNet, isArgs>>
      /\ PersistIf(m.term > currentTerm[i], i)

ReachesEntry(i, index, term) == index <= LastLogIndex(i)  \* mutant: of whatever term

\* The log holds the snapshot's last entry.
HoldsEntry(i, index, term) == index <= LastLogIndex(i) /\ TermAt(i, index) = term

\* InstallSnapshot replaces the log's prefix, and keeps the rest when the log holds
\* the snapshot's last entry.
AcceptSnapshot(m) ==
  LET i == m.to
      index == m.lastIncludedIndex
  IN  /\ FollowLeader(i, m.term)
      /\ index > lastIncludedIndex[i]
      /\ log' = [log EXCEPT ![i] =
           IF HoldsEntry(i, index, m.lastIncludedTerm) THEN EntriesFrom(i, index + 1) ELSE <<>>]
      /\ lastIncludedIndex' = [lastIncludedIndex EXCEPT ![i] = index]
      /\ lastIncludedTerm' = [lastIncludedTerm EXCEPT ![i] = m.lastIncludedTerm]
      /\ AdvanceTo(i, index)
      /\ AnswerSnapshot(m)
      /\ UNCHANGED <<leaderVars, rvNet, aeNet, isArgs>>
      /\ Save(i, m.data)

InstallSnapshot(m) == RejectSnapshot(m) \/ IgnoreSnapshot(m) \/ AcceptSnapshot(m)

\* sendAppendEntriesToPeer, the peer has the snapshot.
SnapshotInstalled(r) ==
  LET i == r.to
      match == IF matchIndex[i][r.from] < r.lastIncludedIndex
               THEN r.lastIncludedIndex ELSE matchIndex[i][r.from]
  IN  /\ role[i] = "Leader" /\ currentTerm[i] = r.reqTerm
      /\ r.term <= currentTerm[i]
      /\ matchIndex' = [matchIndex EXCEPT ![i][r.from] = match]
      /\ nextIndex' = [nextIndex EXCEPT ![i][r.from] = match + 1]
      /\ UNCHANGED <<electionVars, logVars, applyVars, persister, rvNet, aeNet, isNet>>

-----------------------------------------------------------------------------
(* Applying, crashing, restarting *)

\* applierLoop collects everything committed and not yet applied.
ApplierLoop(i) ==
  /\ lastApplied[i] < commitIndex[i]
  /\ lastApplied' = [lastApplied EXCEPT ![i] = commitIndex[i]]
  /\ UNCHANGED <<electionVars, logVars, commitIndex, leaderVars, persister,
                 rvNet, aeNet, isNet>>

\* Make with a persister that holds `saved`: readPersist, everything else fresh.
Make(i, saved) ==
  /\ currentTerm' = [currentTerm EXCEPT ![i] = saved.currentTerm]
  /\ votedFor' = [votedFor EXCEPT ![i] = saved.votedFor]
  /\ log' = [log EXCEPT ![i] = saved.log]
  /\ lastIncludedIndex' = [lastIncludedIndex EXCEPT ![i] = saved.lastIncludedIndex]
  /\ lastIncludedTerm' = [lastIncludedTerm EXCEPT ![i] = saved.lastIncludedTerm]
  /\ commitIndex' = [commitIndex EXCEPT ![i] = saved.lastIncludedIndex]
  /\ lastApplied' = [lastApplied EXCEPT ![i] = saved.lastIncludedIndex]
  /\ role' = [role EXCEPT ![i] = "Follower"]
  /\ nextIndex' = [nextIndex EXCEPT ![i] = [j \in Server |-> 0]]
  /\ matchIndex' = [matchIndex EXCEPT ![i] = [j \in Server |-> 0]]

\* The peer is shut down between two critical sections, and started again.
Restart(i) ==
  /\ Make(i, persister[i])
  /\ UNCHANGED <<votes, persister, rvNet, aeNet, isNet>>

\* The peer is shut down inside a handler: the first persist(), of the request's
\* newer term, is in the persister, and nothing the handler does after it.
CrashInHandler(m) ==
  LET i == m.to
      saved == [persister[i] EXCEPT !.currentTerm = m.term, !.votedFor = Nil]
  IN  /\ m.term > currentTerm[i]
      /\ persister' = [persister EXCEPT ![i] = saved]
      /\ Make(i, saved)
      /\ rvArgs' = rvArgs \ {m}
      /\ UNCHANGED <<votes, rvReplies, aeNet, isNet>>

\* labrpc loses a request or a reply, or the caller has stopped waiting for it.
Lose ==
  /\ \/ \E m \in rvArgs : rvArgs' = rvArgs \ {m} /\ UNCHANGED <<rvReplies, aeNet, isNet>>
     \/ \E r \in rvReplies : rvReplies' = rvReplies \ {r} /\ UNCHANGED <<rvArgs, aeNet, isNet>>
     \/ \E m \in aeArgs : aeArgs' = aeArgs \ {m} /\ UNCHANGED <<aeReplies, rvNet, isNet>>
     \/ \E r \in aeReplies : aeReplies' = aeReplies \ {r} /\ UNCHANGED <<aeArgs, rvNet, isNet>>
     \/ \E m \in isArgs : isArgs' = isArgs \ {m} /\ UNCHANGED <<isReplies, rvNet, aeNet>>
     \/ \E r \in isReplies : isReplies' = isReplies \ {r} /\ UNCHANGED <<isArgs, rvNet, aeNet>>
  /\ UNCHANGED <<electionVars, logVars, applyVars, leaderVars, persister>>

-----------------------------------------------------------------------------

Init ==
  /\ currentTerm = [i \in Server |-> 0]
  /\ votedFor = [i \in Server |-> Nil]
  /\ log = [i \in Server |-> <<>>]
  /\ lastIncludedIndex = [i \in Server |-> 0]
  /\ lastIncludedTerm = [i \in Server |-> 0]
  /\ commitIndex = [i \in Server |-> 0]
  /\ lastApplied = [i \in Server |-> 0]
  /\ role = [i \in Server |-> "Follower"]
  /\ votes = {}
  /\ nextIndex = [i \in Server |-> [j \in Server |-> 0]]
  /\ matchIndex = [i \in Server |-> [j \in Server |-> 0]]
  /\ persister = [i \in Server |->
       [currentTerm |-> 0, votedFor |-> Nil, log |-> <<>>,
        lastIncludedIndex |-> 0, lastIncludedTerm |-> 0, snapshot |-> <<>>]]
  /\ rvArgs = {} /\ rvReplies = {}
  /\ aeArgs = {} /\ aeReplies = {}
  /\ isArgs = {} /\ isReplies = {}

\* The service snapshots only what it has been given to apply.
TakeSnapshot(i) ==
  \E index \in 1..lastApplied[i] : Snapshot(i, index, SubSeq(Commands(i), 1, index))

Crash ==
  \/ \E i \in Server : Restart(i)
  \/ \E m \in rvArgs \cup aeArgs \cup isArgs : CrashInHandler(m)

Elect ==
  \/ \E i \in Server : StartElection(i)
  \/ \E m \in rvArgs : RequestVote(m)
  \/ \E r \in rvReplies : VoteReplyNewTerm(r) \/ CountVote(r)

Replicate ==
  \/ \E i \in Server, command \in Command : Start(i, command)
  \/ \E i, j \in Server : SendAppendEntries(i, j)
  \/ \E m \in aeArgs : AppendEntries(m)
  \/ \E r \in aeReplies : LeaderReplyNewTerm(r) \/ AppendSucceeded(r) \/ AppendRefused(r)

Compact ==
  \/ \E i \in Server : ApplierLoop(i) \/ TakeSnapshot(i)
  \/ \E i, j \in Server : SendInstallSnapshot(i, j)
  \/ \E m \in isArgs : InstallSnapshot(m)
  \/ \E r \in isReplies : LeaderReplyNewTerm(r) \/ SnapshotInstalled(r)

Next == Elect \/ Replicate \/ Compact \/ Crash \/ Lose

Spec == Init /\ [][Next]_vars

-----------------------------------------------------------------------------
(* Properties *)

TypeOK ==
  /\ currentTerm \in [Server -> Nat]
  /\ votedFor \in [Server -> Server \cup {Nil}]
  /\ log \in [Server -> Seq(Entry)]
  /\ lastIncludedIndex \in [Server -> Nat]
  /\ lastIncludedTerm \in [Server -> Nat]
  /\ commitIndex \in [Server -> Nat]
  /\ lastApplied \in [Server -> Nat]
  /\ role \in [Server -> Role]
  /\ votes \subseteq Vote
  /\ nextIndex \in [Server -> [Server -> Nat]]
  /\ matchIndex \in [Server -> [Server -> Nat]]
  /\ persister \in [Server -> Saved]
  /\ rvArgs \subseteq RequestVoteArgs
  /\ rvReplies \subseteq RequestVoteReply
  /\ aeArgs \subseteq AppendEntriesArgs
  /\ aeReplies \subseteq AppendEntriesReply
  /\ isArgs \subseteq InstallSnapshotArgs
  /\ isReplies \subseteq InstallSnapshotReply

\* At most one peer acts as the leader of a term, ever: no two peers are leaders
\* of the same term, and the calls only a leader makes never come from two peers in
\* the same term (raft1/test.go checkOneLeader, "term %d has %d (>1) leaders").
ElectionSafety ==
  /\ \A i, j \in Server :
       role[i] = "Leader" /\ role[j] = "Leader" /\ currentTerm[i] = currentTerm[j] => i = j
  /\ \A m, n \in aeArgs \cup isArgs : m.term = n.term => m.from = n.from
  /\ \A m \in aeArgs \cup isArgs, i \in Server :
       role[i] = "Leader" /\ currentTerm[i] = m.term => m.from = i

\* A peer's term never goes back and it never changes its vote within a term, even
\* when it is shut down, inside a handler or between two of them, and restarted:
\* every handler persists both before its reply leaves.
VoteOncePerTerm ==
  [][\A i \in Server :
       /\ currentTerm'[i] >= currentTerm[i]
       /\ currentTerm'[i] = currentTerm[i] /\ votedFor[i] # Nil => votedFor'[i] = votedFor[i]
    ]_vars

\* s and t both reach index k and agree up to it.
AgreeUpTo(s, t, k) == k <= Len(s) /\ k <= Len(t) /\ \A x \in 1..k : s[x] = t[x]

\* Two peers that hold an entry (or a snapshot's last entry) of the same term at the
\* same index hold the same commands up to it.
LogMatching ==
  \A i, j \in Server :
    \A k \in lastIncludedIndex[i]..LastLogIndex(i) :
      k \in lastIncludedIndex[j]..LastLogIndex(j) /\ TermAt(i, k) = TermAt(j, k)
        => AgreeUpTo(Commands(i), Commands(j), k)

\* The terms of a log never fall from one index to the next, start at the snapshot's
\* and end at most at the peer's own: updateCommitIndex stops at the first entry of
\* another term, and the fast backup looks for the last entry of one.
TermsAscend ==
  \A i \in Server :
    /\ LastLogTerm(i) <= currentTerm[i]
    /\ \A k \in lastIncludedIndex[i]+1..LastLogIndex(i) : TermAt(i, k - 1) <= TermAt(i, k)

\* What two peers consider committed agrees, index by index, whether it is still in
\* the log or already in a snapshot (raft1/test.go checkLogs).
StateMachineSafety ==
  \A i, j \in Server :
    commitIndex[i] <= commitIndex[j] =>
      AgreeUpTo(Commands(i), Commands(j), commitIndex[i])

\* A leader holds every command that a peer of its term or an earlier one considers
\* committed: the election restriction of RequestVote and the current-term rule of
\* updateCommitIndex together.
LeaderCompleteness ==
  \A i, j \in Server :
    role[i] = "Leader" /\ currentTerm[j] <= currentTerm[i] =>
      AgreeUpTo(Commands(i), Commands(j), commitIndex[j])

PersistedCommands(i) ==
  persister[i].snapshot \o
    [k \in DOMAIN persister[i].log |-> persister[i].log[k].command]

\* Whatever any peer considers committed is on the disks of a majority, so that no
\* sequence of crashes loses it.
CommittedIsDurable ==
  \A i \in Server :
    IsMajority({j \in Server :
      AgreeUpTo(PersistedCommands(j), Commands(i), commitIndex[i])})

\* Between two critical sections, what is on a peer's disk is what it holds in memory:
\* no handler leaves without persisting what it changed, so a restart forgets nothing
\* that a reply has told another peer.
DiskIsCurrent ==
  \A i \in Server :
    /\ persister[i].currentTerm = currentTerm[i]
    /\ persister[i].votedFor = votedFor[i]
    /\ persister[i].log = log[i]
    /\ persister[i].lastIncludedIndex = lastIncludedIndex[i]
    /\ persister[i].lastIncludedTerm = lastIncludedTerm[i]

\* The indexes stay where the code's slice expressions need them: nothing applied
\* before it is committed, committed before it is in the log, or compacted before it
\* is applied, the snapshot on disk covers what the log dropped, and a leader's
\* nextIndex points into its log or just past it.
IndexesInRange ==
  \A i \in Server :
    /\ lastIncludedIndex[i] <= lastApplied[i]
    /\ lastApplied[i] <= commitIndex[i]
    /\ commitIndex[i] <= LastLogIndex(i)
    /\ Len(persister[i].snapshot) = lastIncludedIndex[i]
    /\ role[i] = "Leader" =>
         \A j \in Server \ {i} :
           /\ nextIndex[i][j] \in 1..LastLogIndex(i) + 1
           /\ matchIndex[i][j] <= LastLogIndex(i)

\* A leader's matchIndex is never ahead of what the follower holds, however late or
\* out of order the replies come: while the follower is in the leader's term, the two
\* agree up to it.
MatchIndexIsSound ==
  \A i, j \in Server :
    role[i] = "Leader" /\ currentTerm[j] = currentTerm[i] /\ i # j =>
      AgreeUpTo(Commands(i), Commands(j), matchIndex[i][j])

\* Fast backup makes progress: whenever a refusal arrives, however late, the leader
\* goes on with an earlier prevLogIndex than the one refused, or with a later one when
\* the follower's snapshot hides it; it never repeats the refused call.
BackupProgress ==
  \A r \in aeReplies :
    role[r.to] = "Leader" /\ currentTerm[r.to] = r.reqTerm /\ r.term = r.reqTerm /\ ~r.success
      => r.prevLogIndex + 1 \notin BackupIndex(r.to, r)

=============================================================================
