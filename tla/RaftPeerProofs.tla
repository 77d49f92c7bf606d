--------------------------- MODULE RaftPeerProofs ---------------------------
(***************************************************************************)
(* What a Raft peer keeps by itself, for every set of peers and of         *)
(* commands: the types, the disk, its term and its vote; that a leader has *)
(* counted a majority; and that the service behind it, whatever order the  *)
(* senders of applyCh are served in, is never ahead of it.                 *)
(***************************************************************************)
EXTENDS RaftInv, RaftApply, TLAPS

-----------------------------------------------------------------------------
(* Types *)

\* LastLogIndex is an index.
LEMMA LastLogIndexType ==
  ASSUME TypeOK, NEW i \in Server
  PROVE  /\ LastLogIndex(i) \in Nat /\ lastIncludedIndex[i] <= LastLogIndex(i)
         /\ Len(log[i]) \in Nat /\ LastLogIndex(i) = lastIncludedIndex[i] + Len(log[i])
  BY DEF TypeOK, LastLogIndex

\* What the service hands to Snapshot is a sequence of commands as long as the index it
\* is taken at: the snapshot on disk covers what the log dropped.
LEMMA TakeSnapshotData ==
  ASSUME DiskInv, NEW i \in Server, NEW index \in Nat, InLog(i, index)
  PROVE  /\ SubSeq(Commands(i), 1, index) \in Seq(Command)
         /\ Len(SubSeq(Commands(i), 1, index)) = index
<1> DEFINE tail == [k \in DOMAIN log[i] |-> log[i][k].command]
<1>1. log[i] \in Seq(Entry) /\ lastIncludedIndex[i] \in Nat
  BY Zenon DEF DiskInv, TypeOK
<1>2. persister[i].snapshot \in Seq(Command) /\ Len(persister[i].snapshot) = lastIncludedIndex[i]
  BY Zenon DEF DiskInv, TypeOK, Saved, SnapshotsCover
<1>3. tail \in Seq(Command) /\ Len(tail) = Len(log[i])
  <2>1. DOMAIN log[i] = 1..Len(log[i]) /\ Len(log[i]) \in Nat
    BY <1>1
  <2>2. \A k \in 1..Len(log[i]) : log[i][k].command \in Command
    <3>1. \A k \in 1..Len(log[i]) : log[i][k] \in Entry
      BY <1>1
    <3>2. QED
      BY Zenon, <3>1 DEF Entry
  <2>3. QED
    BY <2>1, <2>2
<1> HIDE DEF tail
<1>4. /\ persister[i].snapshot \o tail \in Seq(Command)
      /\ Len(persister[i].snapshot \o tail) = lastIncludedIndex[i] + Len(log[i])
  BY <1>1, <1>2, <1>3
<1>5. index <= lastIncludedIndex[i] + Len(log[i])
  BY <1>1 DEF InLog, LastLogIndex
<1>6. Commands(i) = persister[i].snapshot \o tail
  BY Zenon DEF Commands, tail
<1>7. QED
  BY <1>1, <1>4, <1>5, <1>6, SMTT(30)

\* Every handler keeps the types, one step per handler.
LEMMA NextTyped ==
  DiskInv /\ [Next]_vars => TypeOK'
<1>TermAtType. ASSUME TypeOK, NEW i \in Server, NEW k \in Int, InLog(i, k)
      PROVE  TermAt(i, k) \in Nat
  <2> USE <1>TermAtType
  <2>1. CASE k = lastIncludedIndex[i]
    BY Zenon, <2>1 DEF TypeOK, TermAt
  <2>2. CASE k # lastIncludedIndex[i]
    <3>1. k - lastIncludedIndex[i] \in 1..Len(log[i])
      BY <2>2, LastLogIndexType, SMTT(60) DEF TypeOK, InLog
    <3>2. log[i] \in Seq(Entry)
      BY Zenon DEF TypeOK
    <3>3. log[i][k - lastIncludedIndex[i]] \in Entry
      BY <3>1, <3>2
    <3>4. QED
      BY Zenon, <2>2, <3>3 DEF TermAt, Entry
  <2>3. QED
    BY Zenon, <2>1, <2>2
<1>LastLogTermType. ASSUME TypeOK, NEW i \in Server
      PROVE  LastLogTerm(i) \in Nat
  <2> USE <1>LastLogTermType
  <2>1. InLog(i, LastLogIndex(i)) /\ LastLogIndex(i) \in Int
    <3>1. lastIncludedIndex[i] \in Nat
      BY Zenon DEF TypeOK
    <3>2. QED
      BY <3>1, LastLogIndexType DEF InLog
  <2>2. QED
    BY Zenon, <2>1, <1>TermAtType DEF LastLogTerm
<1>SubSeqType. ASSUME NEW S, NEW s \in Seq(S), NEW a \in Int, NEW b \in Int, a >= 1, b <= Len(s)
      PROVE  SubSeq(s, a, b) \in Seq(S)
  BY <1>SubSeqType
<1>EntriesFromType. ASSUME TypeOK, NEW i \in Server, NEW k \in Int, k > lastIncludedIndex[i]
      PROVE  EntriesFrom(i, k) \in Seq(Entry)
  <2> USE <1>EntriesFromType
  <2>1. log[i] \in Seq(Entry) /\ lastIncludedIndex[i] \in Nat
    BY Zenon DEF TypeOK
  <2>2. k - lastIncludedIndex[i] \in Int /\ k - lastIncludedIndex[i] >= 1 /\ Len(log[i]) \in Int
    BY <2>1
  <2>3. QED
    BY <2>1, <2>2, <1>SubSeqType DEF EntriesFrom
<1>MergedType. ASSUME NEW old \in Seq(Entry), NEW entries \in Seq(Entry), NEW base \in Nat,
             NEW kept \in 0..Len(entries), base + kept <= Len(old)
      PROVE  Merged(old, base, kept, entries) \in Seq(Entry)
  <2> USE <1>MergedType
  <2>1. SubSeq(old, 1, base + kept) \in Seq(Entry)
    BY <1>SubSeqType
  <2>2. SubSeq(entries, kept + 1, Len(entries)) \in Seq(Entry)
    BY <1>SubSeqType
  <2>3. QED
    BY <2>1, <2>2 DEF Merged
\* A critical section that ends with Save leaves well-typed state on disk.
<1>SaveType. ASSUME TypeOK, NEW i \in Server, NEW snapshot \in Seq(Command), Save(i, snapshot),
             currentTerm' \in [Server -> Nat], votedFor' \in [Server -> Server \cup {Nil}],
             log' \in [Server -> Seq(Entry)], lastIncludedIndex' \in [Server -> Nat],
             lastIncludedTerm' \in [Server -> Nat]
      PROVE  persister' \in [Server -> Saved]
  BY <1>SaveType, Zenon DEF TypeOK, Save, Saved
<1>PersistType. ASSUME TypeOK, NEW i \in Server, NEW cond, PersistIf(cond, i) \/ Persist(i),
             currentTerm' \in [Server -> Nat], votedFor' \in [Server -> Server \cup {Nil}],
             log' \in [Server -> Seq(Entry)], lastIncludedIndex' \in [Server -> Nat],
             lastIncludedTerm' \in [Server -> Nat]
      PROVE  persister' \in [Server -> Saved]
  <2> USE <1>PersistType
  <2>1. persister[i].snapshot \in Seq(Command) /\ persister \in [Server -> Saved]
    BY Zenon DEF TypeOK, Saved
  <2>2. CASE Persist(i)
    BY Zenon, <2>1, <2>2, <1>SaveType DEF Persist
  <2>3. CASE persister' = persister
    BY Zenon, <2>1, <2>3
  <2>4. QED
    BY Zenon, <2>2, <2>3 DEF PersistIf
<1>StepDownType. ASSUME TypeOK, NEW i \in Server, NEW term \in Nat, StepDown(i, term)
      PROVE  /\ currentTerm' \in [Server -> Nat] /\ votedFor' \in [Server -> Server \cup {Nil}]
             /\ role' \in [Server -> Role] /\ persister' \in [Server -> Saved]
             /\ UNCHANGED <<votes, logVars>>
  <2> USE <1>StepDownType
  <2>1. /\ currentTerm' \in [Server -> Nat] /\ votedFor' \in [Server -> Server \cup {Nil}]
        /\ role' \in [Server -> Role] /\ UNCHANGED <<votes, log, lastIncludedIndex, lastIncludedTerm>>
    BY Zenon DEF TypeOK, StepDown, Role, logVars
  <2>2. Persist(i)
    BY Zenon DEF StepDown
  <2>3. persister' \in [Server -> Saved]
    BY Zenon, <2>1, <2>2, <1>PersistType DEF TypeOK
  <2>4. QED
    BY Zenon, <2>1, <2>3 DEF logVars
<1>FollowLeaderType. ASSUME TypeOK, NEW i \in Server, NEW term \in Nat, FollowLeader(i, term)
      PROVE  /\ currentTerm' \in [Server -> Nat] /\ votedFor' \in [Server -> Server \cup {Nil}]
             /\ role' \in [Server -> Role] /\ UNCHANGED votes
  BY <1>FollowLeaderType, Zenon DEF TypeOK, FollowLeader, Role
<1>StartElectionTyped. ASSUME TypeOK, NEW i \in Server, StartElection(i)
      PROVE  TypeOK'
  <2> USE <1>StartElectionTyped
  <2> DEFINE calls == {[from |-> i, to |-> j, term |-> currentTerm[i] + 1,
                        lastLogIndex |-> LastLogIndex(i), lastLogTerm |-> LastLogTerm(i)]
                       : j \in Server \ {i}}
  <2>1. /\ currentTerm' \in [Server -> Nat] /\ votedFor' \in [Server -> Server \cup {Nil}]
        /\ role' \in [Server -> Role]
        /\ UNCHANGED <<log, lastIncludedIndex, lastIncludedTerm, commitIndex, lastApplied,
                       nextIndex, matchIndex, rvReplies, aeArgs, aeReplies, isArgs, isReplies>>
    BY DEF TypeOK, StartElection, Role, logVars, applyVars, leaderVars, aeNet, isNet
  <2>2. votes' \subseteq Vote
    BY DEF TypeOK, StartElection, Vote
  <2>3. calls \subseteq RequestVoteArgs
    <3>1. LastLogIndex(i) \in Nat /\ LastLogTerm(i) \in Nat
      BY Zenon, LastLogIndexType, <1>LastLogTermType
    <3>2. currentTerm[i] + 1 \in Nat
      BY DEF TypeOK
    <3>3. QED
      BY <3>1, <3>2 DEF RequestVoteArgs
  <2>4. rvArgs' \subseteq RequestVoteArgs
    BY Zenon, <2>3 DEF TypeOK, StartElection
  <2>5. persister' \in [Server -> Saved]
    BY Zenon, <2>1, <1>PersistType DEF TypeOK, StartElection
  <2>6. QED
    BY <2>1, <2>2, <2>4, <2>5, SMTT(30) DEF TypeOK
<1>AnswerVoteType. ASSUME TypeOK, NEW m \in rvArgs, NEW term \in Nat, NEW granted \in BOOLEAN,
             AnswerVote(m, term, granted)
      PROVE  rvArgs' \subseteq RequestVoteArgs /\ rvReplies' \subseteq RequestVoteReply
  <2> USE <1>AnswerVoteType
  <2>1. m \in RequestVoteArgs
    BY Zenon DEF TypeOK
  <2>2. [from |-> m.to, to |-> m.from, reqTerm |-> m.term, term |-> term,
         voteGranted |-> granted] \in RequestVoteReply
    BY Zenon, <2>1 DEF RequestVoteArgs, RequestVoteReply
  <2>3. QED
    BY Zenon, <2>2 DEF TypeOK, AnswerVote
<1>RequestVoteTyped. ASSUME TypeOK, NEW m \in rvArgs, RequestVote(m)
      PROVE  TypeOK'
  <2> USE <1>RequestVoteTyped
  <2>m. m.from \in Server /\ m.to \in Server /\ m.term \in Nat
    BY Zenon DEF TypeOK, RequestVoteArgs
  <2>1. CASE RejectVote(m)
    <3>1. rvArgs' \subseteq RequestVoteArgs /\ rvReplies' \subseteq RequestVoteReply
      BY Zenon, <2>1, <2>m, <1>AnswerVoteType DEF RejectVote, TypeOK
    <3>2. QED
      BY <2>1, <3>1, SMTT(30) DEF RejectVote, TypeOK, electionVars, logVars, applyVars, leaderVars,
                        aeNet, isNet
  <2>2. CASE ConsiderVote(m)
    <3> DEFINE newer == m.term > currentTerm[m.to]
               voted == IF newer THEN Nil ELSE votedFor[m.to]
               grant == GrantsVote(m.to, voted, m)
    <3>1. /\ currentTerm' = [currentTerm EXCEPT ![m.to] = m.term]
          /\ role' = [role EXCEPT ![m.to] = IF newer THEN "Follower" ELSE @]
          /\ votedFor' = [votedFor EXCEPT ![m.to] = IF grant THEN m.from ELSE voted]
          /\ UNCHANGED <<votes, log, lastIncludedIndex, lastIncludedTerm, commitIndex,
                         lastApplied, nextIndex, matchIndex, aeArgs, aeReplies, isArgs, isReplies>>
          /\ AnswerVote(m, m.term, grant) /\ PersistIf(newer \/ grant, m.to)
      BY Zenon, <2>2 DEF ConsiderVote, logVars, applyVars, leaderVars, aeNet, isNet
    <3>2. /\ currentTerm' \in [Server -> Nat] /\ votedFor' \in [Server -> Server \cup {Nil}]
          /\ role' \in [Server -> Role]
      BY Zenon, <2>m, <3>1 DEF TypeOK, Role
    <3>3. grant \in BOOLEAN
      BY Zenon DEF GrantsVote
    <3>4. rvArgs' \subseteq RequestVoteArgs /\ rvReplies' \subseteq RequestVoteReply
      BY Zenon, <2>m, <3>1, <3>3, <1>AnswerVoteType
    <3>5. persister' \in [Server -> Saved]
      BY Zenon, <2>m, <3>1, <3>2, <1>PersistType DEF TypeOK
    <3>6. QED
      BY Zenon, <3>1, <3>2, <3>4, <3>5 DEF TypeOK
  <2>3. QED
    BY Zenon, <2>1, <2>2 DEF RequestVote
<1>VoteReplyTyped. ASSUME TypeOK, NEW r \in rvReplies, VoteReplyNewTerm(r) \/ CountVote(r)
      PROVE  TypeOK'
  <2> USE <1>VoteReplyTyped
  <2>r. r.from \in Server /\ r.to \in Server /\ r.term \in Nat /\ r.reqTerm \in Nat
    BY Zenon DEF TypeOK, RequestVoteReply
  <2>1. CASE VoteReplyNewTerm(r)
    <3>1. StepDown(r.to, r.term)
      BY Zenon, <2>1 DEF VoteReplyNewTerm
    <3>2. QED
      BY Zenon, <2>1, <2>r, <3>1, <1>StepDownType
         DEF VoteReplyNewTerm, TypeOK, logVars, applyVars, leaderVars, aeNet, isNet
  <2>2. CASE CountVote(r)
    <3>1. votes' \subseteq Vote
      <4>1. votes' = votes \cup {[candidate |-> r.to, term |-> r.reqTerm, voter |-> r.from]}
        BY Zenon, <2>2 DEF CountVote
      <4>2. [candidate |-> r.to, term |-> r.reqTerm, voter |-> r.from] \in Vote
        BY Zenon, <2>r DEF Vote
      <4>3. QED
        BY Zenon, <4>1, <4>2 DEF TypeOK
    <3>2. role' \in [Server -> Role]
      BY Zenon, <2>2, <2>r DEF CountVote, TypeOK, Role
    <3>3. nextIndex' \in [Server -> [Server -> Nat]] /\ matchIndex' \in [Server -> [Server -> Nat]]
      <4>1. LastLogIndex(r.to) + 1 \in Nat
        BY <2>r, LastLogIndexType
      <4>2. /\ [j \in Server |-> LastLogIndex(r.to) + 1] \in [Server -> Nat]
            /\ [j \in Server |-> 0] \in [Server -> Nat]
        BY Zenon, <4>1
      <4>3. /\ nextIndex \in [Server -> [Server -> Nat]]
            /\ matchIndex \in [Server -> [Server -> Nat]]
        BY Zenon DEF TypeOK
      <4>4. QED
        BY Zenon, <2>2, <2>r, <4>2, <4>3 DEF CountVote
    <3>4. QED
      BY Zenon, <2>2, <3>1, <3>2, <3>3 DEF CountVote, TypeOK, logVars, applyVars, aeNet, isNet
  <2>3. QED
    BY Zenon, <2>1, <2>2
<1>StartTyped. ASSUME TypeOK, NEW i \in Server, NEW command \in Command, Start(i, command)
      PROVE  TypeOK'
  <2> USE <1>StartTyped
  <2>1. [term |-> currentTerm[i], command |-> command] \in Entry
    BY Zenon DEF TypeOK, Entry
  <2>2. log' \in [Server -> Seq(Entry)]
    BY <2>1 DEF TypeOK, Start
  <2>3. /\ UNCHANGED <<electionVars, lastIncludedIndex, lastIncludedTerm, applyVars,
                       leaderVars, rvNet, aeNet, isNet>>
        /\ Persist(i)
    BY Zenon DEF Start
  <2>4. persister' \in [Server -> Saved]
    BY Zenon, <2>2, <2>3, <1>PersistType DEF TypeOK, electionVars
  <2>5. QED
    BY Zenon, <2>2, <2>3, <2>4 DEF TypeOK, electionVars, applyVars, leaderVars, rvNet, aeNet, isNet
<1>SendTyped. ASSUME TypeOK, NEW i \in Server, NEW j \in Server,
             SendAppendEntries(i, j) \/ SendInstallSnapshot(i, j)
      PROVE  TypeOK'
  <2> USE <1>SendTyped
  <2>1. CASE SendAppendEntries(i, j)
    <3> DEFINE next == nextIndex[i][j]
               m == [from |-> i, to |-> j, term |-> currentTerm[i],
                     prevLogIndex |-> next - 1, prevLogTerm |-> TermAt(i, next - 1),
                     entries |-> EntriesFrom(i, next), leaderCommit |-> commitIndex[i]]
    <3>0. next > lastIncludedIndex[i] /\ InLog(i, next - 1)
      BY Zenon, <2>1 DEF SendAppendEntries
    <3>1. /\ aeArgs' = aeArgs \cup {m}
          /\ UNCHANGED <<electionVars, logVars, applyVars, leaderVars, persister,
                         rvNet, aeReplies, isNet>>
      BY Zenon, <2>1 DEF SendAppendEntries
    <3>2. /\ next \in Nat /\ lastIncludedIndex[i] \in Nat /\ currentTerm[i] \in Nat
          /\ commitIndex[i] \in Nat
      BY Zenon DEF TypeOK
    <3>3. next - 1 \in Nat
      BY <3>0, <3>2
    <3>4. TermAt(i, next - 1) \in Nat /\ EntriesFrom(i, next) \in Seq(Entry)
      BY <3>0, <3>2, <3>3, <1>TermAtType, <1>EntriesFromType
    <3>5. m \in AppendEntriesArgs
      BY Zenon, <3>2, <3>3, <3>4 DEF AppendEntriesArgs
    <3> HIDE DEF m
    <3>6. QED
      BY Zenon, <3>1, <3>5 DEF TypeOK, electionVars, logVars, applyVars, leaderVars, rvNet, isNet
  <2>2. CASE SendInstallSnapshot(i, j)
    <3> DEFINE m == [from |-> i, to |-> j, term |-> currentTerm[i],
                     lastIncludedIndex |-> lastIncludedIndex[i],
                     lastIncludedTerm |-> lastIncludedTerm[i],
                     data |-> persister[i].snapshot]
    <3>1. /\ isArgs' = isArgs \cup {m}
          /\ UNCHANGED <<electionVars, logVars, applyVars, leaderVars, persister,
                         rvNet, aeNet, isReplies>>
      BY Zenon, <2>2 DEF SendInstallSnapshot
    <3>2. m \in InstallSnapshotArgs
      BY Zenon DEF TypeOK, Saved, InstallSnapshotArgs
    <3> HIDE DEF m
    <3>3. QED
      BY Zenon, <3>1, <3>2 DEF TypeOK, electionVars, logVars, applyVars, leaderVars, rvNet, aeNet
  <2>3. QED
    BY Zenon, <2>1, <2>2
<1>AnswerAppendType. ASSUME TypeOK, NEW m \in aeArgs, NEW term \in Nat, NEW success \in BOOLEAN,
             NEW conflictTerm \in Int, NEW conflictIndex \in Nat,
             AnswerAppend(m, term, success, conflictTerm, conflictIndex)
      PROVE  aeReplies' \subseteq AppendEntriesReply
  <2> USE <1>AnswerAppendType
  <2>1. m \in AppendEntriesArgs
    BY Zenon DEF TypeOK
  <2>2. [from |-> m.to, to |-> m.from, reqTerm |-> m.term,
         prevLogIndex |-> m.prevLogIndex, count |-> Len(m.entries), term |-> term,
         success |-> success, conflictTerm |-> conflictTerm,
         conflictIndex |-> conflictIndex] \in AppendEntriesReply
    BY <2>1 DEF AppendEntriesArgs, AppendEntriesReply
  <2>3. QED
    BY Zenon, <2>2 DEF TypeOK, AnswerAppend
<1>AppendEntriesTyped. ASSUME TypeOK, NEW m \in aeArgs, AppendEntries(m)
      PROVE  TypeOK'
  <2> USE <1>AppendEntriesTyped
  <2>m. /\ m.from \in Server /\ m.to \in Server /\ m.term \in Nat /\ m.prevLogIndex \in Nat
        /\ m.leaderCommit \in Nat /\ m.entries \in Seq(Entry) /\ Len(m.entries) \in Nat
    <3>1. m \in AppendEntriesArgs
      BY Zenon DEF TypeOK
    <3>2. QED
      BY <3>1 DEF AppendEntriesArgs
  <2>i. /\ lastIncludedIndex[m.to] \in Nat /\ LastLogIndex(m.to) \in Nat
        /\ lastIncludedIndex[m.to] <= LastLogIndex(m.to)
    <3>1. lastIncludedIndex[m.to] \in Nat
      BY Zenon, <2>m DEF TypeOK
    <3>2. QED
      BY Zenon, <2>m, <3>1, LastLogIndexType
  <2>1. CASE RejectAppend(m)
    <3>1. currentTerm[m.to] \in Nat
      BY Zenon, <2>m DEF TypeOK
    <3>2. aeReplies' \subseteq AppendEntriesReply
      <4>1. AnswerAppend(m, currentTerm[m.to], FALSE, 0, 0)
        BY Zenon, <2>1 DEF RejectAppend
      <4>2. 0 \in Int /\ 0 \in Nat /\ FALSE \in BOOLEAN
        OBVIOUS
      <4>3. QED
        BY Zenon, <3>1, <4>1, <4>2, <1>AnswerAppendType
    <3>3. QED
      BY Zenon, <2>1, <3>2 DEF RejectAppend, TypeOK, electionVars, logVars, applyVars, leaderVars,
                        rvNet, isNet
  <2>2. CASE MissingPrev(m)
    <3> DEFINE first == IF m.prevLogIndex < lastIncludedIndex[m.to]
                        THEN lastIncludedIndex[m.to] ELSE LastLogIndex(m.to)
    <3>1. /\ FollowLeader(m.to, m.term) /\ AnswerAppend(m, m.term, FALSE, -1, first + 1)
          /\ UNCHANGED <<log, lastIncludedIndex, lastIncludedTerm, commitIndex, lastApplied,
                         nextIndex, matchIndex, rvArgs, rvReplies, aeArgs, isArgs, isReplies>>
          /\ PersistIf(m.term > currentTerm[m.to], m.to)
      BY Zenon, <2>2 DEF MissingPrev, logVars, applyVars, leaderVars, rvNet, isNet
    <3>2. first + 1 \in Nat
      BY <2>i
    <3>3. aeReplies' \subseteq AppendEntriesReply
      <4>1. -1 \in Int /\ FALSE \in BOOLEAN
        OBVIOUS
      <4>2. QED
        BY Zenon, <2>m, <3>1, <3>2, <4>1, <1>AnswerAppendType
    <3>4. /\ currentTerm' \in [Server -> Nat] /\ votedFor' \in [Server -> Server \cup {Nil}]
          /\ role' \in [Server -> Role] /\ UNCHANGED votes
      BY Zenon, <2>m, <3>1, <1>FollowLeaderType
    <3>5. persister' \in [Server -> Saved]
      BY Zenon, <2>m, <3>1, <3>4, <1>PersistType DEF TypeOK
    <3>6. QED
      BY Zenon, <3>1, <3>3, <3>4, <3>5 DEF TypeOK
  <2>3. CASE ConflictingPrev(m)
    <3>1. /\ FollowLeader(m.to, m.term) /\ InLog(m.to, m.prevLogIndex)
          /\ UNCHANGED <<log, lastIncludedIndex, lastIncludedTerm, commitIndex, lastApplied,
                         nextIndex, matchIndex, rvArgs, rvReplies, aeArgs, isArgs, isReplies>>
          /\ PersistIf(m.term > currentTerm[m.to], m.to)
      BY Zenon, <2>3 DEF ConflictingPrev, logVars, applyVars, leaderVars, rvNet, isNet
    <3>2. PICK first \in lastIncludedIndex[m.to]..m.prevLogIndex :
            AnswerAppend(m, m.term, FALSE, TermAt(m.to, m.prevLogIndex), first)
      BY Zenon, <2>3 DEF ConflictingPrev
    <3>3. TermAt(m.to, m.prevLogIndex) \in Int /\ first \in Nat
      BY <2>m, <2>i, <3>1, <3>2, <1>TermAtType
    <3>4. aeReplies' \subseteq AppendEntriesReply
      BY Zenon, <2>m, <3>2, <3>3, <1>AnswerAppendType
    <3>5. /\ currentTerm' \in [Server -> Nat] /\ votedFor' \in [Server -> Server \cup {Nil}]
          /\ role' \in [Server -> Role] /\ UNCHANGED votes
      BY Zenon, <2>m, <3>1, <1>FollowLeaderType
    <3>6. persister' \in [Server -> Saved]
      BY Zenon, <2>m, <3>1, <3>5, <1>PersistType DEF TypeOK
    <3>7. QED
      BY <3>1, <3>4, <3>5, <3>6, SMTT(30) DEF TypeOK
  <2>4. CASE AcceptAppend(m)
    <3> DEFINE base == m.prevLogIndex - lastIncludedIndex[m.to]
               n == Len(m.entries)
               agrees(k) == /\ base + k <= Len(log[m.to])
                            /\ log[m.to][base + k].term = m.entries[k].term
    <3>0. InLog(m.to, m.prevLogIndex)
      BY Zenon, <2>4 DEF AcceptAppend
    <3>1. /\ FollowLeader(m.to, m.term) /\ AnswerAppend(m, m.term, TRUE, 0, 0)
          /\ UNCHANGED <<lastIncludedIndex, lastIncludedTerm, lastApplied, nextIndex,
                         matchIndex, rvArgs, rvReplies, aeArgs, isArgs, isReplies>>
      BY Zenon, <2>4 DEF AcceptAppend, leaderVars, rvNet, isNet
    <3>2. PICK kept \in 0..n :
            /\ \A k \in 1..kept : agrees(k)
            /\ log' = [log EXCEPT ![m.to] = Merged(@, base, kept, m.entries)]
            /\ PersistIf(m.term > currentTerm[m.to] \/ kept < n, m.to)
      BY Zenon, <2>4 DEF AcceptAppend
    <3>3. log[m.to] \in Seq(Entry) /\ log \in [Server -> Seq(Entry)]
      BY Zenon, <2>m DEF TypeOK
    <3>4. base \in Nat /\ base <= Len(log[m.to])
      BY SMTT(30), <2>m, <2>i, <3>0, <3>3, LastLogIndexType DEF InLog
    <3>5. base + kept <= Len(log[m.to])
      <4>1. CASE kept = 0
        BY <3>3, <3>4, <4>1
      <4>2. CASE kept # 0
        BY <2>m, <3>2, <4>2
      <4>3. QED
        BY Zenon, <4>1, <4>2
    <3>6. log' \in [Server -> Seq(Entry)]
      <4>1. Merged(log[m.to], base, kept, m.entries) \in Seq(Entry)
        BY Zenon, <2>m, <3>3, <3>4, <3>5, <1>MergedType
      <4>2. QED
        BY Zenon, <2>m, <3>2, <3>3, <4>1
    <3>7. commitIndex' \in [Server -> Nat]
      <4>1. PICK c \in Nat :
              commitIndex' = [commitIndex EXCEPT ![m.to] = IF c > @ THEN c ELSE @]
        <5>1. m.prevLogIndex + Len(m.entries) \in Nat
          BY <2>m
        <5>2. QED
          BY Zenon, <2>4, <2>m, <5>1 DEF AcceptAppend
      <4>2. commitIndex \in [Server -> Nat]
        BY Zenon DEF TypeOK
      <4>3. QED
        BY <2>m, <4>1, <4>2, SMTT(30)
    <3>8. aeReplies' \subseteq AppendEntriesReply
      <4>1. 0 \in Int /\ 0 \in Nat /\ TRUE \in BOOLEAN
        OBVIOUS
      <4>2. QED
        BY Zenon, <2>m, <3>1, <4>1, <1>AnswerAppendType
    <3>9. /\ currentTerm' \in [Server -> Nat] /\ votedFor' \in [Server -> Server \cup {Nil}]
          /\ role' \in [Server -> Role] /\ UNCHANGED votes
      BY Zenon, <2>m, <3>1, <1>FollowLeaderType
    <3>10. persister' \in [Server -> Saved]
      BY Zenon, <2>m, <3>1, <3>2, <3>6, <3>9, <1>PersistType DEF TypeOK
    <3>11. QED
      BY Zenon, <3>1, <3>6, <3>7, <3>8, <3>9, <3>10 DEF TypeOK
  <2>5. QED
    BY Zenon, <2>1, <2>2, <2>3, <2>4 DEF AppendEntries
<1>LeaderReplyNewTermTyped. ASSUME TypeOK, NEW r \in aeReplies \cup isReplies, LeaderReplyNewTerm(r)
      PROVE  TypeOK'
  <2> USE <1>LeaderReplyNewTermTyped
  <2>1. r.to \in Server /\ r.term \in Nat
    BY Zenon DEF TypeOK, AppendEntriesReply, InstallSnapshotReply
  <2>2. /\ StepDown(r.to, r.term)
        /\ UNCHANGED <<applyVars, leaderVars, rvNet, aeNet, isNet>>
    BY Zenon DEF LeaderReplyNewTerm
  <2>3. QED
    BY Zenon, <2>1, <2>2, <1>StepDownType DEF TypeOK, logVars, applyVars, leaderVars, rvNet, aeNet, isNet
<1>UpdateCommitIndexType. ASSUME TypeOK, NEW i \in Server, UpdateCommitIndex(i)
      PROVE  commitIndex' \in [Server -> Nat]
  <2> USE <1>UpdateCommitIndexType
  <2>1. commitIndex \in [Server -> Nat] /\ LastLogIndex(i) \in Nat
    BY LastLogIndexType, SMTT(30) DEF TypeOK
  <2>2. CASE UNCHANGED commitIndex
    BY Zenon, <2>1, <2>2
  <2>3. CASE \E N \in commitIndex[i] + 1 .. LastLogIndex(i) :
               commitIndex' = [commitIndex EXCEPT ![i] = N]
    BY <2>1, <2>3
  <2>4. QED
    BY Zenon, <2>2, <2>3 DEF UpdateCommitIndex
<1>AppendReplyTyped. ASSUME TypeOK, NEW r \in aeReplies, AppendSucceeded(r) \/ AppendRefused(r)
      PROVE  TypeOK'
  <2> USE <1>AppendReplyTyped
  <2>r. /\ r.from \in Server /\ r.to \in Server /\ r.prevLogIndex \in Nat /\ r.count \in Nat
        /\ r.conflictIndex \in Nat
    <3>1. r \in AppendEntriesReply
      BY Zenon DEF TypeOK
    <3>2. QED
      BY Zenon, <3>1 DEF AppendEntriesReply
  <2>l. nextIndex \in [Server -> [Server -> Nat]] /\ matchIndex \in [Server -> [Server -> Nat]]
    BY Zenon DEF TypeOK
  <2>1. CASE AppendSucceeded(r)
    <3>1. /\ matchIndex' = [matchIndex EXCEPT ![r.to][r.from] = r.prevLogIndex + r.count]
          /\ nextIndex' = [nextIndex EXCEPT ![r.to][r.from] = r.prevLogIndex + r.count + 1]
          /\ UpdateCommitIndex(r.to)
          /\ UNCHANGED <<electionVars, logVars, lastApplied, persister, rvNet, aeNet, isNet>>
      BY Zenon, <2>1 DEF AppendSucceeded, Matched
    <3>2. nextIndex' \in [Server -> [Server -> Nat]] /\ matchIndex' \in [Server -> [Server -> Nat]]
      BY <2>r, <2>l, <3>1
    <3>3. commitIndex' \in [Server -> Nat]
      BY Zenon, <2>r, <3>1, <1>UpdateCommitIndexType
    <3>4. QED
      BY Zenon, <3>1, <3>2, <3>3 DEF TypeOK, electionVars, logVars, rvNet, aeNet, isNet
  <2>2. CASE AppendRefused(r)
    <3>1. BackupIndex(r.to, r) \subseteq Nat
      <4>1. lastIncludedIndex[r.to] \in Nat /\ log[r.to] \in Seq(Entry)
        BY Zenon, <2>r DEF TypeOK
      <4>2. DOMAIN log[r.to] \subseteq Nat
        BY <4>1
      <4>3. QED
        BY SMTT(30), <2>r, <4>1, <4>2 DEF BackupIndex
    <3>2. PICK next \in BackupIndex(r.to, r) :
            nextIndex' = [nextIndex EXCEPT ![r.to][r.from] = next]
      BY Zenon, <2>2 DEF AppendRefused
    <3>3. nextIndex' \in [Server -> [Server -> Nat]]
      BY Zenon, <2>r, <2>l, <3>1, <3>2
    <3>4. UNCHANGED <<electionVars, logVars, applyVars, matchIndex, persister,
                      rvNet, aeNet, isNet>>
      BY Zenon, <2>2 DEF AppendRefused
    <3>5. QED
      BY Zenon, <3>3, <3>4 DEF TypeOK, electionVars, logVars, applyVars, rvNet, aeNet, isNet
  <2>3. QED
    BY Zenon, <2>1, <2>2
<1>AdvanceToType. ASSUME TypeOK, NEW i \in Server, NEW index \in Nat, AdvanceTo(i, index)
      PROVE  commitIndex' \in [Server -> Nat] /\ lastApplied' \in [Server -> Nat]
  BY <1>AdvanceToType, Zenon DEF TypeOK, AdvanceTo
<1>SnapshotTyped. ASSUME TypeOK, NEW i \in Server, NEW index \in Nat, NEW data \in Seq(Command),
             Snapshot(i, index, data)
      PROVE  TypeOK'
  <2> USE <1>SnapshotTyped
  <2>1. /\ index > lastIncludedIndex[i] /\ InLog(i, index)
        /\ lastIncludedTerm' = [lastIncludedTerm EXCEPT ![i] = TermAt(i, index)]
        /\ log' = [log EXCEPT ![i] = EntriesFrom(i, index + 1)]
        /\ lastIncludedIndex' = [lastIncludedIndex EXCEPT ![i] = index]
        /\ AdvanceTo(i, index)
        /\ UNCHANGED <<currentTerm, votedFor, role, votes, nextIndex, matchIndex,
                       rvArgs, rvReplies, aeArgs, aeReplies, isArgs, isReplies>>
        /\ Save(i, data)
    BY Zenon DEF Snapshot, electionVars, leaderVars, rvNet, aeNet, isNet
  <2>2. TermAt(i, index) \in Nat
    BY <2>1, <1>TermAtType
  <2>3. EntriesFrom(i, index + 1) \in Seq(Entry)
    <3>1. index + 1 \in Int /\ index + 1 > lastIncludedIndex[i]
      BY <2>1 DEF TypeOK
    <3>2. QED
      BY Zenon, <3>1, <1>EntriesFromType
  <2>4. /\ log' \in [Server -> Seq(Entry)] /\ lastIncludedIndex' \in [Server -> Nat]
        /\ lastIncludedTerm' \in [Server -> Nat]
    BY Zenon, <2>1, <2>2, <2>3 DEF TypeOK
  <2>5. commitIndex' \in [Server -> Nat] /\ lastApplied' \in [Server -> Nat]
    BY Zenon, <2>1, <1>AdvanceToType
  <2>6. persister' \in [Server -> Saved]
    BY Zenon, <2>1, <2>4, <1>SaveType DEF TypeOK
  <2>7. QED
    BY Zenon, <2>1, <2>4, <2>5, <2>6 DEF TypeOK
<1>InstallSnapshotTyped. ASSUME TypeOK, NEW m \in isArgs, InstallSnapshot(m)
      PROVE  TypeOK'
  <2> USE <1>InstallSnapshotTyped
  <2>m. /\ m.from \in Server /\ m.to \in Server /\ m.term \in Nat
        /\ m.lastIncludedIndex \in Nat /\ m.lastIncludedTerm \in Nat /\ m.data \in Seq(Command)
    <3>1. m \in InstallSnapshotArgs
      BY Zenon DEF TypeOK
    <3>2. QED
      BY Zenon, <3>1 DEF InstallSnapshotArgs
  <2>a. AnswerSnapshot(m) => isReplies' \subseteq InstallSnapshotReply
    <3>1. [from |-> m.to, to |-> m.from, reqTerm |-> m.term,
           lastIncludedIndex |-> m.lastIncludedIndex, term |-> currentTerm[m.to]]
             \in InstallSnapshotReply
      BY Zenon, <2>m DEF TypeOK, InstallSnapshotReply
    <3>2. QED
      BY Zenon, <3>1 DEF TypeOK, AnswerSnapshot
  <2>1. CASE RejectSnapshot(m)
    BY Zenon, <2>1, <2>a DEF RejectSnapshot, TypeOK, electionVars, logVars, applyVars, leaderVars,
                      rvNet, aeNet
  <2>2. CASE IgnoreSnapshot(m)
    <3>1. /\ FollowLeader(m.to, m.term) /\ AnswerSnapshot(m)
          /\ UNCHANGED <<log, lastIncludedIndex, lastIncludedTerm, commitIndex, lastApplied,
                         nextIndex, matchIndex, rvArgs, rvReplies, aeArgs, aeReplies, isArgs>>
          /\ PersistIf(m.term > currentTerm[m.to], m.to)
      BY Zenon, <2>2 DEF IgnoreSnapshot, logVars, applyVars, leaderVars, rvNet, aeNet
    <3>2. /\ currentTerm' \in [Server -> Nat] /\ votedFor' \in [Server -> Server \cup {Nil}]
          /\ role' \in [Server -> Role] /\ UNCHANGED votes
      BY Zenon, <2>m, <3>1, <1>FollowLeaderType
    <3>3. persister' \in [Server -> Saved]
      BY Zenon, <2>m, <3>1, <3>2, <1>PersistType DEF TypeOK
    <3>4. QED
      BY Zenon, <2>a, <3>1, <3>2, <3>3 DEF TypeOK
  <2>3. CASE AcceptSnapshot(m)
    <3> DEFINE index == m.lastIncludedIndex
               rest == IF HoldsEntry(m.to, index, m.lastIncludedTerm)
                       THEN EntriesFrom(m.to, index + 1) ELSE <<>>
    <3>1. /\ FollowLeader(m.to, m.term) /\ index > lastIncludedIndex[m.to]
          /\ log' = [log EXCEPT ![m.to] = rest]
          /\ lastIncludedIndex' = [lastIncludedIndex EXCEPT ![m.to] = index]
          /\ lastIncludedTerm' = [lastIncludedTerm EXCEPT ![m.to] = m.lastIncludedTerm]
          /\ AdvanceTo(m.to, index) /\ AnswerSnapshot(m) /\ Save(m.to, m.data)
          /\ UNCHANGED <<nextIndex, matchIndex, rvArgs, rvReplies, aeArgs, aeReplies, isArgs>>
      BY Zenon, <2>3 DEF AcceptSnapshot, leaderVars, rvNet, aeNet
    <3>2. rest \in Seq(Entry)
      <4>0. lastIncludedIndex[m.to] \in Nat
        BY Zenon, <2>m DEF TypeOK
      <4>1. index + 1 \in Int /\ index + 1 > lastIncludedIndex[m.to]
        BY <2>m, <3>1, <4>0
      <4>2. EntriesFrom(m.to, index + 1) \in Seq(Entry)
        BY Zenon, <2>m, <4>1, <1>EntriesFromType
      <4>3. QED
        BY <4>2
    <3>3. /\ log' \in [Server -> Seq(Entry)] /\ lastIncludedIndex' \in [Server -> Nat]
          /\ lastIncludedTerm' \in [Server -> Nat]
      <4> HIDE DEF rest
      <4>1. /\ log \in [Server -> Seq(Entry)] /\ lastIncludedIndex \in [Server -> Nat]
            /\ lastIncludedTerm \in [Server -> Nat]
        BY Zenon DEF TypeOK
      <4>2. log' \in [Server -> Seq(Entry)]
        BY Zenon, <2>m, <3>1, <3>2, <4>1
      <4>3. QED
        BY <2>m, <3>1, <4>1, <4>2, SMTT(30)
    <3>4. /\ currentTerm' \in [Server -> Nat] /\ votedFor' \in [Server -> Server \cup {Nil}]
          /\ role' \in [Server -> Role] /\ UNCHANGED votes
      BY Zenon, <2>m, <3>1, <1>FollowLeaderType
    <3>5. commitIndex' \in [Server -> Nat] /\ lastApplied' \in [Server -> Nat]
      BY Zenon, <2>m, <3>1, <1>AdvanceToType
    <3>6. persister' \in [Server -> Saved]
      BY Zenon, <2>m, <3>1, <3>3, <3>4, <1>SaveType
    <3>7. QED
      BY Zenon, <2>a, <3>1, <3>3, <3>4, <3>5, <3>6 DEF TypeOK
  <2>4. QED
    BY Zenon, <2>1, <2>2, <2>3 DEF InstallSnapshot
<1>SnapshotInstalledTyped. ASSUME TypeOK, NEW r \in isReplies, SnapshotInstalled(r)
      PROVE  TypeOK'
  <2> USE <1>SnapshotInstalledTyped
  <2>1. r.from \in Server /\ r.to \in Server /\ r.lastIncludedIndex \in Nat
    BY Zenon DEF TypeOK, InstallSnapshotReply
  <2>2. nextIndex \in [Server -> [Server -> Nat]] /\ matchIndex \in [Server -> [Server -> Nat]]
    BY Zenon DEF TypeOK
  <2>3. PICK match \in Nat :
          /\ matchIndex' = [matchIndex EXCEPT ![r.to][r.from] = match]
          /\ nextIndex' = [nextIndex EXCEPT ![r.to][r.from] = match + 1]
    BY ZenonT(40), <2>1, <2>2 DEF SnapshotInstalled
  <2>4. nextIndex' \in [Server -> [Server -> Nat]] /\ matchIndex' \in [Server -> [Server -> Nat]]
    BY <2>1, <2>2, <2>3
  <2>5. UNCHANGED <<electionVars, logVars, applyVars, persister, rvNet, aeNet, isNet>>
    BY Zenon DEF SnapshotInstalled
  <2>6. QED
    BY Zenon, <2>4, <2>5 DEF TypeOK, electionVars, logVars, applyVars, rvNet, aeNet, isNet
<1>ApplierLoopTyped. ASSUME TypeOK, NEW i \in Server, ApplierLoop(i)
      PROVE  TypeOK'
  BY <1>ApplierLoopTyped, Zenon DEF TypeOK, ApplierLoop, electionVars, logVars, leaderVars, rvNet, aeNet, isNet
<1>MakeTyped. ASSUME TypeOK, NEW i \in Server, NEW saved \in Saved, Make(i, saved),
             persister' = [persister EXCEPT ![i] = saved],
             UNCHANGED <<votes, rvReplies, aeNet, isNet>>, rvArgs' \subseteq rvArgs
      PROVE  TypeOK'
  <2> USE <1>MakeTyped
  <2>1. /\ saved.currentTerm \in Nat /\ saved.votedFor \in Server \cup {Nil}
        /\ saved.log \in Seq(Entry) /\ saved.lastIncludedIndex \in Nat
        /\ saved.lastIncludedTerm \in Nat
    BY Zenon DEF Saved
  <2>2. /\ currentTerm' \in [Server -> Nat] /\ votedFor' \in [Server -> Server \cup {Nil}]
        /\ log' \in [Server -> Seq(Entry)] /\ lastIncludedIndex' \in [Server -> Nat]
        /\ lastIncludedTerm' \in [Server -> Nat]
    BY Zenon, <2>1 DEF TypeOK, Make
  <2>3. commitIndex' \in [Server -> Nat] /\ lastApplied' \in [Server -> Nat]
    BY Zenon, <2>1 DEF TypeOK, Make
  <2>4. role' \in [Server -> Role]
    BY Zenon DEF TypeOK, Make, Role
  <2>5. nextIndex' \in [Server -> [Server -> Nat]] /\ matchIndex' \in [Server -> [Server -> Nat]]
    BY Zenon DEF TypeOK, Make
  <2>6. persister' \in [Server -> Saved]
    BY Zenon DEF TypeOK
  <2>7. QED
    BY Zenon, <2>2, <2>3, <2>4, <2>5, <2>6 DEF TypeOK, aeNet, isNet
<1>CrashTyped. ASSUME TypeOK, Crash
      PROVE  TypeOK'
  <2> USE <1>CrashTyped
  <2>1. CASE \E i \in Server : Restart(i)
    <3>1. PICK i \in Server : Restart(i)
      BY Zenon, <2>1
    <3>2. persister[i] \in Saved /\ persister' = [persister EXCEPT ![i] = persister[i]]
      BY Zenon, <3>1 DEF TypeOK, Restart
    <3>3. QED
      BY Zenon, <3>1, <3>2, <1>MakeTyped DEF Restart, rvNet
  <2>2. CASE \E m \in rvArgs \cup aeArgs \cup isArgs : CrashInHandler(m)
    <3>1. PICK m \in rvArgs \cup aeArgs \cup isArgs : CrashInHandler(m)
      BY Zenon, <2>2
    <3>2. m.to \in Server /\ m.term \in Nat
      BY Zenon DEF TypeOK, RequestVoteArgs, AppendEntriesArgs, InstallSnapshotArgs
    <3> DEFINE saved == [persister[m.to] EXCEPT !.currentTerm = m.term, !.votedFor = Nil]
    <3>3. saved \in Saved
      <4>1. persister[m.to] \in Saved
        BY Zenon, <3>2 DEF TypeOK
      <4>2. QED
        BY <3>2, <4>1, ZenonT(60) DEF Saved
    <3>4. /\ Make(m.to, saved) /\ persister' = [persister EXCEPT ![m.to] = saved]
          /\ rvArgs' \subseteq rvArgs /\ UNCHANGED <<votes, rvReplies, aeNet, isNet>>
      BY Zenon, <3>1 DEF CrashInHandler
    <3> HIDE DEF saved
    <3>5. QED
      BY Zenon, <3>2, <3>3, <3>4, <1>MakeTyped
  <2>3. QED
    BY Zenon, <2>1, <2>2 DEF Crash
<1>LoseTyped. ASSUME TypeOK, Lose
      PROVE  TypeOK'
  <2> USE <1>LoseTyped
  <2>1. /\ rvArgs' \subseteq rvArgs /\ rvReplies' \subseteq rvReplies
        /\ aeArgs' \subseteq aeArgs /\ aeReplies' \subseteq aeReplies
        /\ isArgs' \subseteq isArgs /\ isReplies' \subseteq isReplies
    BY Zenon DEF Lose, rvNet, aeNet, isNet
  <2>2. QED
    BY Zenon, <2>1 DEF Lose, TypeOK, electionVars, logVars, applyVars, leaderVars
<1> SUFFICES ASSUME DiskInv, [Next]_vars PROVE TypeOK'
  BY Zenon
<1> USE DEF DiskInv
<1>1. CASE Elect
  BY Zenon, <1>1, <1>StartElectionTyped, <1>RequestVoteTyped, <1>VoteReplyTyped DEF Elect
<1>2. CASE Replicate
  BY Zenon, <1>2, <1>StartTyped, <1>SendTyped, <1>AppendEntriesTyped, <1>LeaderReplyNewTermTyped,
     <1>AppendReplyTyped DEF Replicate
<1>3. CASE Compact
  <2>1. ASSUME NEW i \in Server, TakeSnapshot(i) PROVE TypeOK'
    <3>1. PICK index \in 1..lastApplied[i] : Snapshot(i, index, SubSeq(Commands(i), 1, index))
      BY Zenon, <2>1 DEF TakeSnapshot
    <3>2. index \in Nat /\ InLog(i, index)
      BY <3>1 DEF Snapshot, TypeOK
    <3>3. SubSeq(Commands(i), 1, index) \in Seq(Command)
      BY Zenon, <3>2, TakeSnapshotData
    <3>4. QED
      BY Zenon, <3>1, <3>2, <3>3, <1>SnapshotTyped
  <2>2. QED
    BY Zenon, <1>3, <2>1, <1>ApplierLoopTyped, <1>SendTyped, <1>InstallSnapshotTyped,
       <1>LeaderReplyNewTermTyped, <1>SnapshotInstalledTyped DEF Compact
<1>4. CASE Crash
  BY Zenon, <1>4, <1>CrashTyped
<1>5. CASE Lose
  BY Zenon, <1>5, <1>LoseTyped
<1>6. CASE UNCHANGED vars
  BY Zenon, <1>6 DEF TypeOK, vars, electionVars, logVars, applyVars, leaderVars, rvNet, aeNet, isNet
<1>7. QED
  BY Zenon, <1>1, <1>2, <1>3, <1>4, <1>5, <1>6 DEF Next

-----------------------------------------------------------------------------
(***************************************************************************)
(* The disk.  TypeOK alone is not inductive: that TakeSnapshot hands a     *)
(* sequence of commands to Snapshot depends on the snapshot on disk being  *)
(* as long as the prefix the log has dropped.  And that a restart changes  *)
(* neither term nor vote depends on DiskIsCurrent.                         *)
(***************************************************************************)

\* What DiskIsCurrent says of one peer.
Current(i) ==
  /\ persister[i].currentTerm = currentTerm[i] /\ persister[i].votedFor = votedFor[i]
  /\ persister[i].log = log[i] /\ persister[i].lastIncludedIndex = lastIncludedIndex[i]
  /\ persister[i].lastIncludedTerm = lastIncludedTerm[i]

\* What a critical section of peer i leaves alone: the saved state of the others.
OthersKeep(i) ==
  \A j \in Server \ {i} :
    /\ currentTerm'[j] = currentTerm[j] /\ votedFor'[j] = votedFor[j] /\ log'[j] = log[j]
    /\ lastIncludedIndex'[j] = lastIncludedIndex[j]
    /\ lastIncludedTerm'[j] = lastIncludedTerm[j]

\* Every handler leaves the disk current and the snapshots as long as their indexes say.
LEMMA NextDisk ==
  DiskInv /\ [Next]_vars => DiskInv'
<1>DiskAfterSave. ASSUME DiskInv, NEW i \in Server, NEW snapshot, Save(i, snapshot), OthersKeep(i)
      PROVE  /\ DiskIsCurrent'
             /\ \A j \in Server \ {i} : persister'[j] = persister[j]
             /\ persister'[i].snapshot = snapshot
  <2> USE <1>DiskAfterSave
  <2>1. persister \in [Server -> Saved]
    BY Zenon DEF DiskInv, TypeOK
  <2>2. /\ \A j \in Server \ {i} : persister'[j] = persister[j]
        /\ persister'[i] = [currentTerm |-> currentTerm'[i], votedFor |-> votedFor'[i],
                            log |-> log'[i], lastIncludedIndex |-> lastIncludedIndex'[i],
                            lastIncludedTerm |-> lastIncludedTerm'[i], snapshot |-> snapshot]
    BY Zenon, <2>1 DEF Save
  <2>3. ASSUME NEW j \in Server \ {i} PROVE Current(j)'
    <3>1. Current(j)
      BY Zenon DEF DiskInv, DiskIsCurrent, Current
    <3>2. QED
      BY Zenon, <2>2, <3>1 DEF Current, OthersKeep
  <2>4. Current(i)'
    BY <2>2 DEF Current
  <2>5. QED
    BY <2>2, <2>3, <2>4 DEF DiskIsCurrent, Current
\* Every section that ends with persist(), or changes nothing that is persisted.
<1>DiskAfterPersist. ASSUME DiskInv, NEW i \in Server, OthersKeep(i), isArgs' = isArgs,
             lastIncludedIndex' = lastIncludedIndex,
             \/ Persist(i)
             \/ UNCHANGED <<currentTerm, votedFor, logVars, persister>>
      PROVE  DiskIsCurrent' /\ SnapshotsCover'
  <2> USE <1>DiskAfterPersist
  <2>1. CASE Persist(i)
    <3>1. /\ DiskIsCurrent' /\ \A j \in Server \ {i} : persister'[j] = persister[j]
          /\ persister'[i].snapshot = persister[i].snapshot
      BY Zenon, <2>1, <1>DiskAfterSave DEF Persist
    <3>2. QED
      BY Zenon, <3>1 DEF DiskInv, SnapshotsCover
  <2>2. CASE UNCHANGED <<currentTerm, votedFor, logVars, persister>>
    BY Zenon, <2>2 DEF DiskInv, DiskIsCurrent, SnapshotsCover, logVars
  <2>3. QED
    BY Zenon, <2>1, <2>2
\* A request from a leader: persisted when its term is new, else nothing is changed.
<1>FollowLeaderDisk. ASSUME TypeOK, NEW i \in Server, NEW term \in Nat, FollowLeader(i, term)
      PROVE  /\ \A j \in Server \ {i} :
                  currentTerm'[j] = currentTerm[j] /\ votedFor'[j] = votedFor[j]
             /\ ~(term > currentTerm[i]) => UNCHANGED <<currentTerm, votedFor>>
  <2> USE <1>FollowLeaderDisk
  <2>1. currentTerm \in [Server -> Nat] /\ votedFor \in [Server -> Server \cup {Nil}]
    BY Zenon DEF TypeOK
  <2>2. QED
    BY <2>1 DEF FollowLeader
<1>ElectDisk. ASSUME DiskInv, Elect
      PROVE  DiskIsCurrent' /\ SnapshotsCover'
  <2> USE <1>ElectDisk
  <2> USE DEF DiskInv
  <2>t. currentTerm \in [Server -> Nat] /\ votedFor \in [Server -> Server \cup {Nil}]
    BY Zenon DEF TypeOK
  <2>1. ASSUME NEW i \in Server, StartElection(i)
        PROVE  DiskIsCurrent' /\ SnapshotsCover'
    <3>1. OthersKeep(i) /\ Persist(i) /\ UNCHANGED <<isArgs, lastIncludedIndex>>
      BY Zenon, <2>1, <2>t DEF StartElection, OthersKeep, logVars, isNet
    <3>2. QED
      BY Zenon, <3>1, <1>DiskAfterPersist
  <2>2. ASSUME NEW m \in rvArgs, RequestVote(m)
        PROVE  DiskIsCurrent' /\ SnapshotsCover'
    <3>m. m.to \in Server /\ m.term \in Nat
      BY Zenon DEF TypeOK, RequestVoteArgs
    <3>1. CASE RejectVote(m)
      BY Zenon, <3>1 DEF RejectVote, electionVars, logVars, isNet, DiskIsCurrent, SnapshotsCover
    <3>2. CASE ConsiderVote(m)
      <4>1. OthersKeep(m.to) /\ UNCHANGED <<isArgs, lastIncludedIndex>>
        BY Zenon, <3>2, <2>t DEF ConsiderVote, OthersKeep, logVars, isNet
      <4>2. Persist(m.to) \/ UNCHANGED <<currentTerm, votedFor, logVars, persister>>
        BY <3>2, <3>m, <2>t DEF ConsiderVote, PersistIf
      <4>3. QED
        BY Zenon, <3>m, <4>1, <4>2, <1>DiskAfterPersist
    <3>3. QED
      BY Zenon, <2>2, <3>1, <3>2 DEF RequestVote
  <2>3. ASSUME NEW r \in rvReplies, VoteReplyNewTerm(r)
        PROVE  DiskIsCurrent' /\ SnapshotsCover'
    <3>1. r.to \in Server
      BY Zenon DEF TypeOK, RequestVoteReply
    <3>2. OthersKeep(r.to) /\ Persist(r.to) /\ UNCHANGED <<isArgs, lastIncludedIndex>>
      BY Zenon, <2>3, <2>t DEF VoteReplyNewTerm, StepDown, OthersKeep, logVars, isNet
    <3>3. QED
      BY Zenon, <3>1, <3>2, <1>DiskAfterPersist
  <2>4. ASSUME NEW r \in rvReplies, CountVote(r)
        PROVE  DiskIsCurrent' /\ SnapshotsCover'
    BY Zenon, <2>4 DEF CountVote, logVars, isNet, DiskIsCurrent, SnapshotsCover
  <2>5. QED
    BY Zenon, <2>1, <2>2, <2>3, <2>4 DEF Elect
<1>LeaderReplyNewTermDisk. ASSUME DiskInv, NEW r \in aeReplies \cup isReplies, LeaderReplyNewTerm(r)
      PROVE  DiskIsCurrent' /\ SnapshotsCover'
  <2> USE <1>LeaderReplyNewTermDisk
  <2>1. r.to \in Server
    BY Zenon DEF DiskInv, TypeOK, AppendEntriesReply, InstallSnapshotReply
  <2>2. OthersKeep(r.to) /\ Persist(r.to) /\ UNCHANGED <<isArgs, lastIncludedIndex>>
    BY Zenon DEF DiskInv, TypeOK, LeaderReplyNewTerm, StepDown, OthersKeep, logVars, isNet
  <2>3. QED
    BY Zenon, <2>1, <2>2, <1>DiskAfterPersist
<1>ReplicateDisk. ASSUME DiskInv, Replicate
      PROVE  DiskIsCurrent' /\ SnapshotsCover'
  <2> USE <1>ReplicateDisk
  <2> USE DEF DiskInv
  <2>1. ASSUME NEW i \in Server, NEW command \in Command, Start(i, command)
        PROVE  DiskIsCurrent' /\ SnapshotsCover'
    <3>1. OthersKeep(i) /\ Persist(i) /\ UNCHANGED <<isArgs, lastIncludedIndex>>
      BY Zenon, <2>1 DEF TypeOK, Start, OthersKeep, electionVars, isNet
    <3>2. QED
      BY Zenon, <3>1, <1>DiskAfterPersist
  <2>2. ASSUME NEW i \in Server, NEW j \in Server, SendAppendEntries(i, j)
        PROVE  DiskIsCurrent' /\ SnapshotsCover'
    BY Zenon, <2>2 DEF SendAppendEntries, electionVars, logVars, isNet, DiskIsCurrent, SnapshotsCover
  <2>3. ASSUME NEW m \in aeArgs, AppendEntries(m)
        PROVE  DiskIsCurrent' /\ SnapshotsCover'
    <3>m. m.to \in Server /\ m.term \in Nat
      BY Zenon DEF TypeOK, AppendEntriesArgs
    <3>1. CASE RejectAppend(m)
      BY Zenon, <3>1 DEF RejectAppend, electionVars, logVars, isNet, DiskIsCurrent, SnapshotsCover
    <3>2. CASE MissingPrev(m) \/ ConflictingPrev(m)
      <4>1. /\ FollowLeader(m.to, m.term) /\ PersistIf(m.term > currentTerm[m.to], m.to)
            /\ UNCHANGED <<logVars, isArgs>>
        BY Zenon, <3>2 DEF MissingPrev, ConflictingPrev, isNet
      <4>2. /\ OthersKeep(m.to) /\ UNCHANGED lastIncludedIndex
            /\ Persist(m.to) \/ UNCHANGED <<currentTerm, votedFor, logVars, persister>>
        BY Zenon, <3>m, <4>1, <1>FollowLeaderDisk DEF OthersKeep, PersistIf, logVars
      <4>3. QED
        BY Zenon, <3>m, <4>1, <4>2, <1>DiskAfterPersist
    <3>3. CASE AcceptAppend(m)
      <4>1. FollowLeader(m.to, m.term) /\ UNCHANGED <<lastIncludedIndex, lastIncludedTerm, isArgs>>
        BY Zenon, <3>3 DEF AcceptAppend, isNet
      <4>2. PICK kept \in 0..Len(m.entries) :
              /\ log' = [log EXCEPT ![m.to] =
                   Merged(@, m.prevLogIndex - lastIncludedIndex[m.to], kept, m.entries)]
              /\ PersistIf(m.term > currentTerm[m.to] \/ kept < Len(m.entries), m.to)
        BY Zenon, <3>3 DEF AcceptAppend
      <4>3. log \in [Server -> Seq(Entry)] /\ m.entries \in Seq(Entry)
        BY Zenon DEF TypeOK, AppendEntriesArgs
      <4>4. kept = Len(m.entries) => UNCHANGED log
        BY Zenon, <3>m, <4>2, <4>3 DEF Merged
      <4>5. /\ OthersKeep(m.to)
            /\ Persist(m.to) \/ UNCHANGED <<currentTerm, votedFor, logVars, persister>>
        <5>1. OthersKeep(m.to)
          BY Zenon, <3>m, <4>1, <4>2, <4>3, <1>FollowLeaderDisk DEF OthersKeep
        <5>2. CASE m.term > currentTerm[m.to] \/ kept < Len(m.entries)
          BY Zenon, <4>2, <5>1, <5>2 DEF PersistIf
        <5>3. CASE ~(m.term > currentTerm[m.to] \/ kept < Len(m.entries))
          <6>1. kept = Len(m.entries)
            BY <4>2, <4>3, <5>3
          <6>2. QED
            BY Zenon, <3>m, <4>1, <4>2, <4>4, <5>1, <5>3, <6>1, <1>FollowLeaderDisk DEF PersistIf, logVars
        <5>4. QED
          BY Zenon, <5>2, <5>3
      <4>6. QED
        BY Zenon, <3>m, <4>1, <4>5, <1>DiskAfterPersist
    <3>4. QED
      BY Zenon, <2>3, <3>1, <3>2, <3>3 DEF AppendEntries
  <2>4. ASSUME NEW r \in aeReplies, AppendSucceeded(r) \/ AppendRefused(r)
        PROVE  DiskIsCurrent' /\ SnapshotsCover'
    BY <2>4 DEF AppendSucceeded, AppendRefused, electionVars, logVars, isNet, DiskIsCurrent,
                SnapshotsCover
  <2>5. QED
    BY Zenon, <2>1, <2>2, <2>3, <2>4, <1>LeaderReplyNewTermDisk DEF Replicate
<1>CompactDisk. ASSUME DiskInv, Compact
      PROVE  DiskIsCurrent' /\ SnapshotsCover'
  <2> USE <1>CompactDisk
  <2> USE DEF DiskInv
  <2>1. ASSUME NEW i \in Server, ApplierLoop(i)
        PROVE  DiskIsCurrent' /\ SnapshotsCover'
    BY Zenon, <2>1 DEF ApplierLoop, electionVars, logVars, isNet, DiskIsCurrent, SnapshotsCover
  <2>2. ASSUME NEW i \in Server, TakeSnapshot(i)
        PROVE  DiskIsCurrent' /\ SnapshotsCover'
    <3>1. PICK index \in 1..lastApplied[i] : Snapshot(i, index, SubSeq(Commands(i), 1, index))
      BY Zenon, <2>2 DEF TakeSnapshot
    <3> DEFINE data == SubSeq(Commands(i), 1, index)
    <3>2. index \in Nat /\ InLog(i, index)
      BY <3>1 DEF Snapshot, TypeOK
    <3>3. Len(data) = index
      BY Zenon, <3>2, TakeSnapshotData
    <3> HIDE DEF data
    <3>4. OthersKeep(i) /\ Save(i, data) /\ UNCHANGED isArgs
      BY Zenon, <3>1 DEF TypeOK, Snapshot, OthersKeep, electionVars, isNet, data
    <3>5. lastIncludedIndex' = [lastIncludedIndex EXCEPT ![i] = index]
      BY Zenon, <3>1 DEF Snapshot
    <3>6. lastIncludedIndex'[i] = index /\ \A j \in Server \ {i} : lastIncludedIndex'[j] = lastIncludedIndex[j]
      BY Zenon, <3>5 DEF TypeOK
    <3>7. /\ DiskIsCurrent' /\ \A j \in Server \ {i} : persister'[j] = persister[j]
          /\ persister'[i].snapshot = data
      BY Zenon, <3>4, <1>DiskAfterSave
    <3>8. SnapshotsCover'
      BY Zenon, <3>3, <3>4, <3>6, <3>7 DEF SnapshotsCover
    <3>9. QED
      BY Zenon, <3>7, <3>8
  <2>3. ASSUME NEW i \in Server, NEW j \in Server, SendInstallSnapshot(i, j)
        PROVE  DiskIsCurrent' /\ SnapshotsCover'
    <3>1. DiskIsCurrent'
      BY Zenon, <2>3 DEF SendInstallSnapshot, electionVars, logVars, DiskIsCurrent
    <3>2. Len(persister[i].snapshot) = lastIncludedIndex[i]
      BY SMTT(30) DEF SnapshotsCover
    <3>3. persister' = persister /\ lastIncludedIndex' = lastIncludedIndex
      BY Zenon, <2>3 DEF SendInstallSnapshot, logVars
    <3>4. \A m \in isArgs' :
            \/ m \in isArgs
            \/ m.data = persister[i].snapshot /\ m.lastIncludedIndex = lastIncludedIndex[i]
      BY <2>3 DEF SendInstallSnapshot
    <3>5. SnapshotsCover'
      BY Zenon, <3>2, <3>3, <3>4 DEF SnapshotsCover
    <3>6. QED
      BY Zenon, <3>1, <3>5
  <2>4. ASSUME NEW m \in isArgs, InstallSnapshot(m)
        PROVE  DiskIsCurrent' /\ SnapshotsCover'
    <3>m. m.to \in Server /\ m.term \in Nat
      BY Zenon DEF TypeOK, InstallSnapshotArgs
    <3>1. CASE RejectSnapshot(m)
      BY Zenon, <3>1 DEF RejectSnapshot, electionVars, logVars, DiskIsCurrent, SnapshotsCover
    <3>2. CASE IgnoreSnapshot(m)
      <4>1. /\ FollowLeader(m.to, m.term) /\ PersistIf(m.term > currentTerm[m.to], m.to)
            /\ UNCHANGED <<logVars, isArgs>>
        BY Zenon, <3>2 DEF IgnoreSnapshot
      <4>2. /\ OthersKeep(m.to) /\ UNCHANGED lastIncludedIndex
            /\ Persist(m.to) \/ UNCHANGED <<currentTerm, votedFor, logVars, persister>>
        BY Zenon, <3>m, <4>1, <1>FollowLeaderDisk DEF OthersKeep, PersistIf, logVars
      <4>3. QED
        BY Zenon, <3>m, <4>1, <4>2, <1>DiskAfterPersist
    <3>3. CASE AcceptSnapshot(m)
      <4>1. /\ FollowLeader(m.to, m.term) /\ Save(m.to, m.data) /\ UNCHANGED isArgs
            /\ lastIncludedIndex' = [lastIncludedIndex EXCEPT ![m.to] = m.lastIncludedIndex]
            /\ lastIncludedTerm' = [lastIncludedTerm EXCEPT ![m.to] = m.lastIncludedTerm]
        BY Zenon, <3>3 DEF AcceptSnapshot
      <4>2. \A j \in Server \ {m.to} : log'[j] = log[j]
        BY Zenon, <3>3 DEF AcceptSnapshot, TypeOK
      <4>3. /\ lastIncludedIndex'[m.to] = m.lastIncludedIndex
            /\ \A j \in Server \ {m.to} : lastIncludedIndex'[j] = lastIncludedIndex[j]
            /\ \A j \in Server \ {m.to} : lastIncludedTerm'[j] = lastIncludedTerm[j]
        BY Zenon, <3>m, <4>1 DEF TypeOK
      <4>4. OthersKeep(m.to)
        BY Zenon, <3>m, <4>1, <4>2, <4>3, <1>FollowLeaderDisk DEF OthersKeep
      <4>5. /\ DiskIsCurrent' /\ \A j \in Server \ {m.to} : persister'[j] = persister[j]
            /\ persister'[m.to].snapshot = m.data
        BY Zenon, <3>m, <4>1, <4>4, <1>DiskAfterSave
      <4>6. SnapshotsCover'
        BY <4>1, <4>3, <4>5 DEF SnapshotsCover
      <4>7. QED
        BY Zenon, <4>5, <4>6
    <3>4. QED
      BY Zenon, <2>4, <3>1, <3>2, <3>3 DEF InstallSnapshot
  <2>5. ASSUME NEW r \in isReplies, SnapshotInstalled(r)
        PROVE  DiskIsCurrent' /\ SnapshotsCover'
    BY Zenon, <2>5 DEF SnapshotInstalled, electionVars, logVars, isNet, DiskIsCurrent, SnapshotsCover
  <2>6. QED
    BY Zenon, <2>1, <2>2, <2>3, <2>4, <2>5, <1>LeaderReplyNewTermDisk DEF Compact
<1>CrashDisk. ASSUME DiskInv, Crash
      PROVE  DiskIsCurrent' /\ SnapshotsCover'
  <2> USE <1>CrashDisk
  <2> USE DEF DiskInv
  <2>1. ASSUME NEW i \in Server, NEW saved \in Saved, Make(i, saved),
               persister' = [persister EXCEPT ![i] = saved], UNCHANGED isArgs,
               saved.lastIncludedIndex = lastIncludedIndex[i],
               saved.snapshot = persister[i].snapshot
        PROVE  DiskIsCurrent' /\ SnapshotsCover'
    <3>1. /\ persister'[i] = saved /\ \A j \in Server \ {i} : persister'[j] = persister[j]
      BY Zenon, <2>1 DEF TypeOK
    <3>2. /\ \A j \in Server \ {i} :
               /\ currentTerm'[j] = currentTerm[j] /\ votedFor'[j] = votedFor[j]
               /\ log'[j] = log[j] /\ lastIncludedIndex'[j] = lastIncludedIndex[j]
               /\ lastIncludedTerm'[j] = lastIncludedTerm[j]
          /\ currentTerm'[i] = saved.currentTerm /\ votedFor'[i] = saved.votedFor
          /\ log'[i] = saved.log /\ lastIncludedIndex'[i] = saved.lastIncludedIndex
          /\ lastIncludedTerm'[i] = saved.lastIncludedTerm
      BY <2>1, SMTT(30) DEF Make, TypeOK
    <3>3. DiskIsCurrent'
      <4>1. ASSUME NEW j \in Server \ {i} PROVE Current(j)'
        <5>1. Current(j)
          BY Zenon DEF DiskIsCurrent, Current
        <5>2. QED
          BY Zenon, <3>1, <3>2, <5>1 DEF Current
      <4>2. Current(i)'
        BY Zenon, <3>1, <3>2 DEF Current
      <4>3. QED
        BY Zenon, <4>1, <4>2 DEF DiskIsCurrent, Current
    <3>4. SnapshotsCover'
      <4>1. ASSUME NEW j \in Server \ {i}
            PROVE  Len(persister'[j].snapshot) = lastIncludedIndex'[j]
        BY Zenon, <3>1, <3>2 DEF SnapshotsCover
      <4>2. Len(persister[i].snapshot) = lastIncludedIndex[i]
        BY Zenon DEF SnapshotsCover
      <4>3. Len(persister'[i].snapshot) = lastIncludedIndex'[i] /\ isArgs' = isArgs
        BY Zenon, <2>1, <3>1, <3>2, <4>2
      <4>4. QED
        BY Zenon, <4>1, <4>3 DEF SnapshotsCover
    <3>5. QED
      BY Zenon, <3>3, <3>4
  <2>2. CASE \E i \in Server : Restart(i)
    <3>1. PICK i \in Server : Restart(i)
      BY Zenon, <2>2
    <3>2. /\ persister[i] \in Saved /\ persister' = [persister EXCEPT ![i] = persister[i]]
          /\ Make(i, persister[i]) /\ UNCHANGED isArgs
      BY Zenon, <3>1 DEF TypeOK, Restart, isNet
    <3>3. persister[i].lastIncludedIndex = lastIncludedIndex[i]
      BY Zenon DEF DiskIsCurrent
    <3>4. QED
      BY Zenon, <2>1, <3>2, <3>3
  <2>3. CASE \E m \in rvArgs \cup aeArgs \cup isArgs : CrashInHandler(m)
    <3>1. PICK m \in rvArgs \cup aeArgs \cup isArgs : CrashInHandler(m)
      BY Zenon, <2>3
    <3>2. m.to \in Server /\ m.term \in Nat
      BY Zenon DEF TypeOK, RequestVoteArgs, AppendEntriesArgs, InstallSnapshotArgs
    <3> DEFINE saved == [persister[m.to] EXCEPT !.currentTerm = m.term, !.votedFor = Nil]
    <3>3. /\ saved \in Saved /\ saved.lastIncludedIndex = persister[m.to].lastIncludedIndex
          /\ saved.snapshot = persister[m.to].snapshot
      <4>1. persister[m.to] \in Saved
        BY Zenon, <3>2 DEF TypeOK
      <4>2. QED
        BY Zenon, <3>2, <4>1 DEF Saved
    <3>4. /\ Make(m.to, saved) /\ persister' = [persister EXCEPT ![m.to] = saved]
          /\ UNCHANGED isArgs
      BY Zenon, <3>1 DEF CrashInHandler, isNet
    <3> HIDE DEF saved
    <3>5. persister[m.to].lastIncludedIndex = lastIncludedIndex[m.to]
      BY Zenon, <3>2 DEF DiskIsCurrent
    <3>6. QED
      BY Zenon, <2>1, <3>2, <3>3, <3>4, <3>5
  <2>4. QED
    BY Zenon, <2>2, <2>3 DEF Crash
<1>LoseDisk. ASSUME DiskInv, Lose
      PROVE  DiskIsCurrent' /\ SnapshotsCover'
  <2> USE <1>LoseDisk
  <2>1. isArgs' \subseteq isArgs
    BY Zenon DEF Lose, isNet
  <2>2. QED
    BY Zenon, <2>1 DEF DiskInv, Lose, electionVars, logVars, DiskIsCurrent, SnapshotsCover
<1> SUFFICES ASSUME DiskInv, [Next]_vars PROVE DiskInv'
  BY Zenon
<1>1. DiskIsCurrent' /\ SnapshotsCover'
  <2>1. CASE UNCHANGED vars
    BY Zenon, <2>1 DEF DiskInv, vars, electionVars, logVars, isNet, DiskIsCurrent, SnapshotsCover
  <2>2. QED
    BY Zenon, <2>1, <1>ElectDisk, <1>ReplicateDisk, <1>CompactDisk, <1>CrashDisk, <1>LoseDisk DEF Next
<1>2. QED
  BY Zenon, <1>1, NextTyped DEF DiskInv

\* A peer starts with nothing on disk and nothing in memory.
LEMMA InitDisk ==
  ASSUME Init
  PROVE  DiskInv
<1>1. [j \in Server |-> 0] \in [Server -> Nat]
  BY Zenon
<1>2. <<>> \in Seq(Entry) /\ <<>> \in Seq(Command) /\ Len(<<>>) = 0
  OBVIOUS
<1>3. TypeOK
  BY Zenon, <1>1, <1>2 DEF Init, TypeOK, Role, Saved
<1>4. DiskIsCurrent /\ SnapshotsCover
  BY <1>2 DEF Init, DiskIsCurrent, SnapshotsCover
<1>5. QED
  BY Zenon, <1>3, <1>4 DEF DiskInv

\* The variables of every peer and every message keep their types, in every behaviour
\* of raft.go over the lossy network.
THEOREM TypeCorrect == Spec => []TypeOK
<1>1. Init => DiskInv
  BY Zenon, InitDisk
<1>2. DiskInv /\ [Next]_vars => DiskInv'
  BY Zenon, NextDisk
<1>3. DiskInv => TypeOK
  BY Zenon DEF DiskInv
<1>4. QED
  BY <1>1, <1>2, <1>3, PTL DEF Spec

\* Between two critical sections a peer's disk holds what its memory holds: every
\* handler persists what it changed before its reply leaves.
THEOREM DiskCurrent == Spec => []DiskIsCurrent
<1>1. Init => DiskInv
  BY Zenon, InitDisk
<1>2. DiskInv /\ [Next]_vars => DiskInv'
  BY Zenon, NextDisk
<1>3. DiskInv => DiskIsCurrent
  BY Zenon DEF DiskInv
<1>4. QED
  BY <1>1, <1>2, <1>3, PTL DEF Spec

-----------------------------------------------------------------------------
(***************************************************************************)
(* Elections.  A vote is granted when the voter answers, and stays granted *)
(* while the answer travels and after the candidate has counted it.  The   *)
(* invariant says that a voter remembers its last vote, that no voter      *)
(* grants two votes in a term, and that whoever leads, or calls as leader, *)
(* has counted a majority for that term.                                   *)
(***************************************************************************)

\* What the invariant needs to know about a step.
KeepsVote(i) ==
  /\ currentTerm'[i] >= currentTerm[i]
  /\ currentTerm'[i] = currentTerm[i] /\ votedFor[i] # Nil => votedFor'[i] = votedFor[i]

\* A vote that the step grants is the one the voter then remembers.
GrantsAreNew ==
  \A v, c \in Server, t \in Nat :
    Granted(v, t, c)' => Granted(v, t, c) \/ (currentTerm'[v] = t /\ votedFor'[v] = c)

\* Who leads after the step led the same term before, or has counted a majority.
LeadersStayOrWin ==
  \A i \in Server :
    role'[i] = "Leader" =>
      \/ role[i] = "Leader" /\ currentTerm'[i] = currentTerm[i]
      \/ IsMajority(Tally(i, currentTerm[i])')

\* A call that the step makes is made by the leader of its term.
CallsAreFromLeaders ==
  \A m \in aeArgs' \cup isArgs' :
    \/ m \in aeArgs \cup isArgs
    \/ m.from \in Server /\ role[m.from] = "Leader" /\ m.term = currentTerm[m.from]

\* What every step does to terms, votes and leaders.
ElectionStep ==
  /\ \A i \in Server : KeepsVote(i)
  /\ votes \subseteq votes'
  /\ GrantsAreNew
  /\ LeadersStayOrWin
  /\ CallsAreFromLeaders

\* Every handler keeps terms and votes, grants no second vote, and leads or calls only
\* after a majority.
LEMMA NextElectoral ==
  DiskInv /\ [Next]_vars => ElectionStep
\* One peer adopts a term and a vote.
<1>OneVoter. ASSUME TypeOK, NEW i \in Server, NEW t \in Nat, NEW w,
             currentTerm' = [currentTerm EXCEPT ![i] = t],
             votedFor' = [votedFor EXCEPT ![i] = w],
             t >= currentTerm[i], t = currentTerm[i] /\ votedFor[i] # Nil => w = votedFor[i]
      PROVE  \A j \in Server : KeepsVote(j)
  <2> USE <1>OneVoter
  <2> SUFFICES ASSUME NEW j \in Server
               PROVE  KeepsVote(j)
    BY Zenon
  <2>1. currentTerm[i] \in Nat /\ currentTerm[j] \in Nat
    BY Zenon DEF TypeOK
  <2>2. CASE j = i
    <3>1. currentTerm'[j] = t /\ votedFor'[j] = w
      BY Zenon, <2>2 DEF TypeOK
    <3>2. QED
      BY Zenon, <2>1, <2>2, <3>1 DEF KeepsVote
  <2>3. CASE j # i
    <3>1. currentTerm'[j] = currentTerm[j] /\ votedFor'[j] = votedFor[j]
      BY Zenon, <2>3 DEF TypeOK
    <3>2. QED
      BY <2>1, <3>1 DEF KeepsVote
  <2>4. QED
    BY Zenon, <2>2, <2>3
\* A step that grants no vote, and in which the peers only keep or lose leadership.
<1>QuietStep. ASSUME votes' = votes, rvReplies' \subseteq rvReplies,
             \A i \in Server : KeepsVote(i),
             \A i \in Server : role'[i] = "Leader" =>
               role[i] = "Leader" /\ currentTerm'[i] = currentTerm[i],
             CallsAreFromLeaders
      PROVE  ElectionStep
  <2> USE <1>QuietStep
  <2>1. GrantsAreNew
    BY Zenon DEF GrantsAreNew, Granted
  <2>2. LeadersStayOrWin
    BY Zenon DEF LeadersStayOrWin
  <2>3. QED
    BY Zenon, <2>1, <2>2 DEF ElectionStep
<1>NothingElectoral. ASSUME TypeOK, UNCHANGED electionVars, rvReplies' \subseteq rvReplies, CallsAreFromLeaders
      PROVE  ElectionStep
  <2> USE <1>NothingElectoral
  <2>1. \A i \in Server : KeepsVote(i)
    BY DEF TypeOK, electionVars, KeepsVote
  <2>2. QED
    BY Zenon, <2>1, <1>QuietStep DEF electionVars
<1>StepDownElectoral. ASSUME TypeOK, NEW i \in Server, NEW term \in Nat, term > currentTerm[i],
             StepDown(i, term), rvReplies' \subseteq rvReplies, UNCHANGED <<aeArgs, isArgs>>
      PROVE  ElectionStep
  <2> USE <1>StepDownElectoral
  <2>1. \A j \in Server : KeepsVote(j)
    <3>1. /\ currentTerm' = [currentTerm EXCEPT ![i] = term]
          /\ votedFor' = [votedFor EXCEPT ![i] = Nil]
      BY Zenon DEF StepDown
    <3>2. term >= currentTerm[i] /\ term # currentTerm[i]
      BY DEF TypeOK
    <3>3. QED
      BY Zenon, <3>1, <3>2, <1>OneVoter
  <2>2. \A j \in Server : role'[j] = "Leader" =>
          role[j] = "Leader" /\ currentTerm'[j] = currentTerm[j]
    BY Zenon DEF TypeOK, StepDown
  <2>3. CallsAreFromLeaders
    BY Zenon DEF CallsAreFromLeaders
  <2>4. QED
    BY Zenon, <2>1, <2>2, <2>3, <1>QuietStep DEF StepDown
<1>FollowLeaderElectoral. ASSUME TypeOK, NEW i \in Server, NEW term \in Nat, FollowLeader(i, term),
             UNCHANGED <<rvReplies, aeArgs, isArgs>>
      PROVE  ElectionStep
  <2> USE <1>FollowLeaderElectoral
  <2>1. \A j \in Server : KeepsVote(j)
    <3> DEFINE w == IF term > currentTerm[i] THEN Nil ELSE votedFor[i]
    <3>1. /\ currentTerm' = [currentTerm EXCEPT ![i] = term]
          /\ votedFor' = [votedFor EXCEPT ![i] = w]
          /\ term >= currentTerm[i]
      BY Zenon DEF FollowLeader
    <3>2. term = currentTerm[i] => w = votedFor[i]
      BY DEF TypeOK
    <3> HIDE DEF w
    <3>3. QED
      BY Zenon, <3>1, <3>2, <1>OneVoter
  <2>2. \A j \in Server : role'[j] = "Leader" =>
          role[j] = "Leader" /\ currentTerm'[j] = currentTerm[j]
    <3> SUFFICES ASSUME NEW j \in Server, role'[j] = "Leader"
                 PROVE  role[j] = "Leader" /\ currentTerm'[j] = currentTerm[j]
      BY Zenon
    <3>1. CASE j = i
      <4>1. /\ role'[i] = IF term > currentTerm[i] \/ role[i] = "Candidate" THEN "Follower" ELSE role[i]
            /\ currentTerm'[i] = term /\ term >= currentTerm[i] /\ currentTerm[i] \in Nat
        BY Zenon DEF FollowLeader, TypeOK
      <4>2. QED
        BY <3>1, <4>1
    <3>2. CASE j # i
      BY Zenon, <3>2 DEF FollowLeader, TypeOK
    <3>3. QED
      BY Zenon, <3>1, <3>2
  <2>3. CallsAreFromLeaders
    BY Zenon DEF CallsAreFromLeaders
  <2>4. QED
    BY Zenon, <2>1, <2>2, <2>3, <1>QuietStep DEF FollowLeader
<1>StartElectionElectoral. ASSUME TypeOK, NEW i \in Server, StartElection(i)
      PROVE  ElectionStep
  <2> USE <1>StartElectionElectoral
  <2> DEFINE own == [candidate |-> i, term |-> currentTerm[i] + 1, voter |-> i]
  <2>1. /\ role' = [role EXCEPT ![i] = "Candidate"]
        /\ currentTerm' = [currentTerm EXCEPT ![i] = @ + 1]
        /\ votedFor' = [votedFor EXCEPT ![i] = i]
        /\ votes' = votes \cup {own}
        /\ UNCHANGED <<rvReplies, aeArgs, isArgs>>
    BY Zenon DEF StartElection, aeNet, isNet
  <2>2. \A j \in Server : KeepsVote(j)
    <3>1. currentTerm[i] \in Nat /\ currentTerm[i] + 1 \in Nat
      BY DEF TypeOK
    <3>2. currentTerm[i] + 1 >= currentTerm[i] /\ currentTerm[i] + 1 # currentTerm[i]
      BY <3>1
    <3>3. currentTerm' = [currentTerm EXCEPT ![i] = currentTerm[i] + 1]
      BY Zenon, <2>1
    <3>4. QED
      BY Zenon, <2>1, <3>1, <3>2, <3>3, <1>OneVoter
  <2>3. GrantsAreNew
    <3> SUFFICES ASSUME NEW v \in Server, NEW c \in Server, NEW t \in Nat,
                        Granted(v, t, c)', ~Granted(v, t, c)
                 PROVE  currentTerm'[v] = t /\ votedFor'[v] = c
      BY Zenon DEF GrantsAreNew
    <3>1. [candidate |-> c, term |-> t, voter |-> v] = own
      BY Zenon, <2>1 DEF Granted
    <3>2. c = i /\ v = i /\ t = currentTerm[i] + 1
      BY Zenon, <3>1
    <3>3. QED
      BY Zenon, <2>1, <3>2 DEF TypeOK
  <2>4. LeadersStayOrWin
    BY Zenon, <2>1 DEF TypeOK, LeadersStayOrWin
  <2>5. CallsAreFromLeaders
    BY Zenon, <2>1 DEF CallsAreFromLeaders
  <2>6. QED
    BY Zenon, <2>1, <2>2, <2>3, <2>4, <2>5 DEF ElectionStep
<1>RequestVoteElectoral. ASSUME TypeOK, NEW m \in rvArgs, RequestVote(m)
      PROVE  ElectionStep
  <2> USE <1>RequestVoteElectoral
  <2>m. m.from \in Server /\ m.to \in Server /\ m.term \in Nat
    BY Zenon DEF TypeOK, RequestVoteArgs
  <2>1. CASE RejectVote(m)
    <3>1. UNCHANGED <<electionVars, aeArgs, isArgs>>
      BY Zenon, <2>1 DEF RejectVote, aeNet, isNet
    <3>2. \A i \in Server : KeepsVote(i)
      BY <3>1 DEF TypeOK, electionVars, KeepsVote
    <3>3. GrantsAreNew
      BY <2>1, <3>1 DEF RejectVote, AnswerVote, GrantsAreNew, Granted, electionVars
    <3>4. LeadersStayOrWin /\ CallsAreFromLeaders
      BY Zenon, <3>1 DEF LeadersStayOrWin, CallsAreFromLeaders, electionVars
    <3>5. QED
      BY Zenon, <3>1, <3>2, <3>3, <3>4 DEF ElectionStep, electionVars
  <2>2. CASE ConsiderVote(m)
    <3> DEFINE newer == m.term > currentTerm[m.to]
               voted == IF newer THEN Nil ELSE votedFor[m.to]
               grant == GrantsVote(m.to, voted, m)
               reply == [from |-> m.to, to |-> m.from, reqTerm |-> m.term, term |-> m.term,
                         voteGranted |-> grant]
    <3>1. /\ m.term >= currentTerm[m.to]
          /\ currentTerm' = [currentTerm EXCEPT ![m.to] = m.term]
          /\ role' = [role EXCEPT ![m.to] = IF newer THEN "Follower" ELSE @]
          /\ votedFor' = [votedFor EXCEPT ![m.to] = IF grant THEN m.from ELSE voted]
          /\ UNCHANGED <<votes, aeArgs, isArgs>>
          /\ rvReplies' = rvReplies \cup {reply}
      BY Zenon, <2>2 DEF ConsiderVote, AnswerVote, aeNet, isNet
    <3>2. grant => voted \in {Nil, m.from}
      BY Zenon DEF GrantsVote
    <3> HIDE DEF grant
    <3>3. \A i \in Server : KeepsVote(i)
      <4> DEFINE w == IF grant THEN m.from ELSE voted
      <4>1. m.term = currentTerm[m.to] /\ votedFor[m.to] # Nil => w = votedFor[m.to]
        <5>1. m.term = currentTerm[m.to] => ~newer
          BY <2>m
        <5>2. m.term = currentTerm[m.to] => voted = votedFor[m.to]
          BY Zenon, <5>1
        <5> HIDE DEF voted, newer
        <5>3. QED
          BY Zenon, <3>2, <5>2
      <4>2. votedFor' = [votedFor EXCEPT ![m.to] = w]
        BY Zenon, <3>1
      <4> HIDE DEF w
      <4>3. QED
        BY Zenon, <2>m, <3>1, <4>1, <4>2, <1>OneVoter
    <3>4. GrantsAreNew
      <4> SUFFICES ASSUME NEW v \in Server, NEW c \in Server, NEW t \in Nat,
                          Granted(v, t, c)', ~Granted(v, t, c)
                   PROVE  currentTerm'[v] = t /\ votedFor'[v] = c
        BY Zenon DEF GrantsAreNew
      <4>1. grant /\ v = m.to /\ t = m.term /\ c = m.from
        BY <3>1 DEF Granted
      <4>2. QED
        BY Zenon, <2>m, <3>1, <4>1 DEF TypeOK
    <3>5. LeadersStayOrWin
      <4> SUFFICES ASSUME NEW i \in Server, role'[i] = "Leader"
                   PROVE  role[i] = "Leader" /\ currentTerm'[i] = currentTerm[i]
        BY Zenon DEF LeadersStayOrWin
      <4>1. CASE i = m.to
        <5>1. /\ role'[i] = IF newer THEN "Follower" ELSE role[i]
              /\ currentTerm'[i] = m.term /\ currentTerm[i] \in Nat
          BY Zenon, <2>m, <3>1, <4>1 DEF TypeOK
        <5>2. QED
          BY <2>m, <3>1, <4>1, <5>1
      <4>2. CASE i # m.to
        BY Zenon, <2>m, <3>1, <4>2 DEF TypeOK
      <4>3. QED
        BY Zenon, <4>1, <4>2
    <3>6. CallsAreFromLeaders
      BY Zenon, <3>1 DEF CallsAreFromLeaders
    <3>7. QED
      BY Zenon, <3>1, <3>3, <3>4, <3>5, <3>6 DEF ElectionStep
  <2>3. QED
    BY Zenon, <2>1, <2>2 DEF RequestVote
<1>CountVoteElectoral. ASSUME TypeOK, NEW r \in rvReplies, CountVote(r)
      PROVE  ElectionStep
  <2> USE <1>CountVoteElectoral
  <2> DEFINE counted == [candidate |-> r.to, term |-> r.reqTerm, voter |-> r.from]
             won == IsMajority(Tally(r.to, r.reqTerm) \cup {r.from})
  <2>r. r.from \in Server /\ r.to \in Server /\ r.reqTerm \in Nat
    BY Zenon DEF TypeOK, RequestVoteReply
  <2>1. /\ currentTerm[r.to] = r.reqTerm /\ r.voteGranted
        /\ votes' = votes \cup {counted}
        /\ role' = [role EXCEPT ![r.to] = IF won THEN "Leader" ELSE @]
        /\ rvReplies' = rvReplies \ {r}
        /\ UNCHANGED <<currentTerm, votedFor, aeArgs, isArgs>>
    BY Zenon DEF CountVote, aeNet, isNet
  <2>2. \A i \in Server : KeepsVote(i)
    BY <2>1 DEF TypeOK, KeepsVote
  <2>3. GrantsAreNew
    <3> SUFFICES ASSUME NEW v \in Server, NEW c \in Server, NEW t \in Nat, Granted(v, t, c)'
                 PROVE  Granted(v, t, c)
      BY Zenon DEF GrantsAreNew
    <3>1. CASE [candidate |-> c, term |-> t, voter |-> v] = counted
      <4>1. c = r.to /\ t = r.reqTerm /\ v = r.from
        BY Zenon, <3>1
      <4>2. QED
        BY Zenon, <2>1, <4>1 DEF Granted
    <3>2. CASE [candidate |-> c, term |-> t, voter |-> v] # counted
      BY Zenon, <2>1, <3>2 DEF Granted
    <3>3. QED
      BY Zenon, <3>1, <3>2
  <2>4. LeadersStayOrWin
    <3> SUFFICES ASSUME NEW i \in Server, role'[i] = "Leader"
                 PROVE  \/ role[i] = "Leader" /\ currentTerm'[i] = currentTerm[i]
                        \/ IsMajority(Tally(i, currentTerm[i])')
      BY Zenon DEF LeadersStayOrWin
    <3>1. CASE i = r.to /\ won
      <4>1. Tally(i, currentTerm[i])' = Tally(r.to, r.reqTerm) \cup {r.from}
        BY Zenon, <2>r, <2>1, <3>1 DEF Tally
      <4>2. QED
        BY Zenon, <3>1, <4>1
    <3>2. CASE ~(i = r.to /\ won)
      BY Zenon, <2>r, <2>1, <3>2 DEF TypeOK
    <3>3. QED
      BY Zenon, <3>1, <3>2
  <2>5. CallsAreFromLeaders
    BY Zenon, <2>1 DEF CallsAreFromLeaders
  <2>6. QED
    BY Zenon, <2>1, <2>2, <2>3, <2>4, <2>5 DEF ElectionStep
<1>ElectElectoral. ASSUME TypeOK, Elect
      PROVE  ElectionStep
  <2> USE <1>ElectElectoral
  <2>1. ASSUME NEW r \in rvReplies, VoteReplyNewTerm(r)
        PROVE  ElectionStep
    <3>1. r.to \in Server /\ r.term \in Nat
      BY Zenon DEF TypeOK, RequestVoteReply
    <3>2. QED
      BY Zenon, <2>1, <3>1, <1>StepDownElectoral DEF VoteReplyNewTerm, aeNet, isNet
  <2>2. QED
    BY Zenon, <2>1, <1>StartElectionElectoral, <1>RequestVoteElectoral, <1>CountVoteElectoral DEF Elect
<1>LeaderReplyNewTermElectoral. ASSUME TypeOK, NEW r, r.to \in Server, r.term \in Nat, LeaderReplyNewTerm(r)
      PROVE  ElectionStep
BY <1>LeaderReplyNewTermElectoral, Zenon, <1>StepDownElectoral DEF LeaderReplyNewTerm, rvNet, aeNet, isNet
<1>SendElectoral. ASSUME TypeOK, NEW i \in Server, NEW j \in Server,
             SendAppendEntries(i, j) \/ SendInstallSnapshot(i, j)
      PROVE  ElectionStep
  <2> USE <1>SendElectoral
  <2>1. CASE SendAppendEntries(i, j)
    <3>1. /\ role[i] = "Leader" /\ UNCHANGED <<electionVars, rvReplies, isArgs>>
          /\ \A m \in aeArgs' : m \in aeArgs \/ (m.from = i /\ m.term = currentTerm[i])
      BY <2>1 DEF SendAppendEntries, rvNet, isNet
    <3>2. CallsAreFromLeaders
      BY Zenon, <3>1 DEF CallsAreFromLeaders
    <3>3. QED
      BY Zenon, <3>1, <3>2, <1>NothingElectoral
  <2>2. CASE SendInstallSnapshot(i, j)
    <3>1. /\ role[i] = "Leader" /\ UNCHANGED <<electionVars, rvReplies, aeArgs>>
          /\ \A m \in isArgs' : m \in isArgs \/ (m.from = i /\ m.term = currentTerm[i])
      BY <2>2 DEF SendInstallSnapshot, rvNet, aeNet
    <3>2. CallsAreFromLeaders
      BY Zenon, <3>1 DEF CallsAreFromLeaders
    <3>3. QED
      BY Zenon, <3>1, <3>2, <1>NothingElectoral
  <2>3. QED
    BY Zenon, <2>1, <2>2
<1>ReplicateElectoral. ASSUME TypeOK, Replicate
      PROVE  ElectionStep
  <2> USE <1>ReplicateElectoral
  <2>1. ASSUME UNCHANGED <<electionVars, rvReplies, aeArgs, isArgs>>
        PROVE  ElectionStep
    BY Zenon, <2>1, <1>NothingElectoral DEF CallsAreFromLeaders
  <2>2. ASSUME NEW i \in Server, NEW command \in Command, Start(i, command)
        PROVE  ElectionStep
    BY Zenon, <2>1, <2>2 DEF Start, rvNet, aeNet, isNet
  <2>3. ASSUME NEW m \in aeArgs, AppendEntries(m)
        PROVE  ElectionStep
    <3>1. m.to \in Server /\ m.term \in Nat
      BY Zenon DEF TypeOK, AppendEntriesArgs
    <3>2. CASE RejectAppend(m)
      BY Zenon, <2>1, <3>2 DEF RejectAppend, AnswerAppend, rvNet, isNet
    <3>3. CASE MissingPrev(m)
      BY Zenon, <3>1, <3>3, <1>FollowLeaderElectoral DEF MissingPrev, AnswerAppend, rvNet, isNet
    <3>4. CASE ConflictingPrev(m)
      BY Zenon, <3>1, <3>4, <1>FollowLeaderElectoral DEF ConflictingPrev, AnswerAppend, rvNet, isNet
    <3>5. CASE AcceptAppend(m)
      BY Zenon, <3>1, <3>5, <1>FollowLeaderElectoral DEF AcceptAppend, AnswerAppend, rvNet, isNet
    <3>6. QED
      BY Zenon, <2>3, <3>2, <3>3, <3>4, <3>5 DEF AppendEntries
  <2>4. ASSUME NEW r \in aeReplies, LeaderReplyNewTerm(r) \/ AppendSucceeded(r) \/ AppendRefused(r)
        PROVE  ElectionStep
    <3>1. r.to \in Server /\ r.term \in Nat
      BY Zenon DEF TypeOK, AppendEntriesReply
    <3>2. CASE LeaderReplyNewTerm(r)
      BY Zenon, <3>1, <3>2, <1>LeaderReplyNewTermElectoral
    <3>3. CASE AppendSucceeded(r)
      BY Zenon, <2>1, <3>3 DEF AppendSucceeded, rvNet, aeNet, isNet
    <3>4. CASE AppendRefused(r)
      BY Zenon, <2>1, <3>4 DEF AppendRefused, rvNet, aeNet, isNet
    <3>5. QED
      BY Zenon, <2>4, <3>2, <3>3, <3>4
  <2>5. QED
    BY Zenon, <2>2, <2>3, <2>4, <1>SendElectoral DEF Replicate
<1>CompactElectoral. ASSUME TypeOK, Compact
      PROVE  ElectionStep
  <2> USE <1>CompactElectoral
  <2>1. ASSUME UNCHANGED <<electionVars, rvReplies, aeArgs, isArgs>>
        PROVE  ElectionStep
    BY Zenon, <2>1, <1>NothingElectoral DEF CallsAreFromLeaders
  <2>2. ASSUME NEW i \in Server, ApplierLoop(i) \/ TakeSnapshot(i)
        PROVE  ElectionStep
    BY Zenon, <2>1, <2>2 DEF ApplierLoop, TakeSnapshot, Snapshot, rvNet, aeNet, isNet
  <2>3. ASSUME NEW m \in isArgs, InstallSnapshot(m)
        PROVE  ElectionStep
    <3>1. m.to \in Server /\ m.term \in Nat
      BY Zenon DEF TypeOK, InstallSnapshotArgs
    <3>2. CASE RejectSnapshot(m)
      BY Zenon, <2>1, <3>2 DEF RejectSnapshot, rvNet, aeNet
    <3>3. CASE IgnoreSnapshot(m)
      BY Zenon, <3>1, <3>3, <1>FollowLeaderElectoral DEF IgnoreSnapshot, rvNet, aeNet
    <3>4. CASE AcceptSnapshot(m)
      BY Zenon, <3>1, <3>4, <1>FollowLeaderElectoral DEF AcceptSnapshot, rvNet, aeNet
    <3>5. QED
      BY Zenon, <2>3, <3>2, <3>3, <3>4 DEF InstallSnapshot
  <2>4. ASSUME NEW r \in isReplies, LeaderReplyNewTerm(r) \/ SnapshotInstalled(r)
        PROVE  ElectionStep
    <3>1. r.to \in Server /\ r.term \in Nat
      BY Zenon DEF TypeOK, InstallSnapshotReply
    <3>2. CASE LeaderReplyNewTerm(r)
      BY Zenon, <3>1, <3>2, <1>LeaderReplyNewTermElectoral
    <3>3. CASE SnapshotInstalled(r)
      BY Zenon, <2>1, <3>3 DEF SnapshotInstalled, rvNet, aeNet, isNet
    <3>4. QED
      BY Zenon, <2>4, <3>2, <3>3
  <2>5. QED
    BY Zenon, <2>2, <2>3, <2>4, <1>SendElectoral DEF Compact
\* A peer comes back with the term and the vote that its disk kept.
<1>CrashElectoral. ASSUME DiskInv, Crash
      PROVE  ElectionStep
  <2> USE <1>CrashElectoral
  <2>1. ASSUME NEW i \in Server, NEW saved \in Saved, Make(i, saved),
               UNCHANGED <<votes, rvReplies, aeArgs, isArgs>>,
               saved.currentTerm >= currentTerm[i],
               saved.currentTerm = currentTerm[i] => saved.votedFor = votedFor[i]
        PROVE  ElectionStep
    <3>1. saved.currentTerm \in Nat
      BY Zenon, <2>1 DEF Saved
    <3>2. \A j \in Server : KeepsVote(j)
      BY Zenon, <2>1, <3>1, <1>OneVoter DEF Make, DiskInv
    <3>3. \A j \in Server : role'[j] = "Leader" =>
            role[j] = "Leader" /\ currentTerm'[j] = currentTerm[j]
      BY Zenon, <2>1 DEF Make, DiskInv, TypeOK
    <3>4. CallsAreFromLeaders
      BY Zenon, <2>1 DEF CallsAreFromLeaders
    <3>5. QED
      BY Zenon, <2>1, <3>2, <3>3, <3>4, <1>QuietStep
  <2>2. CASE \E i \in Server : Restart(i)
    <3>1. PICK i \in Server : Restart(i)
      BY Zenon, <2>2
    <3>2. /\ persister[i] \in Saved /\ Make(i, persister[i])
          /\ UNCHANGED <<votes, rvReplies, aeArgs, isArgs>>
      BY Zenon, <3>1 DEF DiskInv, TypeOK, Restart, rvNet, aeNet, isNet
    <3>3. /\ persister[i].currentTerm = currentTerm[i] /\ persister[i].votedFor = votedFor[i]
          /\ currentTerm[i] >= currentTerm[i]
      BY DEF DiskInv, DiskIsCurrent, TypeOK
    <3>4. QED
      BY Zenon, <2>1, <3>2, <3>3
  <2>3. CASE \E m \in rvArgs \cup aeArgs \cup isArgs : CrashInHandler(m)
    <3>1. PICK m \in rvArgs \cup aeArgs \cup isArgs : CrashInHandler(m)
      BY Zenon, <2>3
    <3>2. m.to \in Server /\ m.term \in Nat
      BY Zenon DEF DiskInv, TypeOK, RequestVoteArgs, AppendEntriesArgs, InstallSnapshotArgs
    <3> DEFINE saved == [persister[m.to] EXCEPT !.currentTerm = m.term, !.votedFor = Nil]
    <3>3. saved \in Saved /\ saved.currentTerm = m.term
      <4>1. persister[m.to] \in Saved
        BY Zenon, <3>2 DEF DiskInv, TypeOK
      <4>2. QED
        BY Zenon, <3>2, <4>1 DEF Saved
    <3>4. /\ Make(m.to, saved) /\ m.term > currentTerm[m.to]
          /\ UNCHANGED <<votes, rvReplies, aeArgs, isArgs>>
      BY Zenon, <3>1 DEF CrashInHandler, aeNet, isNet
    <3>5. m.term >= currentTerm[m.to] /\ m.term # currentTerm[m.to]
      BY <3>2, <3>4 DEF DiskInv, TypeOK
    <3> HIDE DEF saved
    <3>6. QED
      BY Zenon, <2>1, <3>2, <3>3, <3>4, <3>5
  <2>4. QED
    BY Zenon, <2>2, <2>3 DEF Crash
<1> SUFFICES ASSUME DiskInv, [Next]_vars PROVE ElectionStep
  BY Zenon
<1>1. CASE Lose
  <2>1. /\ UNCHANGED electionVars /\ rvReplies' \subseteq rvReplies
        /\ aeArgs' \subseteq aeArgs /\ isArgs' \subseteq isArgs
    BY Zenon, <1>1 DEF Lose, rvNet, aeNet, isNet
  <2>2. CallsAreFromLeaders
    BY Zenon, <2>1 DEF CallsAreFromLeaders
  <2>3. QED
    BY Zenon, <2>1, <2>2, <1>NothingElectoral DEF DiskInv
<1>2. CASE UNCHANGED vars
  BY Zenon, <1>2, <1>NothingElectoral DEF DiskInv, vars, rvNet, aeNet, isNet, CallsAreFromLeaders
<1>3. QED
  BY Zenon, <1>1, <1>2, <1>ElectElectoral, <1>ReplicateElectoral, <1>CompactElectoral, <1>CrashElectoral
    DEF DiskInv, Next

\* The election invariant is inductive.
LEMMA NextElection ==
  ASSUME ElectionInv, [Next]_vars
  PROVE  ElectionInv'
\* What contains a majority is one.
<1>MajorityMonotone. ASSUME Majorities, NEW S, NEW T, T \subseteq Server, S \subseteq T, IsMajority(S)
      PROVE  IsMajority(T)
  <2> USE <1>MajorityMonotone
  <2>1. S \in SUBSET Server /\ T \in SUBSET Server
    BY Zenon
  <2>2. QED
    BY Zenon, <2>1 DEF Majorities
<1>1. DiskInv /\ DiskInv' /\ ElectionStep /\ Majorities
  BY Zenon, NextDisk, NextElectoral DEF ElectionInv
<1>0. Majorities'
  BY Zenon, <1>1 DEF Majorities, IsMajority
<1>2. VotesRemembered'
  <2> SUFFICES ASSUME NEW v \in Server, NEW c \in Server, NEW t \in Nat, Granted(v, t, c)'
               PROVE  currentTerm'[v] > t \/ (currentTerm'[v] = t /\ votedFor'[v] = c)
    BY Zenon DEF VotesRemembered
  <2>1. CASE Granted(v, t, c)
    <3>1. currentTerm[v] > t \/ (currentTerm[v] = t /\ votedFor[v] = c)
      BY Zenon, <2>1 DEF ElectionInv, VotesRemembered
    <3>2. currentTerm[v] \in Nat /\ currentTerm'[v] \in Nat
      BY Zenon, <1>1 DEF DiskInv, TypeOK
    <3>3. KeepsVote(v) /\ c # Nil
      BY Zenon, <1>1, NilAssumption DEF ElectionStep
    <3>4. QED
      BY <3>1, <3>2, <3>3 DEF KeepsVote
  <2>2. CASE ~Granted(v, t, c)
    BY Zenon, <1>1, <2>2 DEF ElectionStep, GrantsAreNew
  <2>3. QED
    BY Zenon, <2>1, <2>2
<1>3. VotesUnique'
  <2> SUFFICES ASSUME NEW v \in Server, NEW c \in Server, NEW d \in Server, NEW t \in Nat,
                      Granted(v, t, c)', Granted(v, t, d)'
               PROVE  c = d
    BY Zenon DEF VotesUnique
  <2>1. /\ currentTerm'[v] > t \/ (currentTerm'[v] = t /\ votedFor'[v] = c)
        /\ currentTerm'[v] > t \/ (currentTerm'[v] = t /\ votedFor'[v] = d)
    BY Zenon, <1>2 DEF VotesRemembered
  <2>2. currentTerm'[v] \in Nat
    BY Zenon, <1>1 DEF DiskInv, TypeOK
  <2>3. CASE currentTerm'[v] = t
    BY <2>1, <2>2, <2>3
  <2>4. CASE currentTerm'[v] # t
    <3>1. Granted(v, t, c) /\ Granted(v, t, d)
      BY Zenon, <1>1, <2>4 DEF ElectionStep, GrantsAreNew
    <3>2. QED
      BY Zenon, <3>1 DEF ElectionInv, VotesUnique
  <2>5. QED
    BY Zenon, <2>3, <2>4
<1>4. ASSUME NEW i, NEW t, IsMajority(Tally(i, t))
      PROVE  IsMajority(Tally(i, t)')
  <2>1. Tally(i, t) \subseteq Tally(i, t)' /\ Tally(i, t)' \subseteq Server
    BY Zenon, <1>1 DEF ElectionStep, Tally
  <2>2. QED
    BY Zenon, <1>1, <1>4, <2>1, <1>MajorityMonotone
<1>5. LeadersElected'
  <2> SUFFICES ASSUME NEW i \in Server, role'[i] = "Leader"
               PROVE  IsMajority(Tally(i, currentTerm[i])')
    BY Zenon DEF LeadersElected, IsMajority
  <2>1. CASE role[i] = "Leader" /\ currentTerm'[i] = currentTerm[i]
    <3>1. IsMajority(Tally(i, currentTerm[i]))
      BY Zenon, <2>1 DEF ElectionInv, LeadersElected
    <3>2. Tally(i, currentTerm[i]) \subseteq Tally(i, currentTerm[i])'
      BY Zenon, <1>1, <2>1 DEF ElectionStep, Tally
    <3>3. Tally(i, currentTerm[i])' \subseteq Server
      BY Zenon DEF Tally
    <3>4. QED
      BY Zenon, <1>1, <3>1, <3>2, <3>3, <1>MajorityMonotone
  <2>2. QED
    BY Zenon, <1>1, <2>1 DEF ElectionStep, LeadersStayOrWin
<1>6. CallersElected'
  <2> SUFFICES ASSUME NEW m \in aeArgs' \cup isArgs'
               PROVE  IsMajority(Tally(m.from, m.term)')
    BY Zenon DEF CallersElected, IsMajority
  <2>1. IsMajority(Tally(m.from, m.term))
    BY Zenon, <1>1 DEF ElectionStep, CallsAreFromLeaders, ElectionInv, LeadersElected, CallersElected
  <2>2. Tally(m.from, m.term) \subseteq Tally(m.from, m.term)'
    BY Zenon, <1>1 DEF ElectionStep, Tally
  <2>3. Tally(m.from, m.term)' \subseteq Server
    BY Zenon DEF Tally
  <2>4. QED
    BY Zenon, <1>1, <2>1, <2>2, <2>3, <1>MajorityMonotone
<1>7. QED
  BY Zenon, <1>0, <1>1, <1>2, <1>3, <1>5, <1>6 DEF ElectionInv

\* Nobody has voted at the start.
LEMMA InitElection ==
  ASSUME Majorities, Init
  PROVE  ElectionInv
<1>1. VotesRemembered /\ VotesUnique
  BY Zenon DEF Init, VotesRemembered, VotesUnique, Granted
<1>2. LeadersElected /\ CallersElected
  BY Zenon DEF Init, LeadersElected, CallersElected
<1>3. QED
  BY <1>1, <1>2, InitDisk, SMTT(30) DEF ElectionInv

-----------------------------------------------------------------------------
(***************************************************************************)
(* The service.  The argument speaks of indexes only.  lastApplied grows   *)
(* with whatever is handed out, and a snapshot moves it past what it       *)
(* covers; so what is under way in applyCh is never ahead of it.  Of a     *)
(* peer that has no snapshot the batch under way is all that lies between  *)
(* the service and lastApplied.  What a service has executed, and so what  *)
(* its snapshots hold, is left open: with snapshots they may be out of     *)
(* order.                                                                  *)
(***************************************************************************)

\* A peer's own state.
LocalTypes ==
  /\ currentTerm \in [Server -> Nat] /\ log \in [Server -> Seq(Entry)]
  /\ lastIncludedIndex \in [Server -> Nat]
  /\ commitIndex \in [Server -> Nat] /\ lastApplied \in [Server -> Nat]

\* Of a leader, what it believes of the others.
LeaderTypes ==
  nextIndex \in [Server -> [Server -> Int]] /\ matchIndex \in [Server -> [Server -> Int]]

\* What is on its disk; the snapshot may be anything.
IsSaved(r) ==
  /\ DOMAIN r = {"currentTerm", "votedFor", "log", "lastIncludedIndex", "lastIncludedTerm",
                 "snapshot"}
  /\ r.currentTerm \in Nat /\ r.log \in Seq(Entry) /\ r.lastIncludedIndex \in Nat
DiskTypes == DOMAIN persister = Server /\ \A i \in Server : IsSaved(persister[i])

\* The calls and the replies.
IsCall(m) == m.from \in Server /\ m.to \in Server /\ m.term \in Nat
IsAppend(m) ==
  IsCall(m) /\ m.prevLogIndex \in Nat /\ m.leaderCommit \in Nat /\ m.entries \in Seq(Entry)
IsAppendReply(r) ==
  IsCall(r) /\ r.prevLogIndex \in Nat /\ r.count \in Nat /\ r.conflictIndex \in Int
IsInstall(m) == IsCall(m) /\ m.lastIncludedIndex \in Nat
NetTypes ==
  /\ \A m \in rvArgs : IsCall(m)
  /\ \A m \in rvReplies : IsCall(m)
  /\ \A m \in aeArgs : IsAppend(m)
  /\ \A m \in aeReplies : IsAppendReply(m)
  /\ \A m \in isArgs : IsInstall(m)
  /\ \A m \in isReplies : IsInstall(m)

PeerTypes == LocalTypes /\ LeaderTypes /\ DiskTypes /\ NetTypes

\* The batch that applierLoop sends.
IsBatch(q) == \E S : q \in Seq(S)
ServiceTypes ==
  /\ DOMAIN outbox = Server /\ \A i \in Server : IsBatch(outbox[i])
  /\ DOMAIN snapshotMsgs = Server
  /\ serviceIndex \in [Server -> Nat]

\* Nothing in applyCh, and not the service, is ahead of Raft.
Behind(i) ==
  /\ lastIncludedIndex[i] <= lastApplied[i] /\ serviceIndex[i] <= lastApplied[i]
  /\ \A x \in DOMAIN outbox[i] : outbox[i][x].index \in Nat /\ outbox[i][x].index <= lastApplied[i]
  /\ \A s \in snapshotMsgs[i] : s.index \in 1..lastIncludedIndex[i]

\* Without a snapshot, the batch leads from the service to lastApplied.
InStep(i) ==
  Uncompacted(i) =>
    /\ serviceIndex[i] + Len(outbox[i]) = lastApplied[i]
    /\ \A x \in DOMAIN outbox[i] : outbox[i][x].index = serviceIndex[i] + x

\* The inductive invariant.
ApplyInv == PeerTypes /\ ServiceTypes /\ \A i \in Server : Behind(i) /\ InStep(i)

\* A step that moves neither lastIncludedIndex nor lastApplied.
Quiet == PeerTypes' /\ UNCHANGED <<lastIncludedIndex, lastApplied>>

\* The service of i hands a snapshot up to index to Snapshot, or a leader to InstallSnapshot.
Compacts(i, index) ==
  /\ PeerTypes' /\ index > lastIncludedIndex[i]
  /\ lastIncludedIndex' = [lastIncludedIndex EXCEPT ![i] = index]
  /\ index <= lastApplied'[i] /\ lastApplied[i] <= lastApplied'[i]
  /\ \A j \in Server \ {i} : lastApplied'[j] = lastApplied[j]

\* Nothing is under way.
LEMMA EmptyBatch == IsBatch(<<>>) /\ Len(<<>>) = 0 /\ DOMAIN <<>> = {}
BY SMTT(30) DEF IsBatch

\* A step leaves peer i and its service alone.
Leaves(i) ==
  /\ lastIncludedIndex'[i] = lastIncludedIndex[i] /\ lastApplied'[i] = lastApplied[i]
  /\ outbox'[i] = outbox[i] /\ snapshotMsgs'[i] = snapshotMsgs[i]
  /\ serviceIndex'[i] = serviceIndex[i]

\* The first message of a batch.
LEMMA FirstMessage ==
  ASSUME ApplyInv, NEW i \in Server, outbox[i] # <<>>
  PROVE  /\ Head(outbox[i]) = outbox[i][1] /\ 1 \in DOMAIN outbox[i]
         /\ IsBatch(Tail(outbox[i])) /\ Len(Tail(outbox[i])) = Len(outbox[i]) - 1
         /\ DOMAIN outbox[i] = 1..Len(outbox[i]) /\ Len(outbox[i]) \in Nat
         /\ DOMAIN Tail(outbox[i]) = 1..Len(outbox[i]) - 1
         /\ \A x \in 1..Len(outbox[i]) - 1 : Tail(outbox[i])[x] = outbox[i][x + 1]
<1>1. PICK S : outbox[i] \in Seq(S)
  BY Zenon DEF ApplyInv, ServiceTypes, IsBatch
<1>2. Tail(outbox[i]) \in Seq(S)
  BY <1>1
<1>3. IsBatch(Tail(outbox[i]))
  BY Zenon, <1>2 DEF IsBatch
<1>4. QED
  BY <1>1, <1>2, <1>3

\* Without snapshots the first message of a batch has the next index.
LEMMA NextInLine ==
  ASSUME ApplyInv, NEW i \in Server, ReadCommand(i), Uncompacted(i)
  PROVE  serviceIndex'[i] = serviceIndex[i] + 1
<1>1. outbox[i] # <<>> /\ serviceIndex' = [serviceIndex EXCEPT ![i] = Head(outbox[i]).index]
  BY Zenon DEF ReadCommand
<1>2. outbox[i][1].index = serviceIndex[i] + 1
  BY Zenon, <1>1, FirstMessage DEF ApplyInv, InStep
<1>3. QED
  BY Zenon, <1>1, <1>2, FirstMessage DEF ApplyInv, ServiceTypes

\* The invariant holds when all peers and services start.
LEMMA ApplyInitInv == ApplyInit => ApplyInv
<1> SUFFICES ASSUME ApplyInit PROVE ApplyInv
  OBVIOUS
<1>1. LocalTypes /\ LeaderTypes
  BY DEF ApplyInit, Init, LocalTypes, LeaderTypes
<1>2. DiskTypes
  <2> DEFINE r == [currentTerm |-> 0, votedFor |-> Nil, log |-> <<>>,
                   lastIncludedIndex |-> 0, lastIncludedTerm |-> 0, snapshot |-> <<>>]
  <2>1. persister = [i \in Server |-> r]
    BY ZenonT(40) DEF ApplyInit, Init
  <2>2. IsSaved(r)
    BY SMTT(30) DEF IsSaved
  <2> HIDE DEF r
  <2>3. QED
    BY Zenon, <2>1, <2>2 DEF DiskTypes
<1>3. NetTypes
  BY Zenon DEF ApplyInit, Init, NetTypes
<1>4. 0 \in Nat /\ 0 <= 0 /\ 0 + 0 = 0
  BY SMT
<1>5. ServiceTypes
  BY Zenon, <1>4, EmptyBatch DEF ApplyInit, ServiceTypes
<1>6. \A i \in Server : Behind(i) /\ InStep(i)
  BY Zenon, <1>4, EmptyBatch DEF ApplyInit, Init, Behind, InStep
<1>7. QED
  BY Zenon, <1>1, <1>2, <1>3, <1>5, <1>6 DEF ApplyInv, PeerTypes

\* Every step keeps it.
LEMMA ApplyNextInv == ApplyInv /\ [ApplyNext]_allVars => ApplyInv'
\* Save writes what the step leaves.
<1>SaveTypes. ASSUME LocalTypes', DiskTypes, NEW i \in Server, NEW snapshot, Save(i, snapshot)
      PROVE  DiskTypes'
  <2> USE <1>SaveTypes
  <2> DEFINE r == [currentTerm |-> currentTerm'[i], votedFor |-> votedFor'[i], log |-> log'[i],
                   lastIncludedIndex |-> lastIncludedIndex'[i],
                   lastIncludedTerm |-> lastIncludedTerm'[i], snapshot |-> snapshot]
  <2>1. persister' = [persister EXCEPT ![i] = r]
    BY Zenon DEF Save
  <2>2. IsSaved(r)
    BY DEF IsSaved, LocalTypes
  <2> HIDE DEF r
  <2>3. QED
    BY Zenon, <2>1, <2>2 DEF DiskTypes
\* So does persist, if it is called.
<1>PersistTypes. ASSUME LocalTypes', DiskTypes, NEW i \in Server, NEW cond,
             PersistIf(cond, i) \/ Persist(i) \/ UNCHANGED persister
      PROVE  DiskTypes'
  <2> USE <1>PersistTypes
  <2>1. CASE Persist(i)
    BY Zenon, <2>1, <1>SaveTypes DEF Persist
  <2>2. CASE UNCHANGED persister
    BY Zenon, <2>2 DEF DiskTypes
  <2>3. QED
    BY Zenon, <2>1, <2>2 DEF PersistIf
\* A step of an election.
<1>ElectTypes. ASSUME PeerTypes, Elect
      PROVE  Quiet
  <2> USE <1>ElectTypes
  <2> USE DEF PeerTypes
  <2>1. UNCHANGED <<logVars, applyVars, aeNet, isNet>>
    BY Zenon DEF Elect, StartElection, RequestVote, RejectVote, ConsiderVote, VoteReplyNewTerm,
       CountVote, StepDown
  <2>2. UNCHANGED <<log, lastIncludedIndex, commitIndex, lastApplied, aeArgs, aeReplies,
                    isArgs, isReplies>>
    BY Zenon, <2>1 DEF logVars, applyVars, aeNet, isNet
  <2>0. LeaderTypes'
    <3>1. CASE \E r \in rvReplies : CountVote(r)
      <4>1. PICK r \in rvReplies : CountVote(r)
        BY Zenon, <3>1
      <4>2. r.to \in Server /\ LastLogIndex(r.to) + 1 \in Int
        BY DEF NetTypes, IsCall, LocalTypes, LastLogIndex
      <4>3. QED
        BY <4>1, <4>2 DEF CountVote, LeaderTypes
    <3>2. CASE ~ \E r \in rvReplies : CountVote(r)
      BY Zenon, <3>2 DEF Elect, StartElection, RequestVote, RejectVote, ConsiderVote,
         VoteReplyNewTerm, leaderVars, LeaderTypes
    <3>3. QED
      BY Zenon, <3>1, <3>2
  <2>3. CASE \E i \in Server : StartElection(i)
    <3>1. PICK i \in Server : StartElection(i)
      BY Zenon, <2>3
    <3>2. LocalTypes'
      BY SMTT(20), <2>2, <3>1 DEF LocalTypes, StartElection
    <3>3. DiskTypes'
      BY Zenon, <3>1, <3>2, <1>PersistTypes DEF StartElection
    <3>4. \A m \in rvArgs' : IsCall(m)
      BY SMTT(30), <3>1 DEF StartElection, IsCall, NetTypes, LocalTypes
    <3>5. UNCHANGED rvReplies
      BY Zenon, <3>1 DEF StartElection
    <3>6. QED
      BY Zenon, <2>2, <2>0, <3>2, <3>3, <3>4, <3>5 DEF NetTypes, Quiet
  <2>4. CASE \E m \in rvArgs : RequestVote(m)
    <3>1. PICK m \in rvArgs : RequestVote(m)
      BY Zenon, <2>4
    <3>2. IsCall(m)
      BY Zenon, <3>1 DEF NetTypes
    <3>3. LocalTypes'
      BY Zenon, <2>2, <3>1, <3>2 DEF LocalTypes, RequestVote, RejectVote, ConsiderVote, electionVars, IsCall
    <3>4. DiskTypes'
      BY Zenon, <3>1, <3>2, <3>3, <1>PersistTypes
         DEF RequestVote, RejectVote, ConsiderVote, IsCall
    <3>5. PICK t, g : AnswerVote(m, t, g) /\ t \in Nat
      BY Zenon, <3>1, <3>2 DEF RequestVote, RejectVote, ConsiderVote, LocalTypes, IsCall
    <3>6. \A r \in rvReplies' : IsCall(r)
      <4>1. PICK r \in {[from |-> m.to, to |-> m.from, reqTerm |-> m.term, term |-> t,
                        voteGranted |-> g]} : r.from = m.to /\ r.to = m.from /\ r.term = t
        BY Zenon
      <4>2. IsCall(r)
        BY Zenon, <3>2, <3>5, <4>1 DEF IsCall
      <4>3. rvReplies' = rvReplies \cup {r}
        BY Zenon, <3>5, <4>1 DEF AnswerVote
      <4>4. \A x \in rvReplies : IsCall(x)
        BY Zenon DEF NetTypes
      <4>5. QED
        BY Zenon, <4>2, <4>3, <4>4 DEF IsCall
    <3>7. \A r \in rvArgs' : IsCall(r)
      BY Zenon, <3>5 DEF AnswerVote, NetTypes
    <3>8. QED
      BY Zenon, <2>2, <2>0, <3>3, <3>4, <3>6, <3>7 DEF NetTypes, Quiet
  <2>5. CASE \E r \in rvReplies : VoteReplyNewTerm(r) \/ CountVote(r)
    <3>1. PICK r \in rvReplies : VoteReplyNewTerm(r) \/ CountVote(r)
      BY Zenon, <2>5
    <3>2. IsCall(r)
      BY Zenon, <3>1 DEF NetTypes
    <3>3. LocalTypes'
      BY Zenon, <2>2, <3>1, <3>2 DEF LocalTypes, VoteReplyNewTerm, CountVote, StepDown, IsCall
    <3>4. DiskTypes'
      BY Zenon, <3>1, <3>2, <3>3, <1>PersistTypes DEF VoteReplyNewTerm, CountVote, StepDown, IsCall
    <3>5. rvArgs' = rvArgs /\ rvReplies' = rvReplies \ {r}
      BY Zenon, <3>1 DEF VoteReplyNewTerm, CountVote
    <3>6. QED
      BY Zenon, <2>2, <2>0, <3>3, <3>4, <3>5 DEF NetTypes, Quiet
  <2>6. QED
    BY Zenon, <2>3, <2>4, <2>5 DEF Elect
\* The leader appends a command.
<1>StartTypes. ASSUME PeerTypes, NEW i \in Server, NEW command \in Command, Start(i, command)
      PROVE  Quiet
  <2> USE <1>StartTypes
  <2> DEFINE e == [term |-> currentTerm[i], command |-> command]
  <2>1. /\ log' = [log EXCEPT ![i] = Append(@, e)]
        /\ UNCHANGED <<currentTerm, lastIncludedIndex, commitIndex, lastApplied>>
    BY Zenon DEF Start, electionVars, applyVars
  <2>2. e \in Entry
    BY DEF PeerTypes, LocalTypes, Entry
  <2> HIDE DEF e
  <2>3. Append(log[i], e) \in Seq(Entry)
    BY <2>2 DEF PeerTypes, LocalTypes
  <2>4. LocalTypes'
    BY Zenon, <2>1, <2>3 DEF PeerTypes, LocalTypes
  <2>5. DiskTypes'
    BY Zenon, <2>4, <1>PersistTypes DEF PeerTypes, Start
  <2>6. UNCHANGED <<nextIndex, matchIndex, rvArgs, rvReplies, aeArgs, aeReplies, isArgs, isReplies>>
    BY Zenon DEF Start, leaderVars, rvNet, aeNet, isNet
  <2>7. QED
    BY Zenon, <2>1, <2>4, <2>5, <2>6 DEF PeerTypes, LeaderTypes, NetTypes, Quiet
\* The rest of the log is a sequence of entries.
<1>EntriesType. ASSUME LocalTypes, NEW i \in Server, NEW index \in Nat, index > lastIncludedIndex[i]
      PROVE  EntriesFrom(i, index) \in Seq(Entry)
BY <1>EntriesType DEF EntriesFrom, LocalTypes
\* The leader calls a peer.
<1>SendTypes. ASSUME PeerTypes, NEW i \in Server, NEW j \in Server,
             SendAppendEntries(i, j) \/ SendInstallSnapshot(i, j)
      PROVE  Quiet
  <2> USE <1>SendTypes
  <2>1. UNCHANGED <<electionVars, logVars, applyVars, leaderVars, persister, rvNet>>
    BY Zenon DEF SendAppendEntries, SendInstallSnapshot
  <2>2. /\ UNCHANGED <<currentTerm, log, lastIncludedIndex, commitIndex, lastApplied, persister>>
        /\ UNCHANGED <<nextIndex, matchIndex, rvArgs, rvReplies>>
    BY Zenon, <2>1 DEF electionVars, logVars, applyVars, leaderVars, rvNet
  <2>3. LocalTypes' /\ LeaderTypes' /\ DiskTypes'
    BY Zenon, <2>2 DEF PeerTypes, LocalTypes, LeaderTypes, DiskTypes
  <2>4. CASE SendAppendEntries(i, j)
    <3> DEFINE next == nextIndex[i][j]
               m == [from |-> i, to |-> j, term |-> currentTerm[i],
                     prevLogIndex |-> next - 1, prevLogTerm |-> TermAt(i, next - 1),
                     entries |-> EntriesFrom(i, next), leaderCommit |-> commitIndex[i]]
    <3>1. /\ aeArgs' = aeArgs \cup {m} /\ next > lastIncludedIndex[i] /\ InLog(i, next - 1)
          /\ UNCHANGED <<aeReplies, isNet>>
      BY Zenon, <2>4 DEF SendAppendEntries
    <3>2. next \in Nat /\ next - 1 \in Nat
      <4>1. nextIndex[i] \in [Server -> Int] /\ lastIncludedIndex[i] \in Nat
        BY Zenon DEF PeerTypes, LocalTypes, LeaderTypes
      <4>2. next \in Int
        BY Zenon, <4>1
      <4> HIDE DEF next, m
      <4>3. QED
        BY <3>1, <4>1, <4>2
    <3>3. IsAppend(m)
      <4> HIDE DEF next
      <4>1. EntriesFrom(i, next) \in Seq(Entry)
        BY Zenon, <3>1, <3>2, <1>EntriesType DEF PeerTypes
      <4>2. QED
        BY <3>2, <4>1 DEF IsAppend, IsCall, PeerTypes, LocalTypes
    <3> HIDE DEF m
    <3>4. QED
      BY Zenon, <2>2, <2>3, <3>1, <3>3 DEF PeerTypes, NetTypes, Quiet, isNet
  <2>5. CASE SendInstallSnapshot(i, j)
    <3> DEFINE m == [from |-> i, to |-> j, term |-> currentTerm[i],
                     lastIncludedIndex |-> lastIncludedIndex[i],
                     lastIncludedTerm |-> lastIncludedTerm[i], data |-> persister[i].snapshot]
    <3>1. isArgs' = isArgs \cup {m} /\ UNCHANGED <<isReplies, aeNet>>
      BY Zenon, <2>5 DEF SendInstallSnapshot
    <3>2. IsInstall(m)
      BY DEF IsInstall, IsCall, PeerTypes, LocalTypes
    <3> HIDE DEF m
    <3>3. QED
      BY Zenon, <2>2, <2>3, <3>1, <3>2 DEF PeerTypes, NetTypes, Quiet, aeNet
  <2>6. QED
    BY Zenon, <2>4, <2>5
\* A follower adopts the leader's term.
<1>FollowTypes. ASSUME PeerTypes, NEW i \in Server, NEW term \in Nat, FollowLeader(i, term)
      PROVE  currentTerm' \in [Server -> Nat]
BY <1>FollowTypes DEF PeerTypes, LocalTypes, FollowLeader
\* The answer to AppendEntries.
<1>AnswerTypes. ASSUME NetTypes, NEW m \in aeArgs, NEW term \in Nat, NEW s, NEW ct, NEW ci \in Int,
             AnswerAppend(m, term, s, ct, ci), UNCHANGED <<rvNet, aeArgs, isNet>>
      PROVE  NetTypes'
  <2> USE <1>AnswerTypes
  <2>1. IsAppend(m) /\ Len(m.entries) \in Nat
    BY SMTT(30) DEF NetTypes, IsAppend
  <2>2. \A r \in aeReplies' : IsAppendReply(r)
    BY <2>1 DEF AnswerAppend, IsCall, IsAppend, IsAppendReply, NetTypes
  <2>3. UNCHANGED <<rvArgs, rvReplies, aeArgs, isArgs, isReplies>>
    BY Zenon DEF rvNet, isNet
  <2>4. QED
    BY Zenon, <2>2, <2>3 DEF NetTypes
\* A follower refuses entries.
<1>RefuseTypes. ASSUME PeerTypes, NEW m \in aeArgs, RejectAppend(m) \/ MissingPrev(m) \/ ConflictingPrev(m)
      PROVE  Quiet
  <2> USE <1>RefuseTypes
  <2>1. IsCall(m) /\ UNCHANGED <<log, lastIncludedIndex, commitIndex, lastApplied>>
    BY Zenon DEF PeerTypes, NetTypes, IsAppend, RejectAppend, MissingPrev, ConflictingPrev, logVars,
       applyVars
  <2>2. UNCHANGED currentTerm \/ FollowLeader(m.to, m.term)
    BY Zenon DEF RejectAppend, MissingPrev, ConflictingPrev, electionVars
  <2>3. LocalTypes'
    BY Zenon, <2>1, <2>2, <1>FollowTypes DEF PeerTypes, LocalTypes, IsCall
  <2>4. DiskTypes'
    BY Zenon, <2>1, <2>3, <1>PersistTypes
       DEF PeerTypes, RejectAppend, MissingPrev, ConflictingPrev, IsCall
  <2>5. \E term \in Nat : \E s, ct : \E ci \in Int : AnswerAppend(m, term, s, ct, ci)
    <3> DEFINE first == IF m.prevLogIndex < lastIncludedIndex[m.to]
                        THEN lastIncludedIndex[m.to] ELSE LastLogIndex(m.to)
    <3>1. m.term \in Nat /\ currentTerm[m.to] \in Nat /\ first + 1 \in Int /\ 0 \in Int
      <4>1. m.to \in Server /\ m.term \in Nat /\ currentTerm[m.to] \in Nat
        BY Zenon, <2>1 DEF PeerTypes, LocalTypes, IsCall
      <4>2. lastIncludedIndex[m.to] \in Nat /\ log[m.to] \in Seq(Entry)
        BY Zenon, <4>1 DEF PeerTypes, LocalTypes
      <4>3. LastLogIndex(m.to) \in Int
        BY <4>2 DEF LastLogIndex
      <4>4. QED
        BY SMTT(30), <4>1, <4>2, <4>3
    <3>2. \A k \in lastIncludedIndex[m.to]..m.prevLogIndex : k \in Int
      OBVIOUS
    <3>3. CASE RejectAppend(m)
      BY Zenon, <3>1, <3>3 DEF RejectAppend
    <3>4. CASE MissingPrev(m)
      BY Zenon, <3>1, <3>4 DEF MissingPrev
    <3>5. CASE ConflictingPrev(m)
      BY Zenon, <3>1, <3>2, <3>5 DEF ConflictingPrev
    <3>6. QED
      BY Zenon, <3>3, <3>4, <3>5
  <2>6. UNCHANGED <<leaderVars, rvNet, aeArgs, isNet>>
    BY Zenon DEF RejectAppend, MissingPrev, ConflictingPrev
  <2>7. NetTypes'
    BY Zenon, <2>5, <2>6, <1>AnswerTypes DEF PeerTypes
  <2>8. QED
    BY Zenon, <2>1, <2>3, <2>4, <2>6, <2>7 DEF PeerTypes, LeaderTypes, leaderVars, Quiet
\* A follower merges entries into its log.
<1>MergedType. ASSUME NEW old \in Seq(Entry), NEW base \in Nat, NEW entries \in Seq(Entry),
             NEW kept \in 0..Len(entries), base + kept <= Len(old)
      PROVE  Merged(old, base, kept, entries) \in Seq(Entry)
  <2> USE <1>MergedType
  <2>1. SubSeq(old, 1, base + kept) \in Seq(Entry)
    OBVIOUS
  <2>2. SubSeq(entries, kept + 1, Len(entries)) \in Seq(Entry)
    OBVIOUS
  <2>3. QED
    BY <2>1, <2>2 DEF Merged
\* It accepts them.
<1>AcceptTypes. ASSUME PeerTypes, NEW m \in aeArgs, AcceptAppend(m)
      PROVE  Quiet
  <2> USE <1>AcceptTypes
  <2> DEFINE i == m.to
             base == m.prevLogIndex - lastIncludedIndex[i]
             n == Len(m.entries)
             lastNew == m.prevLogIndex + n
             newCommit == IF m.leaderCommit < lastNew THEN m.leaderCommit ELSE lastNew
  <2>1. IsAppend(m) /\ IsCall(m)
    BY Zenon DEF PeerTypes, NetTypes, IsAppend
  <2>2. /\ FollowLeader(i, m.term) /\ InLog(i, m.prevLogIndex)
        /\ commitIndex' = [commitIndex EXCEPT ![i] = IF newCommit > @ THEN newCommit ELSE @]
        /\ AnswerAppend(m, m.term, TRUE, 0, 0)
        /\ UNCHANGED <<lastIncludedIndex, lastApplied, leaderVars, rvNet, aeArgs, isNet>>
    BY Zenon DEF AcceptAppend
  <2>3. PICK kept \in 0..n :
          /\ \A k \in 1..kept : base + k <= Len(log[i])
          /\ log' = [log EXCEPT ![i] = Merged(@, base, kept, m.entries)]
          /\ PersistIf(m.term > currentTerm[i] \/ kept < n, i)
    BY Zenon DEF AcceptAppend
  <2>4. i \in Server /\ log[i] \in Seq(Entry) /\ m.entries \in Seq(Entry) /\ m.term \in Nat
    BY Zenon, <2>1 DEF IsAppend, IsCall, PeerTypes, LocalTypes
  <2>5. base \in Nat /\ base <= Len(log[i]) /\ n \in Nat
    <3>1. n \in Nat /\ Len(log[i]) \in Nat
      BY <2>4
    <3>2. lastIncludedIndex[i] \in Nat /\ m.prevLogIndex \in Nat
      BY Zenon, <2>1, <2>4 DEF IsAppend, PeerTypes, LocalTypes
    <3>3. QED
      BY <2>2, <3>1, <3>2 DEF InLog, LastLogIndex
  <2>6. base + kept <= Len(log[i])
    BY <2>3, <2>5
  <2>7. newCommit \in Nat
    BY SMTT(30), <2>1, <2>5 DEF IsAppend
  <2> HIDE DEF base, newCommit
  <2>8. Merged(log[i], base, kept, m.entries) \in Seq(Entry)
    BY Zenon, <2>3, <2>4, <2>5, <2>6, <1>MergedType
  <2>9. log' \in [Server -> Seq(Entry)]
    BY <2>3, <2>4, <2>8 DEF PeerTypes, LocalTypes
  <2>10. commitIndex' \in [Server -> Nat]
    BY <2>2, <2>4, <2>7 DEF PeerTypes, LocalTypes
  <2>11. LocalTypes'
    BY Zenon, <2>2, <2>4, <2>9, <2>10, <1>FollowTypes DEF PeerTypes, LocalTypes
  <2>12. DiskTypes'
    BY Zenon, <2>3, <2>4, <2>11, <1>PersistTypes DEF PeerTypes
  <2>13. NetTypes'
    <3>1. 0 \in Int
      OBVIOUS
    <3>2. QED
      BY Zenon, <2>2, <2>4, <3>1, <1>AnswerTypes DEF PeerTypes
  <2>14. QED
    BY Zenon, <2>2, <2>11, <2>12, <2>13 DEF PeerTypes, LeaderTypes, leaderVars, Quiet
\* The leader learns from a reply what the peer has.
<1>PeerProgress. ASSUME PeerTypes, NEW i \in Server, NEW j \in Server, NEW next \in Int, NEW match \in Int,
             \/ matchIndex' = [matchIndex EXCEPT ![i][j] = match]
             \/ UNCHANGED matchIndex,
             nextIndex' = [nextIndex EXCEPT ![i][j] = next]
      PROVE  LeaderTypes'
BY <1>PeerProgress DEF PeerTypes, LeaderTypes
\* Where fast backup sends the leader is an index.
<1>BackupType. ASSUME PeerTypes, NEW r \in aeReplies
      PROVE  \A next \in BackupIndex(r.to, r) : next \in Int
  <2> USE <1>BackupType
  <2>1. r.conflictIndex \in Int /\ lastIncludedIndex[r.to] \in Nat /\ log[r.to] \in Seq(Entry)
    BY Zenon DEF PeerTypes, NetTypes, LocalTypes, IsAppendReply, IsCall
  <2>2. \A k \in DOMAIN log[r.to] : lastIncludedIndex[r.to] + k + 1 \in Int
    BY <2>1
  <2>3. QED
    BY Zenon, <2>1, <2>2 DEF BackupIndex
\* What a leader believes of the others after any reply.
<1>LeaderReplyTypes. ASSUME PeerTypes,
             \/ \E r \in aeReplies : AppendSucceeded(r) \/ AppendRefused(r)
             \/ \E r \in isReplies : SnapshotInstalled(r)
             \/ \E r \in aeReplies \cup isReplies : LeaderReplyNewTerm(r)
      PROVE  LeaderTypes'
  <2> USE <1>LeaderReplyTypes
  <2>1. ASSUME NEW r \in aeReplies, AppendSucceeded(r)
        PROVE  LeaderTypes'
    <3> DEFINE matched == Matched(r.to, r)
    <3>1. r.to \in Server /\ r.from \in Server
      BY Zenon DEF PeerTypes, NetTypes, IsAppendReply, IsCall
    <3>2. matched \in Int /\ matched + 1 \in Int
      BY DEF PeerTypes, NetTypes, IsAppendReply, Matched
    <3>3. /\ matchIndex' = [matchIndex EXCEPT ![r.to][r.from] = matched]
          /\ nextIndex' = [nextIndex EXCEPT ![r.to][r.from] = matched + 1]
      BY Zenon, <2>1 DEF AppendSucceeded
    <3> HIDE DEF matched
    <3>4. QED
      BY Zenon, <3>1, <3>2, <3>3, <1>PeerProgress
  <2>2. ASSUME NEW r \in aeReplies, AppendRefused(r)
        PROVE  LeaderTypes'
    <3>1. r.to \in Server /\ r.from \in Server /\ UNCHANGED matchIndex
      BY Zenon, <2>2 DEF PeerTypes, NetTypes, IsAppendReply, IsCall, AppendRefused
    <3>2. PICK next \in BackupIndex(r.to, r) :
            nextIndex' = [nextIndex EXCEPT ![r.to][r.from] = next]
      BY Zenon, <2>2 DEF AppendRefused
    <3>3. next \in Int /\ 0 \in Int
      BY <1>BackupType
    <3>4. QED
      BY Zenon, <3>1, <3>2, <3>3, <1>PeerProgress
  <2>3. ASSUME NEW r \in isReplies, SnapshotInstalled(r)
        PROVE  LeaderTypes'
    <3> DEFINE i == r.to
               match == IF matchIndex[i][r.from] < r.lastIncludedIndex
                        THEN r.lastIncludedIndex ELSE matchIndex[i][r.from]
    <3>1. i \in Server /\ r.from \in Server /\ r.lastIncludedIndex \in Nat
      BY Zenon DEF PeerTypes, NetTypes, IsInstall, IsCall
    <3>2. match \in Int /\ match + 1 \in Int
      BY <3>1 DEF PeerTypes, LeaderTypes
    <3>3. /\ matchIndex' = [matchIndex EXCEPT ![i][r.from] = match]
          /\ nextIndex' = [nextIndex EXCEPT ![i][r.from] = match + 1]
      BY Zenon, <2>3 DEF SnapshotInstalled
    <3> HIDE DEF i, match
    <3>4. QED
      BY Zenon, <3>1, <3>2, <3>3, <1>PeerProgress
  <2>4. ASSUME NEW r \in aeReplies \cup isReplies, LeaderReplyNewTerm(r)
        PROVE  LeaderTypes'
    BY Zenon, <2>4 DEF LeaderReplyNewTerm, leaderVars, PeerTypes, LeaderTypes
  <2>5. QED
    BY Zenon, <2>1, <2>2, <2>3, <2>4
\* The leader gets a reply.
<1>ReplyTypes. ASSUME PeerTypes, NEW r \in aeReplies \cup isReplies, LeaderTypes',
             LeaderReplyNewTerm(r) \/ AppendSucceeded(r) \/ AppendRefused(r) \/ SnapshotInstalled(r)
      PROVE  Quiet
  <2> USE <1>ReplyTypes
  <2>1. IsCall(r)
    BY Zenon DEF PeerTypes, NetTypes, IsAppendReply, IsInstall
  <2>2. UNCHANGED <<log, lastIncludedIndex, lastApplied>>
    BY Zenon DEF LeaderReplyNewTerm, AppendSucceeded, AppendRefused, SnapshotInstalled, StepDown,
       logVars, applyVars
  <2>3. currentTerm' \in [Server -> Nat]
    BY Zenon, <2>1 DEF LeaderReplyNewTerm, AppendSucceeded, AppendRefused, SnapshotInstalled, StepDown,
       electionVars, PeerTypes, LocalTypes, IsCall
  <2>4. commitIndex' \in [Server -> Nat]
    <3>1. CASE AppendSucceeded(r)
      <4>1. \/ UNCHANGED commitIndex
            \/ \E N \in commitIndex[r.to] + 1 .. LastLogIndex(r.to) :
                 commitIndex' = [commitIndex EXCEPT ![r.to] = N]
        BY Zenon, <3>1 DEF AppendSucceeded, UpdateCommitIndex
      <4>2. commitIndex[r.to] \in Nat /\ LastLogIndex(r.to) \in Int
        BY <2>1 DEF PeerTypes, LocalTypes, LastLogIndex, IsCall
      <4>3. \A N \in commitIndex[r.to] + 1 .. LastLogIndex(r.to) : N \in Nat
        BY <4>2
      <4>4. QED
        BY Zenon, <4>1, <4>3 DEF PeerTypes, LocalTypes
    <3>2. CASE ~AppendSucceeded(r)
      BY Zenon, <3>2 DEF LeaderReplyNewTerm, AppendRefused, SnapshotInstalled, PeerTypes, LocalTypes,
         applyVars
    <3>3. QED
      BY Zenon, <3>1, <3>2
  <2>5. LocalTypes'
    BY Zenon, <2>2, <2>3, <2>4 DEF PeerTypes, LocalTypes
  <2>6. DiskTypes'
    BY Zenon, <2>1, <2>5, <1>PersistTypes
       DEF PeerTypes, IsCall, LeaderReplyNewTerm, AppendSucceeded, AppendRefused, SnapshotInstalled,
           StepDown
  <2>7. UNCHANGED <<rvNet, aeNet, isNet>>
    BY Zenon DEF LeaderReplyNewTerm, AppendSucceeded, AppendRefused, SnapshotInstalled
  <2>8. NetTypes'
    BY Zenon, <2>7 DEF PeerTypes, NetTypes, rvNet, aeNet, isNet
  <2>9. QED
    BY Zenon, <2>2, <2>5, <2>6, <2>8 DEF PeerTypes, Quiet
\* The network loses a message.
<1>LoseTypes. ASSUME PeerTypes, Lose
      PROVE  Quiet
  <2> USE <1>LoseTypes
  <2>1. /\ UNCHANGED <<currentTerm, log, lastIncludedIndex, commitIndex, lastApplied, persister>>
        /\ UNCHANGED <<nextIndex, matchIndex>>
    BY Zenon DEF Lose, electionVars, logVars, applyVars, leaderVars
  <2>2. LocalTypes' /\ LeaderTypes' /\ DiskTypes'
    BY Zenon, <2>1 DEF PeerTypes, LocalTypes, LeaderTypes, DiskTypes
  <2>3. /\ rvArgs' \subseteq rvArgs /\ rvReplies' \subseteq rvReplies
        /\ aeArgs' \subseteq aeArgs /\ aeReplies' \subseteq aeReplies
        /\ isArgs' \subseteq isArgs /\ isReplies' \subseteq isReplies
    BY Zenon DEF Lose, rvNet, aeNet, isNet
  <2>4. NetTypes'
    BY Zenon, <2>3 DEF PeerTypes, NetTypes
  <2>5. QED
    BY Zenon, <2>1, <2>2, <2>4 DEF PeerTypes, Quiet
\* The answer to InstallSnapshot.
<1>AnswerSnapshotTypes. ASSUME PeerTypes, NEW m \in isArgs, AnswerSnapshot(m), UNCHANGED <<rvNet, aeNet, isArgs>>
      PROVE  NetTypes'
  <2> USE <1>AnswerSnapshotTypes
  <2>1. IsInstall(m) /\ currentTerm[m.to] \in Nat
    BY Zenon DEF PeerTypes, NetTypes, IsInstall, IsCall, LocalTypes
  <2>2. \A r \in isReplies' : IsInstall(r)
    BY <2>1 DEF AnswerSnapshot, IsInstall, IsCall, PeerTypes, NetTypes
  <2>3. UNCHANGED <<rvArgs, rvReplies, aeArgs, aeReplies, isArgs>>
    BY Zenon DEF rvNet, aeNet
  <2>4. QED
    BY Zenon, <2>2, <2>3 DEF PeerTypes, NetTypes
\* A peer refuses or ignores a snapshot.
<1>IgnoreTypes. ASSUME PeerTypes, NEW m \in isArgs, RejectSnapshot(m) \/ IgnoreSnapshot(m)
      PROVE  Quiet
  <2> USE <1>IgnoreTypes
  <2>1. IsCall(m) /\ UNCHANGED <<log, lastIncludedIndex, commitIndex, lastApplied>>
    BY Zenon DEF PeerTypes, NetTypes, IsInstall, RejectSnapshot, IgnoreSnapshot, logVars, applyVars
  <2>2. UNCHANGED currentTerm \/ FollowLeader(m.to, m.term)
    BY Zenon DEF RejectSnapshot, IgnoreSnapshot, electionVars
  <2>3. LocalTypes'
    BY Zenon, <2>1, <2>2, <1>FollowTypes DEF PeerTypes, LocalTypes, IsCall
  <2>4. DiskTypes'
    BY Zenon, <2>1, <2>3, <1>PersistTypes DEF PeerTypes, RejectSnapshot, IgnoreSnapshot, IsCall
  <2>5. NetTypes'
    BY Zenon, <1>AnswerSnapshotTypes DEF RejectSnapshot, IgnoreSnapshot
  <2>6. LeaderTypes'
    BY Zenon DEF RejectSnapshot, IgnoreSnapshot, leaderVars, PeerTypes, LeaderTypes
  <2>7. QED
    BY Zenon, <2>1, <2>3, <2>4, <2>5, <2>6 DEF PeerTypes, Quiet
\* What AdvanceTo does.
<1>Advanced. ASSUME PeerTypes, NEW i \in Server, NEW index \in Nat, AdvanceTo(i, index)
      PROVE  /\ commitIndex' \in [Server -> Nat] /\ lastApplied' \in [Server -> Nat]
             /\ index <= lastApplied'[i] /\ lastApplied[i] <= lastApplied'[i]
             /\ \A j \in Server \ {i} : lastApplied'[j] = lastApplied[j]
BY <1>Advanced DEF PeerTypes, LocalTypes, AdvanceTo
\* InstallSnapshot accepts.
<1>InstallTypes. ASSUME PeerTypes, NEW m \in isArgs, AcceptSnapshot(m)
      PROVE  Compacts(m.to, m.lastIncludedIndex)
  <2> USE <1>InstallTypes
  <2> DEFINE i == m.to
             index == m.lastIncludedIndex
  <2>1. i \in Server /\ index \in Nat /\ m.term \in Nat
    BY Zenon DEF PeerTypes, NetTypes, IsInstall, IsCall
  <2>2. /\ FollowLeader(i, m.term) /\ index > lastIncludedIndex[i]
        /\ log' = [log EXCEPT ![i] = IF HoldsEntry(i, index, m.lastIncludedTerm)
                                     THEN EntriesFrom(i, index + 1) ELSE <<>>]
        /\ lastIncludedIndex' = [lastIncludedIndex EXCEPT ![i] = index]
        /\ AdvanceTo(i, index) /\ AnswerSnapshot(m)
        /\ UNCHANGED <<leaderVars, rvNet, aeNet, isArgs>> /\ Save(i, m.data)
    BY Zenon DEF AcceptSnapshot
  <2> HIDE DEF i, index
  <2>3. EntriesFrom(i, index + 1) \in Seq(Entry)
    <3>1. index + 1 \in Nat /\ index + 1 > lastIncludedIndex[i]
      BY <2>1, <2>2 DEF PeerTypes, LocalTypes
    <3>2. QED
      BY Zenon, <2>1, <3>1, <1>EntriesType DEF PeerTypes
  <2>4. log' \in [Server -> Seq(Entry)]
    BY <2>1, <2>2, <2>3 DEF PeerTypes, LocalTypes
  <2>5. /\ commitIndex' \in [Server -> Nat] /\ lastApplied' \in [Server -> Nat]
        /\ index <= lastApplied'[i] /\ lastApplied[i] <= lastApplied'[i]
        /\ \A j \in Server \ {i} : lastApplied'[j] = lastApplied[j]
    BY Zenon, <2>1, <2>2, <1>Advanced
  <2>6. LocalTypes'
    BY Zenon, <2>1, <2>2, <2>4, <2>5, <1>FollowTypes DEF PeerTypes, LocalTypes
  <2>7. DiskTypes'
    BY Zenon, <2>1, <2>2, <2>6, <1>SaveTypes DEF PeerTypes
  <2>8. NetTypes'
    BY Zenon, <2>2, <1>AnswerSnapshotTypes
  <2>9. LeaderTypes'
    BY Zenon, <2>2 DEF PeerTypes, LeaderTypes, leaderVars
  <2>10. QED
    BY Zenon, <2>2, <2>5, <2>6, <2>7, <2>8, <2>9 DEF PeerTypes, Compacts, i, index
\* Snapshot is called.
<1>SnapshotTypes. ASSUME PeerTypes, NEW i \in Server, NEW index \in Nat, NEW data, Snapshot(i, index, data)
      PROVE  Compacts(i, index)
  <2> USE <1>SnapshotTypes
  <2>1. /\ index > lastIncludedIndex[i]
        /\ log' = [log EXCEPT ![i] = EntriesFrom(i, index + 1)]
        /\ lastIncludedIndex' = [lastIncludedIndex EXCEPT ![i] = index]
        /\ AdvanceTo(i, index) /\ Save(i, data)
        /\ UNCHANGED <<currentTerm, leaderVars, rvNet, aeNet, isNet>>
    BY Zenon DEF Snapshot, electionVars
  <2>2. EntriesFrom(i, index + 1) \in Seq(Entry)
    BY <2>1, <1>EntriesType DEF PeerTypes, LocalTypes
  <2>3. /\ commitIndex' \in [Server -> Nat] /\ lastApplied' \in [Server -> Nat]
        /\ index <= lastApplied'[i] /\ lastApplied[i] <= lastApplied'[i]
        /\ \A j \in Server \ {i} : lastApplied'[j] = lastApplied[j]
    BY Zenon, <2>1, <1>Advanced
  <2>4. LocalTypes'
    BY Zenon, <2>1, <2>2, <2>3 DEF PeerTypes, LocalTypes
  <2>5. DiskTypes'
    BY Zenon, <2>1, <2>4, <1>SaveTypes DEF PeerTypes
  <2>6. NetTypes' /\ LeaderTypes'
    BY Zenon, <2>1 DEF PeerTypes, NetTypes, LeaderTypes, leaderVars, rvNet, aeNet, isNet
  <2>7. QED
    BY Zenon, <2>1, <2>3, <2>4, <2>5, <2>6 DEF PeerTypes, Compacts
\* A peer starts again with what is on its disk.
<1>MakeTypes. ASSUME PeerTypes, NEW i \in Server, NEW saved, IsSaved(saved), Make(i, saved), DiskTypes', NetTypes'
      PROVE  /\ PeerTypes'
             /\ lastIncludedIndex' = [lastIncludedIndex EXCEPT ![i] = saved.lastIncludedIndex]
             /\ lastApplied' = [lastApplied EXCEPT ![i] = saved.lastIncludedIndex]
  <2> USE <1>MakeTypes
  <2>1. LocalTypes'
    BY DEF PeerTypes, LocalTypes, Make, IsSaved
  <2>2. LeaderTypes'
    BY DEF PeerTypes, LeaderTypes, Make
  <2>3. QED
    BY Zenon, <2>1, <2>2 DEF PeerTypes, Make
\* Whether between two critical sections or in a handler.
<1>CrashTypes. ASSUME PeerTypes, NEW i \in Server,
             Restart(i) \/ \E m \in rvArgs \cup aeArgs \cup isArgs : CrashInHandler(m) /\ m.to = i
      PROVE  LET index == persister[i].lastIncludedIndex
             IN  /\ PeerTypes' /\ index \in Nat
                 /\ lastIncludedIndex' = [lastIncludedIndex EXCEPT ![i] = index]
                 /\ lastApplied' = [lastApplied EXCEPT ![i] = index]
  <2> USE <1>CrashTypes
  <2>0. IsSaved(persister[i]) /\ persister[i].lastIncludedIndex \in Nat
    BY Zenon DEF PeerTypes, DiskTypes, IsSaved
  <2>1. CASE Restart(i)
    <3>1. Make(i, persister[i]) /\ UNCHANGED <<persister, rvNet, aeNet, isNet>>
      BY Zenon, <2>1 DEF Restart
    <3>2. DiskTypes' /\ NetTypes'
      BY Zenon, <3>1 DEF PeerTypes, DiskTypes, NetTypes, rvNet, aeNet, isNet
    <3>3. QED
      BY Zenon, <2>0, <3>1, <3>2, <1>MakeTypes
  <2>2. ASSUME NEW m \in rvArgs \cup aeArgs \cup isArgs, CrashInHandler(m), m.to = i
        PROVE  LET index == persister[i].lastIncludedIndex
               IN  /\ PeerTypes' /\ index \in Nat
                   /\ lastIncludedIndex' = [lastIncludedIndex EXCEPT ![i] = index]
                   /\ lastApplied' = [lastApplied EXCEPT ![i] = index]
    <3> DEFINE saved == [persister[i] EXCEPT !.currentTerm = m.term, !.votedFor = Nil]
    <3>1. m.term \in Nat
      BY Zenon, <2>2 DEF PeerTypes, NetTypes, IsAppend, IsInstall, IsCall
    <3>2. IsSaved(saved) /\ saved.lastIncludedIndex = persister[i].lastIncludedIndex
      BY <2>0, <3>1 DEF IsSaved
    <3>3. /\ persister' = [persister EXCEPT ![i] = saved] /\ Make(i, saved)
          /\ rvArgs' = rvArgs \ {m} /\ UNCHANGED <<rvReplies, aeNet, isNet>>
      BY Zenon, <2>2 DEF CrashInHandler
    <3> HIDE DEF saved
    <3>4. DiskTypes'
      BY Zenon, <3>2, <3>3 DEF PeerTypes, DiskTypes
    <3>5. NetTypes'
      BY Zenon, <3>3 DEF PeerTypes, NetTypes, aeNet, isNet
    <3>6. /\ PeerTypes'
          /\ lastIncludedIndex' = [lastIncludedIndex EXCEPT ![i] = saved.lastIncludedIndex]
          /\ lastApplied' = [lastApplied EXCEPT ![i] = saved.lastIncludedIndex]
      BY Zenon, <3>2, <3>3, <3>4, <3>5, <1>MakeTypes
    <3>7. QED
      BY Zenon, <2>0, <3>2, <3>6
  <2>3. QED
    BY Zenon, <2>1, <2>2
\* Such a step keeps what holds of the peer.
<1>LeftInv. ASSUME NEW i \in Server, Behind(i), InStep(i), Leaves(i)
      PROVE  Behind(i)' /\ InStep(i)'
BY <1>LeftInv, Zenon DEF Behind, InStep, Uncompacted, Leaves
\* A step of the peers alone that is quiet.
<1>QuietInv. ASSUME ApplyInv, Quiet, UNCHANGED serviceVars
      PROVE  ApplyInv'
  <2> USE <1>QuietInv
  <2>1. UNCHANGED <<outbox, snapshotMsgs, serviceIndex>>
    BY Zenon DEF serviceVars
  <2>2. ServiceTypes'
    BY Zenon, <2>1 DEF ApplyInv, ServiceTypes
  <2>3. ASSUME NEW i \in Server
        PROVE  Behind(i)' /\ InStep(i)'
    <3>1. Leaves(i)
      BY Zenon, <2>1 DEF Leaves, Quiet
    <3>2. QED
      BY Zenon, <3>1, <1>LeftInv DEF ApplyInv
  <2>4. QED
    BY Zenon, <2>2, <2>3 DEF ApplyInv, Quiet
\* A snapshot moves lastApplied past what it covers, and may be under way in applyCh.
<1>CompactsInv. ASSUME ApplyInv, NEW i \in Server, NEW index \in Nat, Compacts(i, index),
             UNCHANGED <<outbox, serviceIndex>>, DOMAIN snapshotMsgs' = Server,
             \A j \in Server \ {i} : snapshotMsgs'[j] = snapshotMsgs[j],
             \A s \in snapshotMsgs'[i] : s \in snapshotMsgs[i] \/ s.index = index
      PROVE  ApplyInv'
  <2> USE <1>CompactsInv
  <2>1. ServiceTypes'
    BY Zenon DEF ApplyInv, ServiceTypes
  <2>2. ASSUME NEW j \in Server \ {i}
        PROVE  Behind(j)' /\ InStep(j)'
    <3>1. lastIncludedIndex'[j] = lastIncludedIndex[j]
      BY Zenon DEF Compacts, ApplyInv, PeerTypes, LocalTypes
    <3>2. Leaves(j)
      BY Zenon, <3>1 DEF Leaves, Compacts
    <3>3. QED
      BY Zenon, <3>2, <1>LeftInv DEF ApplyInv
  <2>3. Behind(i)' /\ InStep(i)'
    <3>1. /\ lastIncludedIndex[i] \in Nat /\ lastApplied[i] \in Nat /\ lastApplied'[i] \in Nat
          /\ serviceIndex[i] \in Nat
      BY Zenon DEF Compacts, ApplyInv, PeerTypes, LocalTypes, ServiceTypes
    <3>2. /\ lastIncludedIndex'[i] = index /\ index > lastIncludedIndex[i]
          /\ index <= lastApplied'[i] /\ lastApplied[i] <= lastApplied'[i]
      BY Zenon DEF Compacts, ApplyInv, PeerTypes, LocalTypes
    <3>3. Behind(i)
      BY Zenon DEF ApplyInv
    <3>4. serviceIndex'[i] <= lastApplied'[i]
      BY SMTT(30), <3>1, <3>2, <3>3 DEF Behind
    <3>5. \A x \in DOMAIN outbox'[i] :
            outbox'[i][x].index \in Nat /\ outbox'[i][x].index <= lastApplied'[i]
      BY SMTT(30), <3>1, <3>2, <3>3 DEF Behind
    <3>6. \A s \in snapshotMsgs'[i] : s.index \in 1..index
      BY <3>1, <3>2, <3>3 DEF Behind
    <3>7. ~Uncompacted(i)'
      BY <3>1, <3>2 DEF Uncompacted
    <3>8. QED
      BY Zenon, <3>2, <3>4, <3>5, <3>6, <3>7 DEF Behind, InStep
  <2>4. QED
    BY Zenon, <2>1, <2>2, <2>3 DEF ApplyInv, Compacts
\* Only peer i's service moves, and applierLoop hands out what is committed.
<1>OneServiceInv. ASSUME ApplyInv, PeerTypes', ServiceTypes', NEW i \in Server,
             \A j \in Server \ {i} : Leaves(j), Behind(i)', InStep(i)'
      PROVE  ApplyInv'
BY <1>OneServiceInv, Zenon, <1>LeftInv DEF ApplyInv
\* applierLoop collects a batch.
<1>CollectInv. ASSUME ApplyInv, NEW i \in Server, CollectBatch(i)
      PROVE  ApplyInv'
  <2> USE <1>CollectInv
  <2> DEFINE la == lastApplied[i]
             n == commitIndex[i] - lastApplied[i]
             batch == [x \in 1..n |->
                         [index |-> lastApplied[i] + x,
                          command |-> log[i][lastApplied[i] + x - lastIncludedIndex[i]].command]]
  <2>1. /\ outbox[i] = <<>> /\ outbox' = [outbox EXCEPT ![i] = batch]
        /\ lastApplied[i] < commitIndex[i]
        /\ lastApplied' = [lastApplied EXCEPT ![i] = commitIndex[i]]
        /\ UNCHANGED <<snapshotMsgs, serviceIndex>>
    BY Zenon DEF CollectBatch, ApplierLoop
  <2>2. /\ UNCHANGED <<currentTerm, log, lastIncludedIndex, commitIndex, nextIndex, matchIndex>>
        /\ UNCHANGED <<persister, rvArgs, rvReplies, aeArgs, aeReplies, isArgs, isReplies>>
    BY Zenon DEF CollectBatch, ApplierLoop, electionVars, logVars, leaderVars, rvNet, aeNet, isNet
  <2>3. la \in Nat /\ commitIndex[i] \in Nat /\ serviceIndex[i] \in Nat /\ lastIncludedIndex[i] \in Nat
    BY Zenon DEF ApplyInv, PeerTypes, LocalTypes, ServiceTypes
  <2>4. n \in Nat
    BY <2>1, <2>3
  <2>5. IsBatch(batch) /\ Len(batch) = n /\ DOMAIN batch = 1..n
    <3> DEFINE S == {batch[x] : x \in 1..n}
    <3>1. batch \in Seq(S)
      BY SMTT(30), <2>4
    <3>2. DOMAIN batch = 1..n /\ IsBatch(batch)
      BY Zenon, <3>1 DEF IsBatch
    <3> HIDE DEF batch
    <3>3. Len(batch) \in Nat /\ DOMAIN batch = 1..Len(batch)
      BY SMTT(30), <3>1
    <3> HIDE DEF n, S
    <3>4. QED
      BY SMTT(30), <2>4, <3>2, <3>3
  <2>6. \A x \in 1..n : batch[x].index = la + x
    OBVIOUS
  <2> HIDE DEF batch
  <2>7. PeerTypes'
    <3>1. LocalTypes'
      BY Zenon, <2>1, <2>2, <2>3 DEF ApplyInv, PeerTypes, LocalTypes
    <3>2. LeaderTypes' /\ DiskTypes' /\ NetTypes'
      BY Zenon, <2>2 DEF ApplyInv, PeerTypes, LeaderTypes, DiskTypes, NetTypes
    <3>3. QED
      BY Zenon, <3>1, <3>2 DEF PeerTypes
  <2>8. ServiceTypes'
    BY Zenon, <2>1, <2>5 DEF ApplyInv, ServiceTypes
  <2>9. \A j \in Server \ {i} : Leaves(j)
    BY Zenon, <2>1, <2>2 DEF Leaves, ApplyInv, PeerTypes, LocalTypes, ServiceTypes
  <2>10. lastApplied'[i] = commitIndex[i] /\ outbox'[i] = batch
    BY Zenon, <2>1 DEF ApplyInv, PeerTypes, LocalTypes, ServiceTypes
  <2>11. Behind(i) /\ InStep(i)
    BY Zenon DEF ApplyInv
  <2>12. Behind(i)'
    <3>1. lastIncludedIndex[i] <= commitIndex[i] /\ serviceIndex[i] <= commitIndex[i]
      BY SMTT(30), <2>1, <2>3, <2>11 DEF Behind
    <3>2. \A x \in DOMAIN batch : batch[x].index \in Nat /\ batch[x].index <= commitIndex[i]
      BY SMTT(30), <2>3, <2>5, <2>6
    <3>3. QED
      BY ZenonT(40), <2>1, <2>2, <2>10, <2>11, <3>1, <3>2 DEF Behind
  <2>13. InStep(i)'
    <3>1. SUFFICES ASSUME Uncompacted(i)
                   PROVE  /\ serviceIndex[i] + Len(batch) = commitIndex[i]
                          /\ \A x \in DOMAIN batch : batch[x].index = serviceIndex[i] + x
      BY Zenon, <2>1, <2>2, <2>10 DEF InStep, Uncompacted
    <3>2. serviceIndex[i] = la
      BY SMTT(30), <2>1, <2>3, <2>11, <3>1 DEF InStep
    <3>3. QED
      BY <2>3, <2>5, <2>6, <3>2
  <2>14. QED
    BY Zenon, <2>7, <2>8, <2>9, <2>12, <2>13, <1>OneServiceInv
\* The service reads a command.
<1>ReadInv. ASSUME ApplyInv, NEW i \in Server, ReadCommand(i)
      PROVE  ApplyInv'
  <2> USE <1>ReadInv
  <2> DEFINE first == Head(outbox[i]).index
  <2>1. /\ outbox[i] # <<>> /\ serviceIndex' = [serviceIndex EXCEPT ![i] = first]
        /\ outbox' = [outbox EXCEPT ![i] = Tail(@)]
        /\ UNCHANGED <<vars, snapshotMsgs>>
    BY Zenon DEF ReadCommand
  <2>2. /\ UNCHANGED <<currentTerm, log, lastIncludedIndex, commitIndex, nextIndex, matchIndex>>
        /\ UNCHANGED <<persister, rvArgs, rvReplies, aeArgs, aeReplies, isArgs, isReplies>>
        /\ UNCHANGED lastApplied
    BY Zenon, <2>1 DEF vars, electionVars, logVars, applyVars, leaderVars, rvNet, aeNet, isNet
  <2>3. PeerTypes'
    BY Zenon, <2>2 DEF ApplyInv, PeerTypes, LocalTypes, LeaderTypes, DiskTypes, NetTypes
  <2>4. Behind(i) /\ InStep(i) /\ serviceIndex[i] \in Nat
    BY Zenon DEF ApplyInv, ServiceTypes
  <2>5. first \in Nat /\ first <= lastApplied[i]
    BY Zenon, <2>1, <2>4, FirstMessage DEF Behind
  <2>6. ServiceTypes'
    BY Zenon, <2>1, <2>5, FirstMessage DEF ApplyInv, ServiceTypes
  <2>7. \A j \in Server \ {i} : Leaves(j)
    BY Zenon, <2>1, <2>2 DEF Leaves, ApplyInv, ServiceTypes
  <2>8. serviceIndex'[i] = first /\ outbox'[i] = Tail(outbox[i])
    BY Zenon, <2>1 DEF ApplyInv, ServiceTypes
  <2> HIDE DEF first
  <2>9. \A x \in DOMAIN Tail(outbox[i]) :
          x + 1 \in DOMAIN outbox[i] /\ Tail(outbox[i])[x] = outbox[i][x + 1]
    BY <2>1, FirstMessage
  <2>10. Behind(i)'
    BY Zenon, <2>1, <2>2, <2>4, <2>5, <2>8, <2>9 DEF Behind
  <2>11. InStep(i)'
    <3>1. SUFFICES ASSUME Uncompacted(i)
                   PROVE  /\ first + Len(Tail(outbox[i])) = lastApplied[i]
                          /\ \A x \in DOMAIN Tail(outbox[i]) : Tail(outbox[i])[x].index = first + x
      BY Zenon, <2>2, <2>8 DEF InStep, Uncompacted
    <3>2. first = serviceIndex[i] + 1
      BY Zenon, <2>8, <3>1, NextInLine
    <3>3. serviceIndex[i] + Len(outbox[i]) = lastApplied[i]
      BY Zenon, <2>4, <3>1 DEF InStep
    <3>4. Len(Tail(outbox[i])) = Len(outbox[i]) - 1 /\ Len(outbox[i]) \in Nat
      BY Zenon, <2>1, FirstMessage
    <3>5. first + Len(Tail(outbox[i])) = lastApplied[i]
      BY <2>4, <3>2, <3>3, <3>4
    <3>6. ASSUME NEW x \in DOMAIN Tail(outbox[i])
          PROVE  Tail(outbox[i])[x].index = first + x
      <4>1. Tail(outbox[i])[x].index = serviceIndex[i] + (x + 1)
        BY Zenon, <2>4, <2>9, <3>1 DEF InStep
      <4>2. x \in Nat
        <5>1. DOMAIN Tail(outbox[i]) = 1..Len(outbox[i]) - 1 /\ Len(outbox[i]) \in Nat
          BY Zenon, <2>1, FirstMessage
        <5>2. QED
          BY <5>1
      <4>3. serviceIndex[i] + (x + 1) = (serviceIndex[i] + 1) + x
        <5>1. serviceIndex[i] \in Nat
          BY Zenon, <2>4
        <5>2. QED
          BY SMTT(30), <4>2, <5>1
      <4>4. QED
        BY Zenon, <3>2, <4>1, <4>3
    <3>7. QED
      BY Zenon, <3>5, <3>6
  <2>12. QED
    BY Zenon, <2>3, <2>6, <2>7, <2>10, <2>11, <1>OneServiceInv
\* The service reads a snapshot.
<1>RestoreInv. ASSUME ApplyInv, NEW i \in Server, ReadSnapshot(i)
      PROVE  ApplyInv'
  <2> USE <1>RestoreInv
  <2>1. PICK s \in snapshotMsgs[i] :
          /\ serviceIndex' = [serviceIndex EXCEPT ![i] = s.index]
          /\ snapshotMsgs' = [snapshotMsgs EXCEPT ![i] = @ \ {s}]
          /\ UNCHANGED <<vars, outbox>>
    BY Zenon DEF ReadSnapshot
  <2>2. /\ UNCHANGED <<currentTerm, log, lastIncludedIndex, commitIndex, nextIndex, matchIndex>>
        /\ UNCHANGED <<persister, rvArgs, rvReplies, aeArgs, aeReplies, isArgs, isReplies>>
        /\ UNCHANGED lastApplied
    BY Zenon, <2>1 DEF vars, electionVars, logVars, applyVars, leaderVars, rvNet, aeNet, isNet
  <2>3. PeerTypes'
    BY Zenon, <2>2 DEF ApplyInv, PeerTypes, LocalTypes, LeaderTypes, DiskTypes, NetTypes
  <2>4. Behind(i) /\ lastIncludedIndex[i] \in Nat /\ lastApplied[i] \in Nat
    BY Zenon DEF ApplyInv, PeerTypes, LocalTypes
  <2>5. s.index \in Nat /\ s.index <= lastApplied[i] /\ lastIncludedIndex[i] # 0
    BY <2>4 DEF Behind
  <2>6. ServiceTypes'
    BY Zenon, <2>1, <2>5 DEF ApplyInv, ServiceTypes
  <2>7. \A j \in Server \ {i} : Leaves(j)
    BY Zenon, <2>1, <2>2 DEF Leaves, ApplyInv, ServiceTypes
  <2>8. serviceIndex'[i] = s.index /\ snapshotMsgs'[i] = snapshotMsgs[i] \ {s}
    BY Zenon, <2>1 DEF ApplyInv, ServiceTypes
  <2>9. Behind(i)'
    BY Zenon, <2>1, <2>2, <2>4, <2>5, <2>8 DEF Behind
  <2>10. InStep(i)'
    BY Zenon, <2>2, <2>5 DEF InStep, Uncompacted
  <2>11. QED
    BY Zenon, <2>3, <2>6, <2>7, <2>9, <2>10, <1>OneServiceInv
\* The service hands its state to Snapshot.
<1>ServiceSnapshotInv. ASSUME ApplyInv, NEW i \in Server, ServiceSnapshot(i)
      PROVE  ApplyInv'
  <2> USE <1>ServiceSnapshotInv
  <2>1. serviceIndex[i] \in Nat /\ UNCHANGED <<outbox, snapshotMsgs, serviceIndex>>
    BY Zenon DEF ApplyInv, ServiceTypes, ServiceSnapshot, serviceVars
  <2>2. Compacts(i, serviceIndex[i])
    BY Zenon, <2>1, <1>SnapshotTypes DEF ApplyInv, ServiceSnapshot
  <2>3. QED
    BY Zenon, <2>1, <2>2, <1>CompactsInv DEF ApplyInv, ServiceTypes
\* A leader's snapshot is refused, or installed and sent to the service.
<1>NotifyInv. ASSUME ApplyInv, NEW m \in isArgs, InstallAndNotify(m)
      PROVE  ApplyInv'
  <2> USE <1>NotifyInv
  <2>1. CASE RejectSnapshot(m) \/ IgnoreSnapshot(m)
    <3>1. Quiet
      BY Zenon, <2>1, <1>IgnoreTypes DEF ApplyInv
    <3>2. CASE UNCHANGED serviceVars
      BY Zenon, <3>1, <3>2, <1>QuietInv
    <3>3. CASE AcceptSnapshot(m)
      <4>1. m.lastIncludedIndex \in Nat /\ m.to \in Server
        BY Zenon DEF ApplyInv, PeerTypes, NetTypes, IsInstall, IsCall
      <4>2. Compacts(m.to, m.lastIncludedIndex)
        BY Zenon, <3>3, <1>InstallTypes DEF ApplyInv
      <4>3. lastIncludedIndex'[m.to] = m.lastIncludedIndex
        BY Zenon, <4>1, <4>2 DEF Compacts, ApplyInv, PeerTypes, LocalTypes
      <4>4. m.lastIncludedIndex > m.lastIncludedIndex
        BY Zenon, <3>1, <4>2, <4>3 DEF Compacts, Quiet
      <4>5. QED
        BY <4>1, <4>4
    <3>4. QED
      BY Zenon, <3>2, <3>3 DEF InstallAndNotify, serviceVars
  <2>2. CASE /\ AcceptSnapshot(m)
             /\ snapshotMsgs' = [snapshotMsgs EXCEPT ![m.to] =
                  @ \cup {[index |-> m.lastIncludedIndex, data |-> m.data]}]
    <3> DEFINE msg == [index |-> m.lastIncludedIndex, data |-> m.data]
    <3>1. m.lastIncludedIndex \in Nat /\ m.to \in Server
      BY Zenon DEF ApplyInv, PeerTypes, NetTypes, IsInstall, IsCall
    <3>2. Compacts(m.to, m.lastIncludedIndex)
      BY Zenon, <2>2, <1>InstallTypes DEF ApplyInv
    <3>3. msg.index = m.lastIncludedIndex
      BY Zenon
    <3>4. UNCHANGED <<outbox, serviceIndex>>
      BY Zenon DEF InstallAndNotify
    <3>5. snapshotMsgs' = [snapshotMsgs EXCEPT ![m.to] = @ \cup {msg}]
      BY Zenon, <2>2
    <3> HIDE DEF msg
    <3>6. /\ DOMAIN snapshotMsgs' = Server
          /\ \A j \in Server \ {m.to} : snapshotMsgs'[j] = snapshotMsgs[j]
          /\ \A s \in snapshotMsgs'[m.to] : s \in snapshotMsgs[m.to] \/ s.index = m.lastIncludedIndex
      BY Zenon, <3>1, <3>3, <3>5 DEF ApplyInv, ServiceTypes
    <3>7. QED
      BY Zenon, <3>1, <3>2, <3>4, <3>6, <1>CompactsInv
  <2>3. QED
    BY Zenon, <2>1, <2>2 DEF InstallAndNotify
\* A peer starts again, and with it its service.
<1>RestartInv. ASSUME ApplyInv, NEW i \in Server, StartService(i),
             Restart(i) \/ \E m \in rvArgs \cup aeArgs \cup isArgs : CrashInHandler(m) /\ m.to = i
      PROVE  ApplyInv'
  <2> USE <1>RestartInv
  <2> DEFINE index == persister[i].lastIncludedIndex
  <2>1. /\ PeerTypes' /\ index \in Nat
        /\ lastIncludedIndex' = [lastIncludedIndex EXCEPT ![i] = index]
        /\ lastApplied' = [lastApplied EXCEPT ![i] = index]
    BY Zenon, <1>CrashTypes DEF ApplyInv
  <2>2. /\ outbox' = [outbox EXCEPT ![i] = <<>>] /\ snapshotMsgs' = [snapshotMsgs EXCEPT ![i] = {}]
        /\ serviceIndex' = [serviceIndex EXCEPT ![i] = index]
    BY Zenon DEF StartService
  <2> HIDE DEF index
  <2>3. IsBatch(<<>>) /\ Len(<<>>) = 0 /\ DOMAIN <<>> = {}
    BY Zenon, EmptyBatch
  <2>4. ServiceTypes'
    BY Zenon, <2>1, <2>2, <2>3 DEF ApplyInv, ServiceTypes
  <2>5. \A j \in Server \ {i} : Leaves(j)
    BY Zenon, <2>1, <2>2 DEF Leaves, ApplyInv, ServiceTypes, PeerTypes, LocalTypes
  <2>6. /\ lastIncludedIndex'[i] = index /\ lastApplied'[i] = index /\ serviceIndex'[i] = index
        /\ outbox'[i] = <<>> /\ snapshotMsgs'[i] = {}
    BY Zenon, <2>1, <2>2 DEF ApplyInv, ServiceTypes, PeerTypes, LocalTypes
  <2>7. index <= index /\ index + 0 = index
    BY <2>1
  <2>8. Behind(i)' /\ InStep(i)'
    BY Zenon, <2>3, <2>6, <2>7 DEF Behind, InStep
  <2>9. QED
    BY Zenon, <2>1, <2>4, <2>5, <2>8, <1>OneServiceInv
<1> SUFFICES ASSUME ApplyInv, [ApplyNext]_allVars PROVE ApplyInv'
  BY Zenon
<1>0. PeerTypes
  BY Zenon DEF ApplyInv
<1>1. CASE Apply
  BY Zenon, <1>1, <1>CollectInv, <1>ReadInv, <1>RestoreInv, <1>ServiceSnapshotInv DEF Apply
<1>2. CASE CompactAndNotify
  <2>1. CASE \E m \in isArgs : InstallAndNotify(m)
    BY Zenon, <2>1, <1>NotifyInv
  <2>2. CASE (\E i, j \in Server : SendInstallSnapshot(i, j)) /\ UNCHANGED serviceVars
    BY Zenon, <1>0, <2>2, <1>SendTypes, <1>QuietInv
  <2>3. CASE /\ \E r \in isReplies : LeaderReplyNewTerm(r) \/ SnapshotInstalled(r)
             /\ UNCHANGED serviceVars
    <3>1. PICK r \in isReplies : LeaderReplyNewTerm(r) \/ SnapshotInstalled(r)
      BY Zenon, <2>3
    <3>2. LeaderTypes' /\ r \in aeReplies \cup isReplies
      BY Zenon, <1>0, <3>1, <1>LeaderReplyTypes
    <3>3. Quiet
      BY Zenon, <1>0, <3>1, <3>2, <1>ReplyTypes
    <3>4. QED
      BY Zenon, <2>3, <3>3, <1>QuietInv
  <2>4. QED
    BY Zenon, <1>2, <2>1, <2>2, <2>3 DEF CompactAndNotify
<1>3. CASE RestartAll
  <2>1. ASSUME NEW m \in rvArgs \cup aeArgs \cup isArgs
        PROVE  m.to \in Server
    BY Zenon, <1>0 DEF PeerTypes, NetTypes, IsAppend, IsInstall, IsCall
  <2>2. QED
    BY Zenon, <1>3, <2>1, <1>RestartInv DEF RestartAll
<1>4. CASE (Elect \/ Replicate \/ Lose) /\ UNCHANGED serviceVars
  <2>1. CASE Elect
    BY Zenon, <1>0, <1>4, <2>1, <1>ElectTypes, <1>QuietInv
  <2>2. CASE Lose
    BY Zenon, <1>0, <1>4, <2>2, <1>LoseTypes, <1>QuietInv
  <2>3. CASE Replicate
    <3>1. CASE \E i \in Server, command \in Command : Start(i, command)
      BY Zenon, <1>0, <1>4, <3>1, <1>StartTypes, <1>QuietInv
    <3>2. CASE \E i, j \in Server : SendAppendEntries(i, j)
      BY Zenon, <1>0, <1>4, <3>2, <1>SendTypes, <1>QuietInv
    <3>3. CASE \E m \in aeArgs : AppendEntries(m)
      BY Zenon, <1>0, <1>4, <3>3, <1>RefuseTypes, <1>AcceptTypes, <1>QuietInv DEF AppendEntries
    <3>4. CASE \E r \in aeReplies : LeaderReplyNewTerm(r) \/ AppendSucceeded(r) \/ AppendRefused(r)
      <4>1. PICK r \in aeReplies : LeaderReplyNewTerm(r) \/ AppendSucceeded(r) \/ AppendRefused(r)
        BY Zenon, <3>4
      <4>2. LeaderTypes' /\ r \in aeReplies \cup isReplies
        BY Zenon, <1>0, <4>1, <1>LeaderReplyTypes
      <4>3. Quiet
        BY Zenon, <1>0, <4>1, <4>2, <1>ReplyTypes
      <4>4. QED
        BY Zenon, <1>4, <4>3, <1>QuietInv
    <3>5. QED
      BY Zenon, <2>3, <3>1, <3>2, <3>3, <3>4 DEF Replicate
  <2>4. QED
    BY Zenon, <1>4, <2>1, <2>2, <2>3
<1>5. CASE UNCHANGED allVars
  <2>1. UNCHANGED serviceVars /\ UNCHANGED vars
    BY Zenon, <1>5 DEF allVars
  <2>2. /\ UNCHANGED <<currentTerm, log, lastIncludedIndex, commitIndex, nextIndex, matchIndex>>
        /\ UNCHANGED <<persister, rvArgs, rvReplies, aeArgs, aeReplies, isArgs, isReplies>>
        /\ UNCHANGED lastApplied
    BY Zenon, <2>1 DEF vars, electionVars, logVars, applyVars, leaderVars, rvNet, aeNet, isNet
  <2>3. Quiet
    BY Zenon, <1>0, <2>2 DEF Quiet, PeerTypes, LocalTypes, LeaderTypes, DiskTypes, NetTypes
  <2>4. QED
    BY Zenon, <2>1, <2>3, <1>QuietInv
<1>6. QED
  BY Zenon, <1>1, <1>2, <1>3, <1>4, <1>5 DEF ApplyNext

\* The invariant of the peers and their services (applierLoop, InstallSnapshot and the
\* readers of applyCh).
THEOREM ApplyIndexes == ApplySpec => []ApplyInv
<1>1. QED
  BY ApplyInitInv, ApplyNextInv, PTL DEF ApplySpec

\* Whatever order the applierLoop and the goroutines of InstallSnapshot are served in,
\* the service never has an index that Raft has not handed out, so the index it passes
\* to Snapshot is in range.
THEOREM ServiceIsNeverAhead == ApplySpec => []ServiceNeverAhead
<1>1. ApplyInv => ServiceNeverAhead
  <2> SUFFICES ASSUME ApplyInv, NEW i \in Server, Behind(i)
               PROVE  /\ serviceIndex[i] <= lastApplied[i]
                      /\ \A k \in DOMAIN outbox[i] : outbox[i][k].index <= lastApplied[i]
                      /\ \A s \in snapshotMsgs[i] : s.index <= lastIncludedIndex[i]
    BY Zenon DEF ApplyInv, ServiceNeverAhead
  <2>1. lastIncludedIndex[i] \in Nat
    BY Zenon DEF ApplyInv, PeerTypes, LocalTypes
  <2>2. \A s \in snapshotMsgs[i] : s.index <= lastIncludedIndex[i]
    BY <2>1 DEF Behind
  <2>3. QED
    BY Zenon, <2>2 DEF Behind
<1>2. QED
  BY <1>1, ApplyIndexes, PTL

\* The service of a peer without snapshots gets every index once, in order
\* (raft1/server.go, "apply out of order").
THEOREM UncompactedInOrder == ApplySpec => AppliesInOrderUncompacted
<1>1. ApplyInv /\ [ApplyNext]_allVars =>
        [\A i \in Server : Uncompacted(i) /\ ReadCommand(i) =>
           serviceIndex'[i] = serviceIndex[i] + 1]_allVars
  BY Zenon, NextInLine
<1>2. QED
  BY <1>1, ApplyIndexes, PTL DEF ApplySpec, AppliesInOrderUncompacted

=============================================================================
