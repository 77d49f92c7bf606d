--------------------------------- MODULE RSM --------------------------------
(***************************************************************************)
(* kvraft1/rsm: Submit hands a command to Raft and waits at the index that *)
(* Raft gave it; applyReader executes what Raft delivers and notifies the  *)
(* call that waits at the index of the command.                            *)
(*                                                                         *)
(* Raft's agreement is reduced to what Submit and applyReader see of it.   *)
(* The servers have a term, a role and a log; a leader has won a new term  *)
(* and has all committed entries; the newest leader commits entries of its *)
(* log.  The module Raft has the algorithm that provides this.  A message  *)
(* of a leader and its handler are one step.  How Raft delivers is kept as *)
(* it is: applierLoop collects a batch under the lock and sends it without *)
(* it, every accepted InstallSnapshot sends its snapshot from a goroutine  *)
(* of its own, and applyReader takes from whichever sender comes next.     *)
(*                                                                         *)
(* Every call of Submit is a member of Call, which stands for its random   *)
(* Id too.  The state machine is the sequence of the commands it executed, *)
(* and the result of a command is that state.                              *)
(***************************************************************************)
EXTENDS Integers, Sequences, FiniteSets

CONSTANTS Server,
          Call,
          None,          \* no channel, no call
          maxraftstate,  \* -1: no snapshots
          MaxTerm        \* bounds the elections

ASSUME RSMAssumption ==
  None \notin Call \cup Server /\ maxraftstate \in Int /\ MaxTerm \in Nat

VARIABLES term, leader, log,   \* Raft, on every server
          elected,             \* the newest term that has had a leader
          committed,           \* the committed entries, known or not yet known to a server
          lastIncludedIndex, snapshot,   \* what the snapshot in its persister covers, and its data
          lastApplied, outbox, \* applierLoop: how far it has collected, what it has yet to send
          snapshotMsgs,        \* the snapshots that goroutines of InstallSnapshot have yet to send
          applied, sm,         \* the index applyReader received last, and its StateMachine
          pendingOps,          \* the call whose channel is registered at an index
          sending,             \* the notification that applyReader is about to send
          at, pc, opTerm,      \* a call of Submit: its server, place and op.Term
          index, startTerm,    \*   what Start returned
          ch, result           \*   the notifications in its channel, and what it returns

\* History: the highest index of a command that a server has executed, and whether every
\* command so far was the one after what its server had received last.
VARIABLES executed, inOrder

raftVars == <<term, leader, log, elected, committed>>
snapVars == <<lastIncludedIndex, snapshot>>
chanVars == <<lastApplied, outbox, snapshotMsgs>>
readerVars == <<applied, sm, executed, inOrder>>
smVars == <<snapVars, chanVars, readerVars>>
callVars == <<at, pc, opTerm, index, startTerm, result>>
vars == <<raftVars, smVars, pendingOps, sending, ch, callVars>>

Indexes == 1..Cardinality(Call)

StartsWith(entries, first) ==
  Len(first) <= Len(entries) /\ \A i \in DOMAIN first : entries[i] = first[i]

Commands(entries) == [i \in 1..Len(entries) |-> entries[i].Id]

OK(res) == [err |-> "OK", result |-> res]
ErrWrongLeader == [err |-> "ErrWrongLeader", result |-> <<>>]

\* The local variables of calls that have returned are gone, and nobody reads their channels.
Frees(calls) ==
  LET Without(f, none) == [c \in Call |-> IF c \in calls THEN none ELSE f[c]] IN
  /\ at' = Without(at, None) /\ opTerm' = Without(opTerm, 0)
  /\ index' = Without(index, 0) /\ startTerm' = Without(startTerm, 0)
  /\ ch' = Without(ch, None)

-----------------------------------------------------------------------------
(* Raft, as Submit and applyReader see it *)

\* A majority votes for a server: one that has what is committed, in a term after those
\* that have had a leader.
Elect(s) ==
  /\ ~leader[s] /\ StartsWith(log[s], committed)
  /\ elected <= term[s] /\ term[s] < MaxTerm
  /\ term' = [term EXCEPT ![s] = @ + 1]
  /\ leader' = [leader EXCEPT ![s] = TRUE]
  /\ elected' = term[s] + 1
  /\ UNCHANGED <<log, committed, smVars, pendingOps, sending, ch, callVars>>

\* An election that nobody wins.
Campaign(s) ==
  /\ ~leader[s] /\ term[s] < MaxTerm
  /\ term' = [term EXCEPT ![s] = @ + 1]
  /\ UNCHANGED <<leader, log, elected, committed, smVars, pendingOps, sending, ch, callVars>>

StepDown(s) ==
  \E r \in Server :
    /\ term[r] > term[s]
    /\ term' = [term EXCEPT ![s] = term[r]]
    /\ leader' = [leader EXCEPT ![s] = FALSE]
    /\ UNCHANGED <<log, elected, committed, smVars, pendingOps, sending, ch, callVars>>

Replicate(s) ==
  \E l \in Server \ {s} :
    /\ leader[l] /\ term[l] >= term[s] /\ log[s] # log[l]
    /\ log' = [log EXCEPT ![s] = log[l]]
    /\ term' = [term EXCEPT ![s] = term[l]]
    /\ leader' = [leader EXCEPT ![s] = FALSE]
    /\ UNCHANGED <<elected, committed, smVars, pendingOps, sending, ch, callVars>>

Commit(s) ==
  /\ leader[s] /\ term[s] = elected
  /\ \E n \in Len(committed) + 1..Len(log[s]) :
       /\ log[s][n].term = term[s]
       /\ committed' = SubSeq(log[s], 1, n)
  /\ UNCHANGED <<term, leader, log, elected, smVars, pendingOps, sending, ch, callVars>>

Greater(n, m) == IF n < m THEN m ELSE n

\* The leader sends its snapshot; the handler compares it with the snapshot the server has,
\* not with what it has collected or delivered.
InstallSnapshot(s) ==
  /\ \E l \in Server \ {s} :
       LET n == lastIncludedIndex[l]
           prefix == SubSeq(committed, 1, n)
       IN  /\ leader[l] /\ term[l] >= term[s]
           /\ lastIncludedIndex[s] < n
           /\ term' = [term EXCEPT ![s] = term[l]]
           /\ leader' = [leader EXCEPT ![s] = FALSE]
           /\ log' = [log EXCEPT ![s] = IF StartsWith(@, prefix) THEN @ ELSE prefix]
           /\ lastIncludedIndex' = [lastIncludedIndex EXCEPT ![s] = n]
           /\ snapshot' = [snapshot EXCEPT ![s] = snapshot[l]]
           /\ lastApplied' = [lastApplied EXCEPT ![s] = Greater(@, n)]
           /\ snapshotMsgs' = [snapshotMsgs EXCEPT ![s] =
                @ \cup {[index |-> n, data |-> snapshot[l]]}]
  /\ UNCHANGED <<elected, committed, outbox, readerVars, pendingOps, sending, ch, callVars>>

\* applierLoop collects what the server knows to be committed, and is done with its last batch.
CollectBatch(s) ==
  /\ outbox[s] = {}
  /\ \E n \in lastApplied[s] + 1..Len(committed) :
       /\ StartsWith(log[s], SubSeq(committed, 1, n))
       /\ outbox' = [outbox EXCEPT ![s] = lastApplied[s] + 1..n]
       /\ lastApplied' = [lastApplied EXCEPT ![s] = n]
  /\ UNCHANGED <<raftVars, snapVars, snapshotMsgs, readerVars, pendingOps, sending, ch, callVars>>

-----------------------------------------------------------------------------
(* applyReader *)

\* Receives the next command of the batch, executes it and looks for the call that waits
\* for it.
Apply(s) ==
  /\ sending[s] = None
  /\ \E i \in outbox[s] :
       LET op == committed[i]
           res == Append(sm[s], op.Id)
       IN /\ \A j \in outbox[s] : i <= j
          /\ outbox' = [outbox EXCEPT ![s] = @ \ {i}]
          /\ applied' = [applied EXCEPT ![s] = i]
          /\ sm' = [sm EXCEPT ![s] = res]
          /\ executed' = Greater(executed, i)
          /\ inOrder' = (inOrder /\ i = applied[s] + 1)
          /\ sending' = [sending EXCEPT ![s] =
               IF pendingOps[s][i] = None THEN None
               ELSE [to |-> pendingOps[s][i], id |-> op.Id, term |-> op.Term, result |-> res]]
          /\ pendingOps' = [pendingOps EXCEPT ![s][i] = None]
  /\ UNCHANGED <<raftVars, snapVars, lastApplied, snapshotMsgs, ch, callVars>>

Send(s) ==
  /\ sending[s] # None /\ ch[sending[s].to] = None
  /\ ch' = [ch EXCEPT ![sending[s].to] = IF at[sending[s].to] = s THEN sending[s] ELSE @]
  /\ sending' = [sending EXCEPT ![s] = None]
  /\ UNCHANGED <<raftVars, smVars, pendingOps, callVars>>

\* The log has grown to maxraftstate.
Snapshot(s) ==
  /\ maxraftstate # -1
  /\ sending[s] = None /\ lastIncludedIndex[s] < applied[s]
  /\ snapshot' = [snapshot EXCEPT ![s] = sm[s]]
  /\ lastIncludedIndex' = [lastIncludedIndex EXCEPT ![s] = applied[s]]
  /\ UNCHANGED <<raftVars, chanVars, readerVars, pendingOps, sending, ch, callVars>>

RestoreNothing(s) ==  \* mutant: applyReader does not hand the snapshot on
  /\ sending[s] = None
  /\ \E m \in snapshotMsgs[s] :
       /\ snapshotMsgs' = [snapshotMsgs EXCEPT ![s] = @ \ {m}]
       /\ applied' = [applied EXCEPT ![s] = m.index]
  /\ UNCHANGED <<raftVars, snapVars, lastApplied, outbox, sm, executed, inOrder,
                 pendingOps, sending, ch, callVars>>

\* Receives a snapshot, of whichever goroutine sends first.
Restore(s) ==
  /\ sending[s] = None
  /\ \E m \in snapshotMsgs[s] :
       /\ snapshotMsgs' = [snapshotMsgs EXCEPT ![s] = @ \ {m}]
       /\ applied' = [applied EXCEPT ![s] = m.index]
       /\ sm' = [sm EXCEPT ![s] = m.data]
  /\ UNCHANGED <<raftVars, snapVars, lastApplied, outbox, executed, inOrder,
                 pendingOps, sending, ch, callVars>>

\* The server is shut down and MakeRSM starts it from its persister; its calls are gone.
Restart(s) ==
  /\ leader' = [leader EXCEPT ![s] = FALSE]
  /\ sm' = [sm EXCEPT ![s] = snapshot[s]]
  /\ applied' = [applied EXCEPT ![s] = lastIncludedIndex[s]]
  /\ lastApplied' = [lastApplied EXCEPT ![s] = lastIncludedIndex[s]]
  /\ outbox' = [outbox EXCEPT ![s] = {}]
  /\ snapshotMsgs' = [snapshotMsgs EXCEPT ![s] = {}]
  /\ pendingOps' = [pendingOps EXCEPT ![s] = [i \in Indexes |-> None]]
  /\ sending' = [sending EXCEPT ![s] = None]
  /\ LET calls == {c \in Call : at[c] = s} IN
       /\ pc' = [c \in Call |-> IF c \in calls THEN "gone" ELSE pc[c]]
       /\ Frees(calls)
       /\ result' = [c \in Call |-> IF c \in calls THEN ErrWrongLeader ELSE result[c]]
  /\ UNCHANGED <<term, log, elected, committed, snapVars, executed, inOrder>>

-----------------------------------------------------------------------------
(* Submit *)

Goto(c, place) == pc' = [pc EXCEPT ![c] = place]
Returns(c, res) == result' = [result EXCEPT ![c] = res]

\* GetState.
Submit(c, s) ==
  /\ pc[c] = "called"
  /\ \/ /\ leader[s]
        /\ at' = [at EXCEPT ![c] = s] /\ opTerm' = [opTerm EXCEPT ![c] = term[s]]
        /\ Goto(c, "start") /\ UNCHANGED result
     \/ /\ ~leader[s] /\ Goto(c, "returned") /\ Returns(c, ErrWrongLeader)
        /\ UNCHANGED <<at, opTerm>>
  /\ UNCHANGED <<raftVars, smVars, pendingOps, sending, ch, index, startTerm>>

Start(c) ==
  LET s == at[c] IN
  /\ pc[c] = "start"
  /\ \/ /\ leader[s]
        /\ log' = [log EXCEPT ![s] = Append(@, [Id |-> c, Term |-> opTerm[c], term |-> term[s]])]
        /\ index' = [index EXCEPT ![c] = Len(log[s]) + 1]
        /\ startTerm' = [startTerm EXCEPT ![c] = term[s]]
        /\ opTerm' = [opTerm EXCEPT ![c] = term[s]]
        /\ Goto(c, "register") /\ UNCHANGED <<at, ch, result>>
     \/ /\ ~leader[s] /\ Goto(c, "returned") /\ Returns(c, ErrWrongLeader)
        /\ Frees({c}) /\ UNCHANGED log
  /\ UNCHANGED <<term, leader, elected, committed, smVars, pendingOps, sending>>

Register(c) ==
  /\ pc[c] = "register"
  /\ pendingOps' = [pendingOps EXCEPT ![at[c]][index[c]] = c]
  /\ Goto(c, "wait")
  /\ UNCHANGED <<raftVars, smVars, sending, ch, at, opTerm, index, startTerm, result>>

ComparesTerms(c) == ch[c].term = startTerm[c]  \* mutant: without the Ids

\* The command at the index is the one of this call.
IsOwn(c) == ch[c].term = startTerm[c] /\ ch[c].id = c

Notified(c) ==
  /\ pc[c] = "wait" /\ ch[c] # None
  /\ Returns(c, IF IsOwn(c) THEN OK(ch[c].result) ELSE ErrWrongLeader)
  /\ ch' = [ch EXCEPT ![c] = None]
  /\ Goto(c, "deferred")
  /\ UNCHANGED <<raftVars, smVars, pendingOps, sending, at, opTerm, index, startTerm>>

ComparesRole(c) ==  \* mutant: a leader of a later term waits on
  /\ pc[c] = "wait"
  /\ ~leader[at[c]]
  /\ Returns(c, ErrWrongLeader)
  /\ Goto(c, "deferred")
  /\ UNCHANGED <<raftVars, smVars, pendingOps, sending, ch, at, opTerm, index, startTerm>>

\* The channel was empty, and then the server no longer leads in startTerm; what arrives in
\* between is not read.
LostLeadership(c) ==
  /\ pc[c] = "wait"
  /\ ~leader[at[c]] \/ term[at[c]] # startTerm[c]
  /\ Returns(c, ErrWrongLeader)
  /\ Goto(c, "deferred")
  /\ UNCHANGED <<raftVars, smVars, pendingOps, sending, ch, at, opTerm, index, startTerm>>

\* The deferred function, which deletes whatever is registered at the index.
Deferred(c) ==
  /\ pc[c] = "deferred"
  /\ pendingOps' = [pendingOps EXCEPT ![at[c]][index[c]] = None]
  /\ Goto(c, "returned") /\ Frees({c})
  /\ UNCHANGED <<raftVars, smVars, sending, result>>

-----------------------------------------------------------------------------

Init ==
  /\ term = [s \in Server |-> 0] /\ leader = [s \in Server |-> FALSE]
  /\ log = [s \in Server |-> <<>>] /\ elected = 0 /\ committed = <<>>
  /\ lastIncludedIndex = [s \in Server |-> 0] /\ snapshot = [s \in Server |-> <<>>]
  /\ lastApplied = [s \in Server |-> 0] /\ outbox = [s \in Server |-> {}]
  /\ snapshotMsgs = [s \in Server |-> {}]
  /\ applied = [s \in Server |-> 0] /\ sm = [s \in Server |-> <<>>]
  /\ executed = 0 /\ inOrder = TRUE
  /\ pendingOps = [s \in Server |-> [i \in Indexes |-> None]]
  /\ sending = [s \in Server |-> None]
  /\ at = [c \in Call |-> None]
  /\ pc = [c \in Call |-> "called"]
  /\ opTerm = [c \in Call |-> 0] /\ index = [c \in Call |-> 0] /\ startTerm = [c \in Call |-> 0]
  /\ ch = [c \in Call |-> None]
  /\ result = [c \in Call |-> ErrWrongLeader]

RaftStep ==
  \E s \in Server : \/ Elect(s) \/ Campaign(s) \/ StepDown(s) \/ Replicate(s) \/ Commit(s)
                   \/ InstallSnapshot(s) \/ CollectBatch(s)
Reader(s) == Apply(s) \/ Send(s) \/ Restore(s)
Caller(c) == Start(c) \/ Register(c) \/ Notified(c) \/ LostLeadership(c) \/ Deferred(c)

Next ==
  \/ RaftStep
  \/ \E s \in Server : Reader(s) \/ Snapshot(s) \/ Restart(s)
  \/ \E c \in Call : Caller(c) \/ \E s \in Server : Submit(c, s)

Spec == Init /\ [][Next]_vars

\* Goroutines run on, and Raft commits what the newest leader has, as long as it leads.
Fairness ==
  /\ \A c \in Call : WF_vars(Caller(c))
  /\ \A s \in Server : /\ WF_vars(Reader(s)) /\ WF_vars(CollectBatch(s))
                       /\ WF_vars(Commit(s)) /\ WF_vars(Replicate(s))

FairSpec == Spec /\ Fairness

-----------------------------------------------------------------------------

Promise == INSTANCE Submissions WITH
  order <- Commands(SubSeq(committed, 1, executed)),
  place <- [c \in Call |-> IF pc[c] \in {"called", "start"} THEN "called"
                          ELSE IF pc[c] \in {"returned", "gone"} THEN "returned"
                          ELSE "submitted"],
  result <- [c \in Call |-> IF pc[c] = "returned" THEN result[c] ELSE ErrWrongLeader]

\* As long as Raft has delivered in order, Submit keeps its promise: the commands are
\* executed in one order, each at most once, and OK is returned only for the caller's own
\* command and with what executing the commands up to it gives, whichever other command
\* took its index meanwhile, on this leader or another.
KeepsPromise ==
  Promise!Init /\ [][inOrder' => UNCHANGED Promise!subVars \/ Promise!Next]_vars

\* As long as Raft has delivered in order (the order that the test's applierSnap insists on),
\* the state machine of every server is the committed commands up to what it received last,
\* through snapshots that replace entries and restarts from older snapshots.
ReplicasAgree ==
  inOrder => \A s \in Server : sm[s] = Commands(SubSeq(committed, 1, applied[s]))

\* A call whose server is no longer the leader of the term it started in returns, also when
\* the server leads again in a later term by the time the call looks.
SubmitNotices ==
  \A c \in Call :
    pc[c] = "wait" /\ (~leader[at[c]] \/ term[at[c]] # startTerm[c])
      ~> pc[c] \in {"returned", "gone"}

\* rsm.go says of Submit "Submit a command to Raft, and wait for it to be committed.  It
\* should return ErrWrongLeader if client should find new leader and try again": a call
\* returns, one way or the other.
SubmitReturns == \A c \in Call : pc[c] = "start" ~> pc[c] \in {"returned", "gone"}

=============================================================================
