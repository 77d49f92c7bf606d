------------------------------ MODULE RaftApply ------------------------------
(***************************************************************************)
(* Raft peers together with the services that read their applyCh: the      *)
(* tester's rfsrv of raft1/server.go and the applyReader of                *)
(* kvraft1/rsm/rsm.go.  The applyCh is unbuffered.  Its senders are the    *)
(* applierLoop, which sends the batch it collected under rf.mu after       *)
(* releasing it, and one goroutine per accepted InstallSnapshot.           *)
(*                                                                         *)
(* A service's state is the sequence of commands it has executed; Restore  *)
(* and ingestSnap replace it by what a snapshot holds.                     *)
(***************************************************************************)
EXTENDS Raft

VARIABLES
  outbox,        \* the messages applierLoop has still to send
  snapshotMsgs,  \* the snapshot messages whose goroutines have still to send
  executed,      \* the commands the service has executed
  serviceIndex   \* the CommandIndex or SnapshotIndex it got last

serviceVars == <<outbox, snapshotMsgs, executed, serviceIndex>>
allVars == <<vars, serviceVars>>

ApplyMsg == [index : Nat, command : Command]
SnapshotMsg == [index : Nat, data : Seq(Command)]

\* applierLoop: the critical section collects a batch, then the loop sends it all
\* before it takes rf.mu again.
CollectBatch(i) ==
  /\ outbox[i] = <<>>
  /\ ApplierLoop(i)
  /\ outbox' = [outbox EXCEPT ![i] =
       [k \in 1..commitIndex[i] - lastApplied[i] |->
          [index |-> lastApplied[i] + k,
           command |-> log[i][lastApplied[i] + k - lastIncludedIndex[i]].command]]]
  /\ UNCHANGED <<snapshotMsgs, executed, serviceIndex>>

\* The service reads a command from applyCh and executes it.
ReadCommand(i) ==
  /\ outbox[i] # <<>>
  /\ executed' = [executed EXCEPT ![i] = Append(@, Head(outbox[i]).command)]
  /\ serviceIndex' = [serviceIndex EXCEPT ![i] = Head(outbox[i]).index]
  /\ outbox' = [outbox EXCEPT ![i] = Tail(@)]
  /\ UNCHANGED <<vars, snapshotMsgs>>

\* The service reads a snapshot from applyCh and restores it.
ReadSnapshot(i) ==
  \E s \in snapshotMsgs[i] :
    /\ executed' = [executed EXCEPT ![i] = s.data]
    /\ serviceIndex' = [serviceIndex EXCEPT ![i] = s.index]
    /\ snapshotMsgs' = [snapshotMsgs EXCEPT ![i] = @ \ {s}]
    /\ UNCHANGED <<vars, outbox>>

\* The service, after a command, finds the log too long and snapshots its state.
ServiceSnapshot(i) ==
  /\ Snapshot(i, serviceIndex[i], executed[i])
  /\ UNCHANGED serviceVars

\* InstallSnapshot, and the goroutine it starts when it accepts.
InstallAndNotify(m) ==
  LET i == m.to
      msg == [index |-> m.lastIncludedIndex, data |-> m.data]
  IN  /\ \/ /\ RejectSnapshot(m) \/ IgnoreSnapshot(m)
            /\ UNCHANGED snapshotMsgs
         \/ /\ AcceptSnapshot(m)
            /\ snapshotMsgs' = [snapshotMsgs EXCEPT ![i] = @ \cup {msg}]
      /\ UNCHANGED <<outbox, executed, serviceIndex>>

KeepService(i) ==  \* mutant: the service survives the restart of its peer
  /\ outbox' = [outbox EXCEPT ![i] = <<>>]
  /\ snapshotMsgs' = [snapshotMsgs EXCEPT ![i] = {}]
  /\ UNCHANGED <<executed, serviceIndex>>

\* A new service starts with the snapshot on disk, and a new applyCh.
StartService(i) ==
  /\ outbox' = [outbox EXCEPT ![i] = <<>>]
  /\ snapshotMsgs' = [snapshotMsgs EXCEPT ![i] = {}]
  /\ executed' = [executed EXCEPT ![i] = persister[i].snapshot]
  /\ serviceIndex' = [serviceIndex EXCEPT ![i] = persister[i].lastIncludedIndex]

ApplyInit ==
  /\ Init
  /\ outbox = [i \in Server |-> <<>>]
  /\ snapshotMsgs = [i \in Server |-> {}]
  /\ executed = [i \in Server |-> <<>>]
  /\ serviceIndex = [i \in Server |-> 0]

Apply ==
  \E i \in Server :
    CollectBatch(i) \/ ReadCommand(i) \/ ReadSnapshot(i) \/ ServiceSnapshot(i)

CompactAndNotify ==
  \/ \E m \in isArgs : InstallAndNotify(m)
  \/ /\ \/ \E i, j \in Server : SendInstallSnapshot(i, j)
        \/ \E r \in isReplies : LeaderReplyNewTerm(r) \/ SnapshotInstalled(r)
     /\ UNCHANGED serviceVars

RestartAll ==
  \/ \E i \in Server : Restart(i) /\ StartService(i)
  \/ \E m \in rvArgs \cup aeArgs \cup isArgs : CrashInHandler(m) /\ StartService(m.to)

ApplyNext ==
  \/ Apply
  \/ CompactAndNotify
  \/ RestartAll
  \/ (Elect \/ Replicate \/ Lose) /\ UNCHANGED serviceVars

ApplySpec == ApplyInit /\ [][ApplyNext]_allVars

-----------------------------------------------------------------------------

ApplyTypeOK ==
  /\ TypeOK
  /\ outbox \in [Server -> Seq(ApplyMsg)]
  /\ snapshotMsgs \in [Server -> SUBSET SnapshotMsg]
  /\ executed \in [Server -> Seq(Command)]
  /\ serviceIndex \in [Server -> Nat]

\* The service executes commands one index after the other, without a gap or a
\* repetition, counted from the snapshot it last restored (raft1/server.go:131,
\* "server %v apply out of order, expected index %v, got %v").
AppliesInOrder ==
  [][\A i \in Server : ReadCommand(i) => serviceIndex'[i] = serviceIndex[i] + 1]_allVars

\* The peer has neither taken nor installed a snapshot, in this life or before.
Uncompacted(i) == lastIncludedIndex[i] = 0

\* The same for a peer without snapshots, whose only sender is the applierLoop.
AppliesInOrderUncompacted ==
  [][\A i \in Server : Uncompacted(i) /\ ReadCommand(i) =>
       serviceIndex'[i] = serviceIndex[i] + 1]_allVars

\* A committed command is never truncated or overwritten by a late AppendEntries call,
\* nor lost in a restart, at a peer without snapshots.
CommittedStaysUncompacted ==
  [][\A i \in Server : Uncompacted(i)' =>
       AgreeUpTo(Commands(i)', Commands(i), commitIndex[i])]_allVars

\* Any two services of peers without snapshots have executed the same commands, one
\* perhaps more of them, and nothing that is not committed (raft1/test.go checkLogs).
ServicesAgree ==
  \A i, j \in {k \in Server : Uncompacted(k)} :
    /\ Len(executed[i]) <= commitIndex[i]
    /\ Len(executed[i]) <= Len(executed[j]) =>
         AgreeUpTo(executed[i], executed[j], Len(executed[i]))

\* Whatever order the senders of applyCh are served in, the index the service would
\* snapshot at is one Raft has handed out and still has, in its log or its snapshot:
\* Snapshot's slice expressions stay in range.
ServiceNeverAhead ==
  \A i \in Server :
    /\ serviceIndex[i] <= lastApplied[i]
    /\ \A k \in DOMAIN outbox[i] : outbox[i][k].index <= lastApplied[i]
    /\ \A s \in snapshotMsgs[i] : s.index <= lastIncludedIndex[i]

=============================================================================
