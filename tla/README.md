# A verification development for the MIT 6.824 labs

The repository (`src/6.5840/src`, Go) holds one solution of the labs of MIT 6.824: MapReduce,
a versioned key/value server and a lock on top of it, Raft, a replicated state machine and a
replicated key/value service over Raft, and the configurations of a sharded service. Everything
runs over a simulated network (`labrpc`) and is shut down and restarted by a test harness
(`tester1`). This directory models those parts in TLA+, checks small instances with TLC and
proves the most important facts with TLAPS for every value of the constants.

`PROJECT.json` maps every definition to the lines it models and lists the runs, their mutants,
the hazards of the code and the theorems.

## 1. The system

| Part | Code | State | Operations | Modules |
|---|---|---|---|---|
| Raft peer | `raft1/raft.go` | term, vote, role, log after a sentinel, commit and apply indexes, next/match indexes, the persister | election timer, RequestVote, AppendEntries, InstallSnapshot and the goroutines that handle their replies, Start, Snapshot, applierLoop, restart | `Raft`, `MCRaft`, `RaftInv`, `RaftPeerProofs`, `RaftStepProofs`, `RaftLeaderProofs`, `RaftFollowerProofs`, `RaftProofs` |
| Apply channel and service | `raft1/raft.go`, `raft1/server.go`, `kvraft1/rsm/rsm.go` | batches and snapshots still to be sent, what the service executed | senders on `applyCh`, the reader, snapshots by the service, restart | `RaftApply`, `MCRaftApply`, `RaftPeerProofs` |
| Replicated state machine | `kvraft1/rsm/rsm.go` | pendingOps, the state machine, its snapshot | Submit (five steps), applyReader, restart | `RSM`, `MCRSM`, `ServiceProofs`, and what it promises: `Submissions` |
| Replicated key/value service | `kvraft1/server.go`, `kvraft1/client.go` | the map with versions, per clerk the server it talks to and its RPCs, given-up ones included | Get, Put, the handlers, DoOp | `KVRaft` over `Submissions` and `KVServer`, `MCKV`, `KVProofs` |
| Key/value server and clerk | `kvsrv1/server.go`, `kvsrv1/client.go` | the map with versions; per clerk the call under way | Get, Put, retries, lost requests and replies | `KVServer`, `KVClerk`, `KvModel`, `KVLinear`, `MCKV`, `KVProofs` |
| Lock | `kvsrv1/lock/lock.go` | one key, the program counter of each client | Acquire, Release | `Lock`, `MCLock`, `KVProofs` |
| Load clients of the tests | `kvtest1/kvtest.go` | each client's version, its counts of sure and of possible puts | OneClientPut, OnePut | `OneClientPut`, `MCLock` |
| MapReduce | `mr/coordinator.go`, `mr/worker.go` | task states, phase, files, workers | RequestTask, ReportTask, checkTimeouts, doMap, doReduce, death | `MapReduce`, `ServiceProofs` |
| Shard configurations | `shardkv1/shardcfg/shardcfg.go` | number, shards, groups | JoinBalance, LeaveBalance, Rebalance | `ShardCfg`, `ClusterProofs` |
| Network and server lifecycle | `labrpc/labrpc.go`, `tester1/{group,srv,persister,clnts}.go` | registered instance, enabled ends, persisters, calls | processReq, Call, ShutdownServer, StartServer, a client's ConnectAll, ConnectTo, Disconnect, DisconnectAll, DeleteClient | `Lifecycle`, `MCLifecycle`, `ClusterProofs` |
| Links of a group | `tester1/{group,srv}.go`, `kvtest1/kvtest.go` | the ends between servers, per instance | connect, disconnect, ConnectAll, ConnectOne, DisconnectAll, Partition, MakePartition, shutdown and start | `Group`, `MCLifecycle` |

How they interact. Clients of the key/value server call it through `labrpc`, which drops requests
and replies independently (unreliable networks) and returns false to the caller; the clerk repeats
the call. The lock sees the server only through the clerk, and so must live with `ErrMaybe`.
Raft peers call each other through the same network; a call is a goroutine of its own, so calls
and replies are reordered and answered late. Raft hands committed entries and snapshots to the
service on an unbuffered channel; the service gives snapshots back to Raft. `rsm.Submit` turns that
into a blocking call. The harness stops a server by deleting it from the network's table and
copying its persister; the old instance's goroutines go on running.

The behaviours that make this hard, and that the models have: every critical section of `rf.mu`
interleaves with every other; messages are lost, repeated and reordered; a peer stops between any
two of its persists, even inside a handler, and comes back with what is on disk; timers fire at
any time; retries of an operation that was already executed; a task given to two workers; a caller
that waits while its server loses and regains leadership; a server name taken over by a new
instance while the old one still answers.

## 2. How the models are built

**Atomicity.** An action is one critical section of the component's mutex, with everything the
code does under it. What a goroutine does between two critical sections is an RPC or a channel
operation, and is a message or a program counter in the model. Local variables that live across
an unlock (the arguments of the call a reply answers, `first` in the clerk, the term Submit read
before Start) are part of the state.

**Time.** There are no clocks. A timer may fire whenever the code's condition for it allows it.
This covers every timing; it is why the election timeout, the ten seconds of a MapReduce task and
the polling interval of Submit have no number here.

**Data.** Commands, values and ids are model values. A file of MapReduce is the set of map tasks
whose output it holds. A snapshot is the sequence of commands it covers. The state of the RSM's
state machine is the sequence of commands it executed, the strongest state there is.

### Raft

`Raft` has the variables of `type Raft` with their names. `log[i]` is `rf.log[1:]`; the sentinel
`rf.log[0]` is `lastIncludedIndex`/`lastIncludedTerm`, so every index is relative, as in the code.
`votes` records the votes each candidate has counted, for every term: the code's counter is a
local variable of `startElection`, and the history of all elections is what election safety is
about. `persister[i]` is what the last `persist()` or `persistWithSnapshot` wrote.

The network is six sets: calls and replies of three RPCs. A RequestVote call is made once per
election and peer and is answered once. AppendEntries and InstallSnapshot calls are repeated by
every heartbeat, any number of them with the same arguments, so a call and a reply of theirs stay
in their sets after delivery and stand for all their copies. `Lose` removes any message at any time.

The actions are `StartElection`, the RequestVote handler and the goroutine that counts its reply
(`CountVote`, `VoteReplyNewTerm`); `Start`, `SendAppendEntries`, the AppendEntries handler in its
four outcomes (`RejectAppend`, `MissingPrev`, `ConflictingPrev`, `AcceptAppend`), the reply with the
commit rule (`AppendSucceeded`) or with fast backup (`AppendRefused`); `Snapshot`, the
InstallSnapshot call, handler and reply; `ApplierLoop`; `Restart` from the disk, between two
critical sections, and `CrashInHandler`, between the two persists of one handler.

`RaftApply` extends it with what happens on `applyCh`: `applierLoop` collects a batch under the
lock and sends it after the unlock, each accepted InstallSnapshot sends its snapshot from its own
goroutine, the service reads from both and calls `Snapshot`.

### RSM

`RSM` does not repeat Raft's agreement: its Raft is the contract that `Raft` provides. A new leader
has all committed entries, and only the leader of the newest term that has had one commits entries
of its log. `elected` is that term. `Elect` wins an election in the server's next term; terms that
are raised without a winner are steps of their own (`Campaign`), so a server may win in any term
after `elected` and may go through several in between. A call of a leader and its handler are one
step, which also brings the receiver to the leader's term.

How Raft delivers is kept as raft.go has it. `CollectBatch` is the part of applierLoop under the
lock; the entries of the batch are then sent one by one. `InstallSnapshot` compares the snapshot with
`lastIncludedIndex` only, and its goroutine sends the snapshot at any later time (`snapshotMsgs`).
applyReader takes from whichever sender comes next. So commands may come out of order (the
`apply_order` finding below). The history variable `inOrder` is whether every command so far had the
index after what its server had received last, which is what the tests check (`raft1/server.go:131`),
and `ReplicasAgree` and `KeepsPromise` speak of the states and steps up to the first one that did not.
In `rsm_submit` commands do come out of order; `SubmitNotices` is checked there as well.

Submit is taken apart at every point where it releases something: GetState, Start,
registration of the channel, waiting, the poll of the leadership, and the deferred delete.
applyReader is two steps: execute and look up the channel, then send. A restart ends the calls of
Submit at that server.

`Submissions` is the abstract specification of Submit, a page long: commands are executed in one
order, each once, OK comes with the result of the caller's own command, and ErrWrongLeader promises
nothing. `RSM!Promise` instantiates it with a refinement mapping; `KeepsPromise` is the property
that every step taken while commands come in order is a step of it or a stutter.

### Key/value server, clerk and lock

`KVServer` has the pure operations `Get` and `Put` on the map (the handlers of `kvsrv1/server.go`
and `DoOp` of `kvraft1/server.go` compute the same). `KVClerk` adds the clerks and the network.
`labrpc`'s Call does not return before the handler has, so a request does not outlive its call: a
call is lost before the server saw it, or its reply is lost after.

`KvModel` is the abstract specification: the sequential model `models1/kv.go` that the tests give
to the linearizability checker, as a state machine in which an operation takes effect at one moment
between call and return. `KVLinear` shows that `KVClerk` implements it: `Model == INSTANCE KvModel
WITH ...`, with two history variables (`seen`, `applied`) for what the abstract state holds
beyond the program's. Both are computed from the program's steps and constrain none of them.

`KVRaft` is the replicated service, composed of the clerk of `kvraft1/client.go`, `Submissions` for
the RSM below the handlers, and `KVServer` for DoOp. What it shows holds as far as RSM keeps
`Submissions`: without snapshots always, with them until a command comes out of order. Each RPC is
one call of Submit. A clerk whose
Call returns false or gets ErrWrongLeader goes on to the next server, and the handler it leaves
behind goes on as well: its command may be executed at any later time, after the operation returned
included. `KVRaft` uses the history variables of `KVLinear`, so that the same property
`Linearizable` says of both services that they implement `KvModel`. `answers` holds what DoOp
returned for each command executed, and a call of Submit that returns OK gets the one of its own. In `MCKV` the variable
`service` is which of the two the clients use.

`OneClientPut` is what the tests' clients run against either service: each puts its own entry with
the version it read last until it succeeds, reads back, and counts the puts that certainly and
perhaps took place. Its two properties are the test's own checks: `CheckPutConcurrent`, and "my put"
of OnePut. In `MCLock` the variable `program` is whether the clients run this or the lock.

`Lock` runs Acquire and Release as code over the clerk operations; a step between two clerk
operations touches only locals, so it is one step with the operation it leads to.

### MapReduce

Tasks are numbers, workers have a program counter and the loop variable of `doMap` or `doReduce`,
so a worker dies between any two renames and a task is taken back while its worker is in the
middle. `doReduce` skips a file that does not exist, as the code does; that no file is ever missing
is a property, not an assumption. A worker leaves when a call fails, whatever the reason
(`mr/worker.go:48`). The calls go over a Unix socket of the same machine, so `CallFails` is for a
coordinator that is gone; a worker that leaves because another call failed is one of the mortal
workers that die.

### Shard configurations

`JoinBalance`/`LeaveBalance` change the groups and then run the two loops of `Rebalance`, one
iteration per step. Calls that are rejected in the middle of their loop leave the groups half
changed, as in the code. `analyze` picks groups by a sorted list of gids, so ties are broken by the
smaller gid. It looks for the least count from 257 down, so there are at most 256 shards.

### Lifecycle

The server is one name for a sequence of instances. An instance that was shut down goes on, with
the persister it was given; the next instance has a copy. A call goes through `processReq`: it is
dropped, or handled, and its reply is passed on only if the server it was sent to is still the one
registered. The client's end to the server is made by its first call, and is enabled or not by what
the client was allowed at that moment; later it is enabled, disabled and deleted by the test.
`ConnectTo` with a list that the server is not in (`ClntConnectOthers`) replaces the list and leaves
the end as it is. The history variable `cutOff` is set by DisconnectAll, and for a client made for
other servers, until the client is connected to the server.

`Group` has the ends between the servers. An operation of the test (Partition, ConnectAll, ...) is a
list of steps, each the loop of Enables of one `connect` or `disconnect`, in the order of the code;
calls can be made between two steps, so the states in between matter, but the test can only count on
the links once the operation is over. In `MCLifecycle` the variable `test` is which of the two tests
runs.

## 3. What is checked

Every property below has a mutant in `PROJECT.json`: a plausible bug in the mapped code for which
TLC finds the property violated under the same configuration.

| Run | Properties | Instance |
|---|---|---|
| `raft_crash` | ElectionSafety, VoteOncePerTerm, StateMachineSafety, CommittedIsDurable, DiskIsCurrent | 3 peers, 4 terms, 1 entry per log, crashes at any point |
| `raft_replication` | LogMatching, LeaderCompleteness, BackupProgress, MatchIndexIsSound | 3 peers lead one after the other, logs of 2 entries |
| `raft_compaction` | IndexesInRange, TermsAscend, StateMachineSafety | 2 terms, logs of 2 entries, the second leader compacts and installs its snapshot |
| `apply_snapshots` | ApplyTypeOK, ServicesAgree, ServiceNeverAhead, AppliesInOrderUncompacted, CommittedStaysUncompacted | 2 peers with services that snapshot, 2 entries, 2 calls in flight, restarts |
| `apply_order` | AppliesInOrder (violated) | 2 peers with services that snapshot, 3 entries, 1 call and 2 replies in flight |
| `rsm_submit` | KeepsPromise (refinement), ReplicasAgree, SubmitNotices | 2 servers, 3 terms, 2 calls of Submit, snapshots delivered in any order |
| `rsm_waits` | SubmitReturns (violated) | 1 call, a leader that stays |
| `kv_linearizable` | Linearizable (refinement) | 2 clerks, 1 key; of kvsrv1 with versions 0 to 2, or of kvraft1 with 2 servers and 4 RPCs |
| `lock` | MutualExclusion, HeldIsNamed, LockNotOrphaned, PutsCounted, ReadsOwnPut, EveryoneGetsTheLock | 2 clients, with 2 turns of the lock each, or 2 calls of OnePut each |
| `mapreduce` | OutputsComplete, ExitMeansFinished, OutputsFinal, JobFinishes | 3 workers, 2 of them mortal, 3 map and 2 reduce tasks |
| `shard_balance` | EvenAfterSuccess, JoinMovesLittle, LeaveMovesLittle, RebalanceEnds | 5 shards, 4 groups, 3 configurations |
| `lifecycle` | AckedIsPersisted, CutOffClient, LinksAsAsked, PersistedStays, CallsReturn | 2 calls and 3 instances of a server; or a group of 3 servers, one of them restarted twice |

What they show, in short:

* *Raft.* One leader and one vote per term across crashes, also between the two persists of one
  handler; committed commands agree in the schedule of Figure 8 of the Raft paper, where an old
  entry sits on a majority and is overwritten; they stay on a majority of disks; the fast backup
  never repeats a refused call; late replies do not overstate what a follower holds; no index leaves
  the log once it starts at a snapshot.
* *Services.* Whatever order the senders of `applyCh` are served in, the index a service would
  snapshot at is one Raft has handed out. At peers that have no snapshot yet, commands come in
  order, and late or repeated calls cut nothing that is committed.
* *RSM.* As long as Raft delivers in order, RSM is one sequence of commands to its callers: Submit
  returns OK only for its own command and with the result of that sequence up to it, no command is
  executed twice, and state machines agree through snapshots and restarts. In any case a caller
  notices a lost term.
* *Clerks.* Every history of either service is linearizable, although a Put may be executed by an
  attempt whose reply is lost or that the clerk gave up long ago.
* *Load clients.* The tests' own counts are right: the version of the key is never below the sure
  puts nor above the sure and possible ones, and a client that reads the version after its own reads
  its own entry.
* *Lock.* The lock never has two holders, and `ErrMaybe` neither orphans it nor makes its
  holder wait for itself.
* *MapReduce.* No reduce task misses a file, nobody leaves early, late workers change nothing, and
  the job ends while one worker lives.
* *Shards.* After every successful call the assignment is even. From an even assignment a join
  moves shards to the joining groups only, and a leave moves only those of the leaving groups. The
  loop of Rebalance ends.
* *Lifecycle.* What was acknowledged is in the state the next instance starts from, and what is saved
  there only grows; a client that was cut off has no enabled end until it is connected to the server,
  however late its end was made and whatever others it is connected to.
* *Links.* Between the operations of a test the ends between the servers' current instances are
  exactly those of connected servers in the same part, in both directions.

### Bounds, and why they are enough to mean something

*Raft.* The bounds are conjuncts on the state an action leads to (`MCRaft!Bounds`): terms
(`MaxTerm`), log length (`MaxIndex`), commands in the logs (`MaxCommands`), who may stand in which
term (`MayTimeOut`), whom the leader of a term reaches (`MayReach`), messages of each kind in flight
(`MaxVoteCalls`, `MaxVoteReplies`, `MaxCalls`, `MaxReplies`), who applies and takes snapshots
(`MaySnapshot`). Messages may always be lost, so a bound on those in flight does not bound how many
are sent. No single small instance has every hazard, so each run is shaped for some: a contested
first term and then two peers leading in turn over four terms is what votes, crashes and Figure 8
need (`ContestedTurns`); a third leader whose log is `<<1, 2>>` by terms while a follower's is `<<1,
1>>` is what the fast backup needs, and a candidate that has the first of two entries of a term is
what the vote's check of the index needs (`EachOnce`, `TwoEach`); a second leader that compacts
while a follower has a longer, conflicting log is what InstallSnapshot needs. In `raft_crash` and
`raft_replication` calls of the first leader do not reach `s2`; every later leader reaches everyone,
so that the peers' logs part in the first term and meet again. Late and repeated calls are between
one leader and one follower, so two peers suffice in `apply_snapshots`, with two calls in flight. A
command is the pair of term and index it was started at (`FreshCommands`), so no two entries carry
the same command.

`View` leaves out of the fingerprint what no later step can use: messages whose sender has left the
role or term they belong to and whose receiver is in a later term, or that the goroutine's first
check drops; tallies of finished elections; leader state of peers that do not lead. Of
two states with the same view TLC examines the first, so a clause about dead messages is not
examined in all of them: the part of `ElectionSafety` about calls of leaders that have since stepped
down rests on the proof. Runs with a liveness property use neither `VIEW` nor symmetry; the only
symmetry is that of the clerks in `kv_linearizable`.

*Key/value.* One key is enough because operations on different keys do not interact in the map
(`KvModel` partitions histories by key as well). Versions 0 to 2 give a stale, a current and a
future version at each of the first two Puts. The map's versions are bounded by the versions
clients pass. For kvraft1, four RPCs are shared by two clerks: a Put that is sent three times and a
Get, or two Puts with a retry each. Clients there pass to Put a version that the key has had
(`HasHad`), as all clients of the repository do: 0, or the version of a Get. Without that a Put of a
version still to come, given up and executed late, could take effect after it returned.

*Lock.* Two clients, one that holds and one that races with its Acquire or Release; two turns each,
since a client must come back to meet what its own earlier attempts left behind. The load clients
call OnePut twice, so that the second starts from a version that the first one read.

*Lifecycle and links.* Two calls, so that one is answered by an instance while the other is in an
earlier one, and two restarts, so that an instance two shutdowns old still saves. Three servers are
the smallest group that has a majority and a minority; one of them is restarted, which is enough for
ends of old instances to be left.

*MapReduce.* Three workers: two of them share a task after a timeout and the third one moves the
phase on. Three map tasks leave a reduce task between two files.

*Shards.* Five shards over up to four groups: counts that divide evenly and that do not, more
than one shard to move, and empty configurations.

*RSM.* Three terms let a server lose and regain leadership between two steps of one call. Of
servers and calls that can be exchanged one order is examined: the first server wins the first
election, the first call is made first, and only the first server stands in elections that nobody
wins in a new term (`MCRSM!Bounds`). The first server has only snapshots that the second took before,
so it is the one that installs them, and a server is shut down while calls are at it (`BoundedNext`).

*Deadlock* is not checked where the instance ends: bounded elections, clients with a number of
turns, jobs that finish.

### Fairness

Fairness is stated only for the goroutines whose scheduling the code or the Go runtime provides.

* `Lock`: weak fairness on each client's own steps, strong fairness on `Serve` and `Return` of its
  clerk: the unreliable network drops a message with a probability below one, so a clerk that
  repeats its call for ever gets one through. A client that holds the lock is assumed to release
  it, as every caller in the tests does. Turns are bounded, since nothing in the lock prevents one
  client from being overtaken for ever by clients that come back without end.
* `MapReduce`: weak fairness on living workers, on `checkTimeouts` (a ticker loop) and on the
  coordinator's exit. In the run one worker is not mortal: with none alive nothing finishes.
* `ShardCfg`: weak fairness on the loops of Rebalance, which are sequential code.
* `RSM`: for `SubmitNotices` weak fairness on the callers' goroutines only (`CallersSpec`). For
  `SubmitReturns`, which is violated nevertheless, also on applyReader and on a leader's replication
  and commits (`FairSpec`). None on elections.
* `MCLock` and `MCLifecycle` state the same fairness as `Lock` and `Lifecycle` for the program or
  test they are about (`ProgramFairness`, `CallsFair`), and none for the other one.
* `Lifecycle`: weak fairness on the network's goroutine and on handlers of the registered instance.
  A handler of an instance that was shut down may be stuck, and the call must return nevertheless.

### Where code and documents disagree

* `rsm_waits` (violation). Submit registers its channel after Start has returned
  (`kvraft1/rsm/rsm.go:163`). If applyReader applies the command in between, nobody is notified and
  the call polls as long as the server leads. The comment at `rsm.go:139` says it waits for the
  commit or returns `ErrWrongLeader`.
* `apply_order` (violation). InstallSnapshot sends its snapshot from a goroutine of its own
  (`raft1/raft.go:759`), in no order with the batch `applierLoop` is sending, and also when the peer
  has applied more already. `raft1/server.go:131` treats this as an error ("apply out of order").
  A service that skips or repeats a command then snapshots a state that lacks or repeats it, which
  is why `CommittedStaysUncompacted` and `ServicesAgree` speak of peers without a snapshot.

Smaller ones have no run. The server answers a Put of a version above 0 to a missing key with
`ErrNoKey` (`kvsrv1/server.go:70`), which the tests' sequential model (`models1/kv.go:62`) does not
accept: there it admits `ErrVersion` and `ErrMaybe`. `kvsrv_test.go:40` and `:89` make such Puts and
expect `ErrNoKey`, but straight through the clerk, so that they are in no history that Porcupine is
given. `kv_linearizable` leaves them out as well (`KeyExists`) and covers all others.
`tester1/group.go:254` says that a server is shut down "by isolating it"; when raft1's tests restart
one server while another is still down, ConnectAll enables the ends of the instance that is down
again (`group.go:158` looks at no table of live servers). Its calls then reach the others, and are
to Raft like calls that were delayed. `tester1/clnts.go:23` says that a client with no servers listed
cannot connect to any; `ConnectTo` enables the listed ends and disables no other, so after it this
holds for ends made afterwards only. `CutOffClient` therefore speaks of DisconnectAll and of how the
client was made. Nothing in the repository calls `ConnectTo`.

## 4. What is proved

The theorems hold for every value of the constants that satisfies the named assumptions.

| Module | Theorem | Statement |
|---|---|---|
| `RaftPeerProofs` | TypeCorrect | `Spec => []TypeOK` |
| | DiskCurrent | `Spec => []DiskIsCurrent` |
| | ServiceIsNeverAhead | `ApplySpec => []ServiceNeverAhead` |
| | UncompactedInOrder | `ApplySpec => AppliesInOrderUncompacted` |
| `RaftProofs` | ElectionSafe | `Spec => []ElectionSafety` |
| | VoteOnce | `Spec => VoteOncePerTerm` |
| | LogsMatch | `Spec => []LogMatching` |
| | TermsAreOrdered | `Spec => []TermsAscend` |
| | BackupsProgress | `Spec => []BackupProgress` |
| | LeadersComplete | `Spec => []LeaderCompleteness` |
| | StateMachinesSafe | `Spec => []StateMachineSafety` |
| | CommitsAreDurable | `Spec => []CommittedIsDurable` |
| | MatchesAreSound | `Spec => []MatchIndexIsSound` |
| | IndexesStayInRange | `Spec => []IndexesInRange` |
| `ServiceProofs` | ReplicasStayInStep | `Spec => []ReplicasAgree` |
| | SubmitKeepsPromise | `Spec => KeepsPromise` |
| | SubmitReturnsItsOwn | `Spec => []OwnResults` |
| | WithoutSnapshots | `Spec => Promise!Spec /\ [](inOrder /\ ReplicasAgree)`, if `maxraftstate = -1` |
| | JobTypeCorrect | `JobSpec => []TypeOK` |
| | OutputsAreComplete | `JobSpec => []OutputsComplete` |
| | NobodyLeavesEarly | `JobSpec => []ExitMeansFinished` |
| | OutputsAreFinal | `JobSpec => OutputsFinal` |
| `KVProofs` | KvsrvLinearizable | `LinearSpec => Linearizable` |
| | KvraftLinearizable | `RaftSpec => Linearizable` |
| | HolderKeepsLock | `LockSpec => []HeldIsNamed` |
| | OneHolder | `LockSpec => []MutualExclusion` |
| | NobodyLeavesLock | `LockSpec => []LockNotOrphaned` |
| | ClientsReadOwnPuts | `PutSpec => []ReadsOwnPut` |
| `ClusterProofs` | AckedSurvives | `LifeSpec => []AckedIsPersisted` |
| | NothingLost | `LifeSpec => PersistedStays` |
| | CutOffStays | `LifeSpec => []CutOffClient` |
| | RebalanceEven | `Spec => []EvenAfterSuccess` |
| | JoinsMoveLittle | `Spec => []JoinMovesLittle` |
| | LeavesMoveLittle | `Spec => []LeaveMovesLittle` |

**Raft** (assumes: `Server` is finite and not empty, `Nil` is not a peer). Election safety is not
inductive: two candidates of one term may each have counted votes, and that the majorities overlap
in a peer that voted once needs the peers' memories, the disks and the replies under way.
`ElectionInv` adds what is missing: a vote that is counted or travels is remembered by the voter as
its `votedFor`, or the voter is in a later term (`VotesRemembered`), no two candidates have a vote
of the same peer in the same term (`VotesUnique`), leaders and the senders of AppendEntries and
InstallSnapshot calls have won a majority (`LeadersElected`, `CallersElected`). `VotesRemembered`
survives a crash only because disk and memory agree between critical sections, so `DiskInv` (`TypeOK
/\ DiskIsCurrent /\ SnapshotsCover`) is proved first. Every action is shown to be an `ElectionStep`
(terms do not go back, votes of a term stay, counted votes only grow, new grants go to whom the voter
voted for, leaders stay or win), and one lemma shows that an `ElectionStep` preserves the invariant.
That two majorities meet is a lemma over finite sets.

*Logs.* Log matching and what follows are about entries that may be gone: cut by Snapshot, replaced by
InstallSnapshot, truncated by a later leader, or held by a leader that has since crashed. The invariant
says that there are whole logs which explain the state. `H[t]` is the log of the leader of term `t`
from index 1 on, as long as it became, and `T` the set of terms that had a leader (`Histories`: an
entry of term `u` in `H[t]` was `H[u]`'s at that index, with everything before it, and terms ascend).
`LogInv(H, T)` says that what a peer holds, snapshot and log together, is a part of the `H` of the last
term it holds (`PeerFollows`); that a leader holds all of its own (`LeaderFollows`); that the entries of
an AppendEntries call and the data of an InstallSnapshot call are parts of the caller's `H`
(`AppendFollows`, `SnapshotFollows`); and that a refusal names neither the refused index nor the term
that the caller has there (`Refuses`). `H` and `T` are no variables of the model: the invariant quantifies over them, and
the proof of a step gives the next ones (a leader's `H[t]` grows by Start, `T` by an election).
`LogMatching`, `TermsAscend` and `BackupProgress` follow from `LogInv`.

*Commitment.* The third witness `A[j][t]` is the highest index that peer `j` ever acknowledged to the
leader of `t`. `CommitInv(H, T, A)` says that a peer holds what it acknowledged,
unless a leader up to its own term came without it (`AcksFit`, `Superseded`); that an entry which a
leader appended in its own term is in the log of every later leader, or a majority has left that term
without acknowledging it (`Elected`, `Lost`); that votes went to logs that cover what the voter had
acknowledged (`VoteFits`, `AskFits`); that commitIndex, in the peers and in the calls under way, is
covered by an entry that a majority acknowledged to the leader that appended it (`CommitFits`,
`AppendCommits`, `SnapshotCommits`); that a reply acknowledges no more than was acknowledged (`AppendAnswers`, `SnapshotAnswers`); and that
matchIndex is acknowledged and nextIndex lies in the log or one after it (`LeaderFits`). This is the
argument of the Raft paper made inductive: it speaks of entries that may still be committed, not only
of those that are, and of what was acknowledged, not only of what is held, because replies come late.

The inductive invariant is `CommitsHold == ElectionInv /\ \E H, T, A : LogInv(H, T) /\
CommitInv(H, T, A)`. The proof is laid out as a tree of modules:

* `RaftInv` has the definitions that the branches share;
* `RaftPeerProofs` proves what a peer keeps by itself, the types, the disk and the votes, and with it
  `ElectionInv`;
* `RaftStepProofs` states `LogInv` and `CommitInv`, shows what a step must do to keep them (`LogStep` with
  `LogPreserved`, `CommitStep` with `CommitPreserved`), and that Start and crashes do, inside a handler as
  well as between two (`StartAdvances`, `FaultAdvances`);
* `RaftLeaderProofs` does the same for elections, the leader's calls and the replies to them
  (`ElectAdvances`, `SendAdvances`, `ReplyAdvances`);
* `RaftFollowerProofs` for the handlers of these calls, the applier and Snapshot (`RefusedAdvances`,
  `AcceptAdvances`, `InstallAdvances`, `ApplyAdvances`);
* `RaftProofs` puts the steps together (`NextCommits`) and draws the conclusions.

**Apply channel** (assumes the same; in `RaftPeerProofs`). `ApplyInv` speaks of indexes only. Nothing under way in applyCh, and
not the service, is ahead of lastApplied, and a snapshot message is not ahead of lastIncludedIndex
(`Behind`). It is inductive because Snapshot and InstallSnapshot never take lastApplied back, and a
restart empties the channel. At a peer without snapshots the batch under way is exactly what lies between
the service and lastApplied (`InStep`), so the next command read has the next index. The steps of the
peers are reduced to two kinds: those that move neither index (`Quiet`) and those that move both up
(`Compacts`). What the services have executed, and so what a snapshot of theirs holds, is left open.

**RSM** (in `ServiceProofs`; assumes: `None` is neither a call nor a server; any number of terms). `RInv` says: no two servers
lead the same term and the leader of the newest one holds what is committed (`LeaderInv`), so the
committed entries only grow; a log holds only commands of calls that have started, each of them once
(`EntriesInv`); whatever is to be delivered, was received or is covered by a snapshot is committed
(`IndexInv`), and as long as commands came in order every state machine and every snapshot, also one
on its way, is what the committed commands up to its index leave (`StateInv`); and what applyReader
sends, a channel holds or a call returns names a command that was executed last in the state that comes
with it and, in order, exactly the state it left (`Left`, `NoticeInv`). That is what the refinement needs:
Apply of the furthest server is the step of `Submissions` that executes a command, a return with OK
finds the caller's own Id, and everything else is a stutter or an ErrWrongLeader.

`ReplicasAgree` and `KeepsPromise` are conditional on the order of delivery, which raft.go does not
guarantee once it installs snapshots. Two theorems say what holds without that condition. The parts of
`NoticeInv` that do not speak of the order give `OwnResults`: OK is for the caller's own command,
committed and executed last in the state returned, whatever was delivered when. And with
`maxraftstate = -1` the batch of applierLoop is exactly what lies between the reader and `lastApplied`
(`PlainInv`), so commands always come in order, the replicas always agree, and `Submissions` is
implemented in full.

**MapReduce** (in `ServiceProofs`; assumes: numbers of tasks are naturals). The inductive invariant `JobInv` says what a
done task has left behind: a done map task has all its files (`MapsLeaveFiles`), reduce tasks are
only handed out once every map task is done (`ReducesAfterMaps`), a worker inside doReduce has read
every file before its loop variable (`ReducesReadAll`), a done reduce task has its output
(`ReducesLeaveOutput`), who leaves does so after the last reduce task (`ExitAfterReduces`). A late
report of a worker whose task was taken back is covered by the same facts: they are about workers,
and do not ask whether the coordinator still remembers them. There is one lemma per action.

**Key/value server and clerk** (assumes: `Empty` is a value, versions are naturals). That every step
maps to a step of `KvModel` or to a stutter needs to know what a clerk may conclude from an answer.
`LInv` says it: a Put that took effect left the key with a later version than its own, so no attempt
can take effect again; the first attempt of a Put that has not been answered has had no effect
(`PutInv`); ErrVersion to a first attempt means no effect, and means that a state with another version
was seen while the operation was under way (`PutReplied`); a Get's answer is the value of a state that was seen
(`GetInv`). Two lemmas about the map say what Get and Put answer and change, and each action is then
one lemma for the invariant and one for the refinement.

**Replicated service** (assumes in addition: there is a server, and the number of RPCs is bounded by
some natural). The same `KvModel` is implemented by the clerks, handlers and DoOp of kvraft1 over
`Submissions`, the promise that `SubmitKeepsPromise` proves of the RSM. Here a Put may take effect while
its clerk is already trying another server, and an RPC may be executed after its operation has
returned. `KInv` follows every RPC ever sent: none is ahead of its key (clients put a version the key
has had), and one that was executed, or that no operation under way owns, is *spent*, the key being
beyond its version (`RequestInv`). An operation returns only after one of its RPCs was executed, which
spends them all, so those left behind never take effect. The Put that does take effect belongs to exactly
one operation, which has not taken effect before (`EffectIsFresh`): this DoOp is the linearization
point. `ExecutedInv` keeps, for each RPC of an operation under way, what its answer entitles the
clerk to conclude.

**Load clients** (assumes: their key is a key, and the number of puts a natural). A client whose Put of version `v` returned OK made the version
`v + 1`. The invariant `PInv` says that while the key has that version it has that client's entry
(`Made`), and the same of the answer of a Get that is under way or was returned (`Got`): versions only
grow, and each has one value. So a client that reads back the version it made reads its own entry.

**Lock** (assumes: the clients' ids are values other than the free one). Mutual exclusion follows
from `HeldIsNamed`, since the key names one client. `HeldIsNamed` is not inductive: a Put of some
client may be under way. The invariant adds what every client knows (`Knows`): the version of a Put
under way is not in the future, and if it is the current one the key holds what the client read when
it chose to put (`Operation`); what a Get returned about the client itself still holds (`Read`); so
does what a Put returned, except for ErrMaybe (`Wrote`). The reason is that "the key names c" is
changed by Puts of c only: a Put of another client that succeeds found the key free or its own.

**Lifecycle** (assumes: there is at least one instance). Persisters are numbered; the invariant says
which one each instance was given (`OwnPersister`), which instance is registered at each step of a
shutdown and a start (`Registered`), and where the update of a call is (`Saved`): once the handler
has returned it is in the Persister of the instance that ran it, and once the reply was passed on it
is in the one that counts. The second needs that a reply is passed on only while that instance is
registered, and that the copy is taken after the server has left the table. That a client which was
cut off stays so needs that its list is without the server all the while (`ClntInv`), since that is
what the end of a later call is made by.

**Shard configurations** (assumes: 1 to 256 shards, gids are positive). The loop ends with an
even assignment because its exit condition says so; what needs the invariant is that no shard is
left unassigned or at a group that has gone, however the calls before were rejected: the first loop
has assigned what it passed (`Progress`), later loops only assign to groups that exist. That little
is moved needs invariants of the loops as well. In a join every group has at most one shard more than
each of the groups that were there before (`JoinProgress`), so that the group with fewest, when there
is something to move, is a joining one. In a leave the groups that stay are even among themselves all
the time (`LeaveProgress`), so that the second loop has nothing to do. Both rest on a lemma over finite
sets: a shard that goes to another group changes the two counts by one, and no other.

### What is only model-checked

* Liveness under fairness (`EveryoneGetsTheLock`, `JobFinishes`, `RebalanceEnds`, `SubmitNotices`, `CallsReturn`) is out of the prover's reach.
* What a recursive definition, a fold or a sort computes for every input cannot be proved (induction
  over data). `PutsCounted` sums the clients' counters with a fold, and `LinksAsAsked` compares the links
  with loops over sorted lists of servers.
* `ServicesAgree` and `CommittedStaysUncompacted` speak of what services executed and of logs at peers
  without snapshots, `ApplyTypeOK` of the commands in them. They do not follow from the theorems about
  `Raft`: its snapshots hold what the log holds, while a service whose snapshot and batch came out of
  order (the `apply_order` finding) hands Snapshot something else, which may travel to other peers.

## 5. What is not modelled

* Time: timeouts, heartbeat intervals and delays are nondeterministic; "at most 100 RPCs" style
  limits of the tests are not stated.
* `labgob` and JSON encoding, the dispatch by reflection of `labrpc`, its statistics and delays.
* `Key2Shard`, a hash of the key.
* `shardkv1`'s controller, shard groups and client: their methods are empty in the repository.
* The applications of `mrapps` and the sequential MapReduce: pure text functions.
* Of the test harness: the annotations of histories for the viewer (`tester1/annotation.go`), the
  set-up and statistics of a test (`tester1/config.go`) and the calls to the linearizability checker
  (`kvtest1/porcupine.go`), which keep no state that the services depend on; the append workload of
  `kvtest1/kvtest.go` (OneClientAppend, CheckAppends), which no test runs.
* The majority of `MakePartition` for an even number of servers: the tests have odd groups.
* A server that is shut down for good: what its leftover goroutines do has no promise to check.

## 6. What could follow

1. `ServicesAgree` as a theorem for runs without snapshots, on top of `CommitsHold`: there the apply
   channel is a refinement of `Raft`.
2. Liveness of Raft elections under an assumption on timeouts, as a small model of its own.
