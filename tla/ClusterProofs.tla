--------------------------- MODULE ClusterProofs ----------------------------
(***************************************************************************)
(* What is kept although servers and groups come and go: the updates that  *)
(* a server acknowledged, whenever it is shut down and started again, and  *)
(* an even assignment of the shards, whichever groups join and leave.      *)
(***************************************************************************)
EXTENDS Lifecycle, ShardCfg, TLAPS, FiniteSetTheorems

-----------------------------------------------------------------------------
(***************************************************************************)
(* Servers: what a server acknowledged survives its restarts, for every    *)
(* set of calls and every number of restarts.                              *)
(*                                                                         *)
(* The argument: every instance has a Persister of its own, and only the   *)
(* latest instance, as long as it is registered or until its Persister is  *)
(* copied, has the one that the next instance will be made from.  A reply  *)
(* is sent only while the instance that saved the update is registered;    *)
(* from then on the update is in every copy.                               *)
(***************************************************************************)

TypeInv ==
  /\ server \in Nat /\ latest \in Instance /\ tester \in {"up", "deleted", "down", "made"}
  /\ memory \in [Instance -> SUBSET Req]
  /\ given \in [Instance -> Persister] /\ content \in [Persister -> SUBSET Req]
  /\ at \in [Req -> {"called", "waiting", "replied", "true", "false"}]
  /\ to \in [Req -> Nat] /\ handler \in [Req -> {"none", "running", "returned"}]

\* The tester's steps: which instance is registered, and how many Persisters there are.
Registered ==
  /\ server = IF tester = "up" THEN latest ELSE NoServer
  /\ saved = made
  /\ made = IF tester = "down" THEN 2 * latest ELSE 2 * latest - 1

\* The instances have Persisters of their own; the last one's is the one to be copied,
\* until it has been.
OwnPersister ==
  \A i \in Instance : i <= latest =>
    /\ given[i] = 2 * i - 1
    /\ content[given[i]] \subseteq memory[i]

\* Where a call's update is.
Saved(c) ==
  /\ handler[c] # "none" => to[c] \in 1..latest
  /\ handler[c] = "returned" => c \in content[given[to[c]]]
  /\ at[c] = "waiting" => handler[c] # "none"
  /\ at[c] \in {"replied", "true"} => c \in Persisted

IInv == TypeInv /\ Registered /\ OwnPersister /\ \A c \in Req : Saved(c)

LEMMA InitInv ==
  LifeInit => IInv
BY LifecycleAssumption
   DEF LifeInit, IInv, TypeInv, Registered, OwnPersister, Saved, Instance, Persister, NoServer

\* The odd Persisters are those of the instances.
LEMMA Bounds ==
  ASSUME IInv
  PROVE  /\ MaxInstance \in Nat \ {0} /\ latest \in 1..MaxInstance
         /\ made \in Nat /\ saved \in Persister
         /\ \A i \in 1..latest : i \in Instance /\ given[i] = 2 * i - 1 /\ given[i] \in Persister
         /\ tester # "down" => saved = given[latest]
BY LifecycleAssumption DEF IInv, TypeInv, Registered, OwnPersister, Instance, Persister

\* The steps of processReq up to the handler's, and of the client.
LEMMA WaitInv ==
  ASSUME IInv, NEW c \in Req, makeEnd \/ Deliver(c) \/ Drop(c) \/ StopWaiting(c)
  PROVE  IInv'
<1>1. CASE makeEnd
  BY <1>1 DEF makeEnd, serverVars, callVars, IInv, TypeInv, Registered, OwnPersister, Saved,
              Persisted
<1>2. CASE Deliver(c)
  <2>1. TypeInv'
    BY <1>2 DEF Deliver, Goto, serverVars, IInv, TypeInv
  <2>2. Registered' /\ OwnPersister'
    BY <1>2 DEF Deliver, serverVars, IInv, Registered, OwnPersister
  <2>3. server \in 1..latest
    BY <1>2, Bounds DEF Deliver, IInv, Registered, NoServer
  <2>4. ASSUME NEW d \in Req PROVE Saved(d)'
    BY <1>2, <2>3, <2>4 DEF Deliver, Goto, serverVars, IInv, TypeInv, Saved, Persisted
  <2>5. QED
    BY <2>1, <2>2, <2>4 DEF IInv
<1>3. CASE Drop(c) \/ StopWaiting(c)
  BY <1>3 DEF Drop, StopWaiting, Goto, serverVars, IInv, TypeInv, Registered, OwnPersister,
              Saved, Persisted
<1>4. QED
  BY <1>1, <1>2, <1>3

\* The reply: isServerDead has said that the instance is still the registered one.
LEMMA ReplyInv ==
  ASSUME IInv, NEW c \in Req, Reply(c) \/ Receive(c)
  PROVE  IInv'
<1>1. TypeInv' /\ Registered' /\ OwnPersister'
  BY DEF Reply, Receive, Goto, serverVars, IInv, TypeInv, Registered, OwnPersister
<1>2. ASSUME Reply(c), at'[c] = "replied" PROVE c \in Persisted
  <2>1. server = to[c] /\ to[c] \in 1..latest /\ c \in content[given[to[c]]]
    BY <1>2 DEF Reply, Goto, isServerDead, IInv, TypeInv, Saved
  <2>2. tester = "up" /\ to[c] = latest
    BY <2>1, Bounds DEF IInv, Registered, NoServer
  <2>3. QED
    BY <2>1, <2>2, Bounds DEF Persisted
<1>3. ASSUME NEW d \in Req PROVE Saved(d)'
  <2>1. CASE Reply(c)
    BY <1>2, <1>3, <2>1 DEF Reply, Goto, serverVars, IInv, TypeInv, Saved, Persisted
  <2>2. CASE Receive(c)
    BY <1>3, <2>2 DEF Receive, Goto, serverVars, IInv, TypeInv, Saved, Persisted
  <2>3. QED
    BY <2>1, <2>2
<1>4. QED
  BY <1>1, <1>3 DEF IInv

\* A handler saves into the Persister of its own instance, and what was there.
LEMMA HandleSaves ==
  ASSUME IInv, NEW c \in Req, Handle(c)
  PROVE  /\ to[c] \in 1..latest /\ to[c] \in Instance /\ given[to[c]] \in Persister
         /\ content'[given[to[c]]] = memory[to[c]] \cup {c}
         /\ memory'[to[c]] = memory[to[c]] \cup {c}
         /\ \A p \in Persister : p # given[to[c]] => content'[p] = content[p]
         /\ \A p \in Persister : content[p] \subseteq content'[p]
<1>1. to[c] \in 1..latest
  BY DEF Handle, IInv, Saved
<1>2. to[c] \in Instance /\ given[to[c]] \in Persister
  BY <1>1, Bounds
<1>3. content[given[to[c]]] \subseteq memory[to[c]]
  BY <1>1, <1>2 DEF IInv, OwnPersister
<1>4. QED
  BY <1>1, <1>2, <1>3 DEF Handle, IInv, TypeInv

LEMMA HandleInv ==
  ASSUME IInv, NEW c \in Req, Handle(c)
  PROVE  IInv'
<1>1. TypeInv' /\ Registered'
  <2>1. to[c] \in Instance /\ given[to[c]] \in Persister
    BY HandleSaves
  <2>2. QED
    BY <2>1 DEF Handle, serverVars, IInv, TypeInv, Registered
<1>2. OwnPersister'
  <2>1. SUFFICES ASSUME NEW i \in Instance, i <= latest
                 PROVE  given[i] = 2 * i - 1 /\ content'[given[i]] \subseteq memory'[i]
    BY DEF OwnPersister, Handle, serverVars
  <2>2. given[i] = 2 * i - 1 /\ content[given[i]] \subseteq memory[i] /\ given[i] \in Persister
    BY <2>1 DEF IInv, OwnPersister, TypeInv
  <2>3. CASE i = to[c]
    BY <2>2, <2>3, HandleSaves
  <2>4. CASE i # to[c]
    <3>1. given[i] # given[to[c]]
      BY <2>2, <2>4, HandleSaves, Bounds DEF Instance
    <3>2. memory'[i] = memory[i]
      BY <2>4 DEF Handle, IInv, TypeInv
    <3>3. QED
      BY <2>2, <3>1, <3>2, HandleSaves
  <2>5. QED
    BY <2>3, <2>4
<1>3. ASSUME NEW d \in Req PROVE Saved(d)'
  <2>1. given' = given /\ saved' = saved /\ latest' = latest /\ to' = to /\ at' = at
    BY DEF Handle, serverVars
  <2>2. handler'[d] = "none" <=> handler[d] = "none"
    BY DEF Handle, IInv, TypeInv
  <2>3. handler'[d] = "returned" => d = c \/ handler[d] = "returned"
    BY DEF Handle, IInv, TypeInv
  <2>4. handler'[d] = "returned" => d \in content'[given[to[d]]]
    <3>1. CASE d = c
      BY <3>1, HandleSaves
    <3>2. CASE handler[d] = "returned"
      <4>1. given[to[d]] \in Persister /\ d \in content[given[to[d]]]
        BY <3>2, Bounds DEF IInv, Saved
      <4>2. QED
        BY <4>1, HandleSaves
    <3>3. QED
      BY <2>3, <3>1, <3>2
  <2>5. at[d] \in {"replied", "true"} => d \in content'[saved]
    BY Bounds, HandleSaves DEF IInv, Saved, Persisted
  <2>6. QED
    BY <2>1, <2>2, <2>4, <2>5 DEF IInv, Saved, Persisted
<1>4. QED
  BY <1>1, <1>2, <1>3 DEF IInv

\* A copy is a new Persister with the same content.
LEMMA Copied ==
  ASSUME IInv, Copy(saved), made + 1 \in Persister
  PROVE  /\ content' \in [Persister -> SUBSET Req]
         /\ saved' = made + 1 /\ made' = made + 1
         /\ content'[saved'] = content[saved]
         /\ \A i \in 1..latest : content'[given[i]] = content[given[i]]
<1>1. \A i \in 1..latest : given[i] # made + 1 /\ given[i] \in Persister
  BY Bounds DEF IInv, Registered
<1>2. QED
  BY <1>1, Bounds DEF Copy, IInv, TypeInv

LEMMA TesterInv ==
  ASSUME IInv, Tester
  PROVE  IInv'
<1>1. CASE DeleteServer \/ AddServer
  <2>1. TypeInv' /\ Registered'
    <3>1. latest \in Nat
      BY Bounds
    <3>2. QED
      BY <1>1, <3>1 DEF DeleteServer, AddServer, callVars, IInv, TypeInv, Registered, NoServer
  <2>2. OwnPersister' /\ \A c \in Req : Saved(c)'
    BY <1>1 DEF DeleteServer, AddServer, callVars, IInv, OwnPersister, Saved, Persisted
  <2>3. QED
    BY <2>1, <2>2 DEF IInv
<1>2. CASE Clnt
  BY <1>2 DEF Clnt, serverVars, callVars, IInv, TypeInv, Registered, OwnPersister, Saved,
              Persisted
<1>3. CASE CopyPersister
  <2>1. made + 1 \in Persister /\ made = 2 * latest - 1
    BY <1>3, Bounds DEF CopyPersister, IInv, Registered, Persister
  <2>2. /\ content' \in [Persister -> SUBSET Req]
        /\ saved' = made + 1 /\ made' = made + 1 /\ content'[saved'] = content[saved]
        /\ \A i \in 1..latest : content'[given[i]] = content[given[i]]
    BY <1>3, <2>1, Copied DEF CopyPersister
  <2>3. TypeInv'
    BY <1>3, <2>2 DEF CopyPersister, callVars, IInv, TypeInv
  <2>4. Registered'
    BY <1>3, <2>1, <2>2, Bounds DEF CopyPersister, IInv, Registered
  <2>5. OwnPersister'
    BY <1>3, <2>2 DEF CopyPersister, IInv, OwnPersister, Instance
  <2>6. ASSUME NEW d \in Req PROVE Saved(d)'
    BY <1>3, <2>2 DEF CopyPersister, callVars, IInv, Saved, Persisted
  <2>7. QED
    BY <2>3, <2>4, <2>5, <2>6 DEF IInv
<1>4. CASE MakeServer
  <2>1. /\ made + 1 \in Persister /\ made = 2 * latest /\ latest + 1 \in Instance
        /\ made + 1 = 2 * (latest + 1) - 1
    BY <1>4, Bounds DEF MakeServer, IInv, Registered, Persister, Instance
  <2>2. /\ content' \in [Persister -> SUBSET Req]
        /\ saved' = made + 1 /\ made' = made + 1 /\ content'[saved'] = content[saved]
        /\ \A i \in 1..latest : content'[given[i]] = content[given[i]]
    BY <1>4, <2>1, Copied DEF MakeServer
  <2>3. /\ latest' = latest + 1 /\ tester' = "made" /\ server' = server
        /\ given' = [given EXCEPT ![latest + 1] = made + 1]
        /\ memory' = [memory EXCEPT ![latest + 1] = content[saved]]
        /\ UNCHANGED callVars
    BY <1>4 DEF MakeServer
  <2>4. TypeInv'
    BY <2>1, <2>2, <2>3, Bounds DEF callVars, IInv, TypeInv
  <2>5. Registered'
    BY <1>4, <2>1, <2>2, <2>3, Bounds DEF MakeServer, IInv, Registered
  <2>6. \A i \in 1..latest : given'[i] = given[i] /\ memory'[i] = memory[i]
    BY <2>3, Bounds DEF IInv, TypeInv
  <2>7. OwnPersister'
    <3>1. given'[latest + 1] = saved' /\ memory'[latest + 1] = content[saved]
      BY <2>1, <2>2, <2>3 DEF IInv, TypeInv
    <3>2. SUFFICES ASSUME NEW i \in Instance, i <= latest + 1
                   PROVE  given'[i] = 2 * i - 1 /\ content'[given'[i]] \subseteq memory'[i]
      BY <2>3 DEF OwnPersister
    <3>3. CASE i = latest + 1
      BY <2>1, <2>2, <3>1, <3>3
    <3>4. CASE i # latest + 1
      <4>1. i \in 1..latest
        BY <3>2, <3>4, Bounds DEF Instance
      <4>2. QED
        BY <2>2, <2>6, <4>1 DEF IInv, OwnPersister, Instance
    <3>5. QED
      BY <3>3, <3>4
  <2>8. ASSUME NEW d \in Req PROVE Saved(d)'
    <3>1. Saved(d) /\ to' = to /\ at' = at /\ handler' = handler
      BY <2>3 DEF callVars, IInv
    <3>2. handler[d] # "none" => to[d] \in 1..latest' /\ to[d] \in 1..latest
      BY <2>3, <3>1, Bounds DEF Saved
    <3>3. QED
      BY <2>2, <2>6, <3>1, <3>2 DEF Saved, Persisted
  <2>9. QED
    BY <2>4, <2>5, <2>7, <2>8 DEF IInv
<1>5. QED
  BY <1>1, <1>2, <1>3, <1>4 DEF Tester

LEMMA NextInv ==
  IInv /\ [LifeNext]_lifeVars => IInv'
<1> SUFFICES ASSUME IInv, [LifeNext]_lifeVars PROVE IInv'
  OBVIOUS
<1>1. CASE UNCHANGED lifeVars
  BY <1>1 DEF lifeVars, serverVars, callVars, IInv, TypeInv, Registered, OwnPersister, Saved,
              Persisted
<1>2. CASE LifeNext
  BY <1>2, WaitInv, ReplyInv, HandleInv, TesterInv DEF LifeNext, Network
<1>3. QED
  BY <1>1, <1>2

THEOREM LifecycleInv == LifeSpec => []IInv
BY InitInv, NextInv, PTL DEF LifeSpec

\* The update of a call that returned true is in the Persister from which the next instance
\* of the server will be made, whenever the server was shut down and started again.
THEOREM AckedSurvives == LifeSpec => []AckedIsPersisted
<1>1. IInv => AckedIsPersisted
  BY DEF IInv, Saved, AckedIsPersisted
<1>2. QED
  BY <1>1, LifecycleInv, PTL

\* What the next instance would find only grows: no late handler of an instance that was
\* shut down, and no copy, takes an update out.
THEOREM NothingLost == LifeSpec => PersistedStays
<1>1. IInv /\ [LifeNext]_lifeVars => [Persisted \subseteq Persisted']_lifeVars
  <2> SUFFICES ASSUME IInv, LifeNext PROVE Persisted \subseteq Persisted'
    OBVIOUS
  <2>1. CASE \E c \in Req : Handle(c)
    <3>1. PICK c \in Req : Handle(c)
      BY <2>1
    <3>2. saved' = saved
      BY <3>1 DEF Handle, serverVars
    <3>3. QED
      BY <3>1, <3>2, HandleSaves, Bounds DEF Persisted
  <2>2. CASE \E c \in Req : Network(c)
    BY <2>2 DEF Network, makeEnd, Deliver, Drop, StopWaiting, Reply, Receive, serverVars,
                Persisted
  <2>3. CASE DeleteServer \/ AddServer \/ Clnt
    BY <2>3 DEF DeleteServer, AddServer, Clnt, serverVars, Persisted
  <2>4. CASE CopyPersister \/ MakeServer
    <3>1. made + 1 \in Persister /\ Copy(saved)
      BY <2>4, Bounds
         DEF CopyPersister, MakeServer, IInv, Registered, Persister, Instance
    <3>2. QED
      BY <3>1, Copied DEF Persisted
  <2>5. QED
    BY <2>1, <2>2, <2>3, <2>4 DEF LifeNext, Tester
<1>2. QED
  BY <1>1, LifecycleInv, PTL DEF LifeSpec, PersistedStays

-----------------------------------------------------------------------------
(* The client *)

\* What the client's end and its list are; who is cut off may not make an end.
ClntInv ==
  /\ srvs \in {"all", "none"} /\ end \in {"none", "enabled", "disabled", "deleted"}
  /\ cutOff \in BOOLEAN /\ (cutOff => srvs = "none")

\* The steps of the client keep it cut off until it is connected again; the others leave
\* its end and its list alone.
LEMMA ClntKeeps ==
  ASSUME ClntInv, CutOffClient, [LifeNext]_lifeVars
  PROVE  ClntInv' /\ CutOffClient'
<1>1. CASE makeEnd
  BY <1>1 DEF makeEnd, allowed, ClntInv, CutOffClient
<1>2. CASE Clnt
  <2>1. CASE ClntConnect
    BY Zenon, <2>1 DEF ClntConnect, Enable, ClntInv, CutOffClient
  <2>2. CASE ClntConnectOthers
    BY Zenon, <2>2 DEF ClntConnectOthers, ClntInv, CutOffClient
  <2>3. CASE ClntDisconnect
    BY Zenon, <2>3 DEF ClntDisconnect, Enable, ClntInv, CutOffClient
  <2>4. CASE ClntDisconnectAll
    BY Zenon, <2>4 DEF ClntDisconnectAll, Enable, ClntInv, CutOffClient
  <2>5. CASE remove
    BY Zenon, <2>5 DEF remove, ClntInv, CutOffClient
  <2>6. QED
    BY Zenon, <1>2, <2>1, <2>2, <2>3, <2>4, <2>5 DEF Clnt
<1>3. CASE UNCHANGED clntVars
  BY <1>3 DEF clntVars, ClntInv, CutOffClient
<1>4. [LifeNext]_lifeVars => makeEnd \/ Clnt \/ UNCHANGED clntVars
  BY DEF LifeNext, Network, Tester, Deliver, Drop, Handle, StopWaiting, Reply, Receive,
     DeleteServer,
         CopyPersister, MakeServer, AddServer, lifeVars
<1>5. QED
  BY <1>1, <1>2, <1>3, <1>4

\* A client that was made for other servers, or that DisconnectAll has cut off, does not
\* reach the server, not even through an end that it makes afterwards or after it is connected
\* to others, until it is connected to the server.
THEOREM CutOffStays == LifeSpec => []CutOffClient
<1>1. LifeInit => ClntInv /\ CutOffClient
  BY DEF LifeInit, ClntInv, CutOffClient
<1>2. QED
  BY <1>1, ClntKeeps, PTL DEF LifeSpec

-----------------------------------------------------------------------------
(***************************************************************************)
(* Groups: rebalance, for every number of shards and of groups.  Its first *)
(* loop leaves no shard behind it without a group, its second keeps that   *)
(* and ends only when the largest and the smallest group are even.         *)
(* Neither moves a shard that it need not, because the groups that a call  *)
(* leaves alone stay even among themselves.                                *)
(***************************************************************************)

\* How far Rebalance has come.
Progress ==
  /\ pc \in {"assign", "move"} => Groups # {}
  /\ pc = "assign" => \A s \in Shard : s < shard => Shards[s] \in Groups
  /\ pc = "move" => \A s \in Shard : Shards[s] \in Groups
  /\ pc # "idle" => call.ok

BalanceInv == TypeOK /\ Progress /\ EvenAfterSuccess

\* analyze counts the shards of a group.
LEMMA CountNat == \A g : Count(g) \in Nat
<1> SUFFICES ASSUME NEW g PROVE Count(g) \in Nat
  OBVIOUS
<1>1. IsFiniteSet(0..NShards)
  BY FS_Interval, ShardAssumption
<1>2. {s \in Shard : Shards[s] = g} \subseteq 0..NShards
  BY DEF Shard
<1> QED
  BY Zenon, <1>1, <1>2, FS_Subset, FS_CardinalityType DEF Count

\* MakeShardConfig satisfies the invariant.
LEMMA BalanceInit == Init => BalanceInv
  BY ShardAssumption DEF Init, MakeShardConfig, BalanceInv, TypeOK, Progress, EvenAfterSuccess,
     Succeeded, CheckConfig, Shard

\* CheckConfig is a truth value, which call.balanced records.
LEMMA CheckConfigBoolean == CheckConfig \in BOOLEAN
  BY DEF CheckConfig

\* JoinBalance up to Rebalance.
LEMMA JoinKeeps ==
  ASSUME BalanceInv, JoinBalance
  PROVE  BalanceInv'
<1>1. PICK gids \in (SUBSET Gid) \ {{}} : Join(gids) \/ ReJoin(gids)
  BY DEF JoinBalance
<1>2. call'.ok \in BOOLEAN /\ call' \in [kind : {"join", "leave"}, gids : SUBSET Gid,
        shards : [Shard -> Gid \cup {0}], balanced : BOOLEAN, ok : BOOLEAN]
  <2>1. \E b, ok \in BOOLEAN : call' = [kind |-> "join", gids |-> gids, shards |-> Shards,
                                      balanced |-> b, ok |-> ok]
    BY <1>1, CheckConfigBoolean, Zenon DEF Join, ReJoin, Call
  <2> QED
    BY <2>1 DEF BalanceInv, TypeOK
<1>3. CASE Join(gids)
  BY <1>1, <1>2, <1>3 DEF Join, Call, BalanceInv, TypeOK, Progress, EvenAfterSuccess, Succeeded
<1>4. CASE ReJoin(gids)
  BY <1>1, <1>2, <1>4 DEF JoinBalance, ReJoin, Call, BalanceInv, TypeOK, Progress,
     EvenAfterSuccess, Succeeded
<1> QED
  BY <1>1, <1>3, <1>4

\* LeaveBalance up to Rebalance.
LEMMA LeaveKeeps ==
  ASSUME BalanceInv, LeaveBalance
  PROVE  BalanceInv'
<1>1. PICK n \in 1..MaxGids : \E gids \in [1..n -> Gid] : Leave(gids)
  BY DEF LeaveBalance
<1>2. PICK gids \in [1..n -> Gid] : Leave(gids)
  BY <1>1
<1>3. n \in Nat /\ Len(gids) = n
  BY <1>1, <1>2, ShardAssumption
<1>4. Named(gids) \subseteq Gid
  BY <1>2, <1>3 DEF Named
<1>5. call'.ok \in BOOLEAN /\ call' \in [kind : {"join", "leave"}, gids : SUBSET Gid,
        shards : [Shard -> Gid \cup {0}], balanced : BOOLEAN, ok : BOOLEAN]
  <2>1. \E b, ok \in BOOLEAN : call' = [kind |-> "leave", gids |-> Named(gids), shards |-> Shards,
                                      balanced |-> b, ok |-> ok]
    BY <1>2, CheckConfigBoolean, Zenon DEF Leave, Call
  <2> QED
    BY <2>1, <1>4 DEF BalanceInv, TypeOK
<1>6. CASE Deleted(gids) = Len(gids)
  BY <1>2, <1>5, <1>6 DEF Leave, Call, BalanceInv, TypeOK, Progress, EvenAfterSuccess, Succeeded
<1>7. CASE Deleted(gids) # Len(gids)
  BY <1>2, <1>5, <1>7 DEF LeaveBalance, Leave, Call, BalanceInv, TypeOK, Progress,
     EvenAfterSuccess, Succeeded
<1> QED
  BY <1>6, <1>7

\* Every step of Rebalance.
LEMMA RebalanceKeeps ==
  ASSUME BalanceInv, Rebalance
  PROVE  BalanceInv'
<1>1. CASE Unassign
  BY <1>1 DEF Unassign, BalanceInv, TypeOK, Progress, EvenAfterSuccess, Succeeded, CheckConfig
<1>2. CASE Begin
  BY <1>2, ShardAssumption DEF Begin, config, BalanceInv, TypeOK, Progress, EvenAfterSuccess,
     Succeeded, Shard
<1>3. CASE Assign
  <2>1. shard \in Shard /\ shard + 1 \in 0..NShards
    BY <1>3, ShardAssumption DEF Assign, BalanceInv, TypeOK, Shard
  <2>2. /\ Shards' \in [Shard -> Gid \cup {0}]
        /\ Shards'[shard] \in Groups
        /\ \A s \in Shard : s # shard => Shards'[s] = Shards[s]
    BY <1>3, <2>1 DEF Assign, BalanceInv, TypeOK
  <2>3. \A s \in Shard : s < shard + 1 => Shards'[s] \in Groups
    BY <1>3, <2>1, <2>2, ShardAssumption DEF Assign, BalanceInv, TypeOK, Progress, Shard
  <2> QED
    BY <1>3, <2>1, <2>2, <2>3 DEF Assign, BalanceInv, TypeOK, Progress, EvenAfterSuccess,
       Succeeded
<1>4. CASE Assigned
  <2>1. \A s \in Shard : Shards[s] \in Groups
    BY <1>4, ShardAssumption DEF Assigned, BalanceInv, Progress, Shard
  <2> QED
    BY <1>4, <2>1 DEF Assigned, config, BalanceInv, TypeOK, Progress, EvenAfterSuccess, Succeeded
<1>5. CASE Move
  <2>1. PICK mg, lg \in Groups : MoveOne(mg, lg)
    BY <1>5 DEF Move
  <2>2. /\ Shards' \in [Shard -> Gid \cup {0}]
        /\ \A s \in Shard : Shards'[s] \in Groups
    BY <1>5, <2>1 DEF Move, MoveOne, BalanceInv, TypeOK, Progress
  <2> QED
    BY <1>5, <2>2 DEF Move, BalanceInv, TypeOK, Progress, EvenAfterSuccess, Succeeded
<1>6. CASE Balanced
  <2>1. PICK mg, lg \in Groups : IsMost(mg) /\ IsLeast(lg) /\ Even(Count(mg), Count(lg))
    BY <1>6 DEF Balanced
  <2>2. ASSUME NEW g \in Groups, NEW h \in Groups
        PROVE  Count(g) <= Count(h) + 1
    <3>1. Count(g) <= Count(mg) /\ Count(lg) <= Count(h) /\ Count(mg) < Count(lg) + 2
      BY <2>1, CountNat DEF IsMost, IsLeast, Even
    <3> QED
      BY <3>1, CountNat
  <2>3. CheckConfig
    BY <1>6, <2>2 DEF Balanced, BalanceInv, Progress, CheckConfig
  <2>4. CheckConfig'
    BY <1>6, <2>3 DEF Balanced, config, CheckConfig, Count
  <2> QED
    BY <1>6, <2>4, ShardAssumption DEF Balanced, config, BalanceInv, TypeOK, Progress,
       EvenAfterSuccess
<1> QED
  BY <1>1, <1>2, <1>3, <1>4, <1>5, <1>6 DEF Rebalance

\* The invariant is inductive.
LEMMA BalanceAlways == Spec => []BalanceInv
<1>1. BalanceInv /\ UNCHANGED vars => BalanceInv'
  BY DEF BalanceInv, TypeOK, Progress, EvenAfterSuccess, Succeeded, CheckConfig, Count, vars,
     config
<1>2. BalanceInv /\ [Next]_vars => BalanceInv'
  BY <1>1, JoinKeeps, LeaveKeeps, RebalanceKeeps DEF Next
<1> QED
  BY BalanceInit, <1>2, PTL DEF Spec

\* A call of JoinBalance or LeaveBalance that returns true leaves what CheckConfig asks
\* for, for every number of shards and every set of gids.
THEOREM RebalanceEven == Spec => []EvenAfterSuccess
<1>1. BalanceInv => EvenAfterSuccess
  BY DEF BalanceInv
<1> QED
  BY BalanceAlways, <1>1, PTL

-----------------------------------------------------------------------------
(* How little a call moves *)

\* A join under way from an even configuration: the groups that were there stay within
\* one of every other, so that only the joining ones can be the group with fewest.
Old == Groups \ call.gids

JoinProgress ==
  call.kind = "join" /\ call.ok /\ call.balanced =>
    /\ \A s \in Shard : Shards[s] = call.shards[s] \/ Shards[s] \in call.gids
    /\ pc # "idle" =>
         /\ call.gids # {} /\ call.gids \subseteq Groups
         /\ \A g \in Groups, h \in Old : Count(g) <= Count(h) + 1
    /\ pc \in {"rebalance", "assign"} /\ Old # {} => \A s \in Shard : Shards[s] \in Old

\* A leave under way from an even configuration: the groups that stay are even all the
\* time, so that the second loop has nothing to move.
LeaveProgress ==
  call.kind = "leave" /\ call.ok /\ call.balanced =>
    /\ \A s \in Shard : call.shards[s] \in call.gids \/ Shards[s] = call.shards[s]
    /\ pc # "idle" =>
         /\ \A s \in Shard : call.shards[s] \in call.gids \/ Shards[s] \in Groups
         /\ \A g, h \in Groups : Count(g) <= Count(h) + 1

\* The shards of a group are finitely many.
LEMMA ShardsFinite ==
  ASSUME NEW f, NEW g
  PROVE  IsFiniteSet({s \in Shard : f[s] = g})
<1>1. IsFiniteSet(0..NShards)
  BY FS_Interval, ShardAssumption
<1>2. {s \in Shard : f[s] = g} \subseteq 0..NShards
  BY DEF Shard
<1> QED
  BY Zenon, <1>1, <1>2, FS_Subset

\* One more element.
LEMMA OneMore ==
  ASSUME NEW S, NEW T, NEW x, IsFiniteSet(S), x \notin S, T = S \cup {x}
  PROVE  Cardinality(T) = Cardinality(S) + 1
  BY FS_AddElement

\* Shard s goes from group a to group b.
Reassigned(s, a, b) ==
  s \in Shard /\ Shards[s] = a /\ a # b /\ Shards' = [Shards EXCEPT ![s] = b]

\* A shard that goes to another group counts there, and no more where it was.
LEMMA CountReassigned ==
  ASSUME TypeOK, NEW s, NEW a, NEW b, Reassigned(s, a, b)
  PROVE  /\ Count(b)' = Count(b) + 1
         /\ Count(a) = Count(a)' + 1
<1> DEFINE Of(f, g) == {x \in Shard : f[x] = g}
<1>0. DOMAIN Shards = Shard
  BY DEF TypeOK
<1>1. /\ s \in Shard /\ Shards[s] = a /\ a # b /\ Shards'[s] = b
      /\ \A x \in Shard : x # s => Shards'[x] = Shards[x]
  BY <1>0 DEF Reassigned
<1>2. \A g : IsFiniteSet(Of(Shards, g)) /\ IsFiniteSet(Of(Shards', g))
  BY Zenon, ShardsFinite
<1>3. /\ Of(Shards', b) = Of(Shards, b) \cup {s} /\ s \notin Of(Shards, b)
      /\ Of(Shards, a) = Of(Shards', a) \cup {s} /\ s \notin Of(Shards', a)
  BY <1>1
<1>4. \A g : Count(g) = Cardinality(Of(Shards, g)) /\ Count(g)' = Cardinality(Of(Shards', g))
  BY DEF Count
<1> HIDE DEF Of
<1>5. Cardinality(Of(Shards', b)) = Cardinality(Of(Shards, b)) + 1
  BY Zenon, <1>2, <1>3, OneMore
<1>6. Cardinality(Of(Shards, a)) = Cardinality(Of(Shards', a)) + 1
  BY Zenon, <1>2, <1>3, OneMore
<1>7. Count(b)' = Count(b) + 1
  BY Zenon, <1>4, <1>5
<1>8. Count(a) = Count(a)' + 1
  BY Zenon, <1>4, <1>6
<1> QED
  BY Zenon, <1>7, <1>8

\* Group g has as many shards as it had.
SameCount(g) == Count(g)' = Count(g)

\* The other groups have what they had.
LEMMA CountOthers ==
  ASSUME TypeOK, NEW s, NEW a, NEW b, Reassigned(s, a, b), NEW g, g # a, g # b
  PROVE  SameCount(g)
<1>1. DOMAIN Shards = Shard
  BY DEF TypeOK
<1>2. \A x \in Shard : Shards'[x] = g <=> Shards[x] = g
  BY <1>1 DEF Reassigned
<1>3. {x \in Shard : Shards'[x] = g} = {x \in Shard : Shards[x] = g}
  BY Zenon, <1>2
<1> QED
  BY Zenon, <1>3 DEF Count, SameCount

\* The counts are numbers after a step, too.
LEMMA CountNatNext == \A g : Count(g)' \in Nat
<1> SUFFICES ASSUME NEW g PROVE Cardinality({s \in Shard : Shards'[s] = g}) \in Nat
  BY Zenon DEF Count
<1> QED
  BY Zenon, ShardsFinite, FS_CardinalityType

\* A group without shards has none.
LEMMA CountNone ==
  ASSUME NEW g, \A s \in Shard : Shards[s] # g
  PROVE  Count(g) = 0
<1>1. {s \in Shard : Shards[s] = g} = {}
  OBVIOUS
<1> QED
  BY <1>1, FS_EmptySet DEF Count

\* Joining, up to Rebalance.
LEMMA JoinBegins ==
  ASSUME BalanceInv, JoinBalance
  PROVE  JoinProgress' /\ LeaveProgress'
<1>1. PICK gids \in (SUBSET Gid) \ {{}} : Join(gids) \/ ReJoin(gids)
  BY DEF JoinBalance
<1>2. CASE ReJoin(gids)
  BY <1>2 DEF ReJoin, Call, JoinProgress, LeaveProgress
<1>3. CASE Join(gids)
  <2>1. /\ call'.kind = "join" /\ call'.gids = gids /\ call'.shards = Shards
        /\ call'.balanced = CheckConfig /\ Shards' = Shards
        /\ Groups' = Groups \cup gids /\ gids \cap Groups = {}
    BY <1>3 DEF Join, Call
  <2>2. Old' = Groups /\ \A g : Count(g)' = Count(g)
    BY <2>1 DEF Old, Count
  <2>3. SUFFICES ASSUME CheckConfig PROVE JoinProgress'
    BY <2>1 DEF JoinProgress, LeaveProgress
  <2>4. Groups # {} => \A s \in Shard : Shards[s] \in Groups
    BY <2>3 DEF CheckConfig
  <2>5. ASSUME NEW g \in Groups \cup gids, NEW h \in Groups
        PROVE  Count(g) <= Count(h) + 1
    <3>1. CASE g \in Groups
      BY <2>3, <3>1 DEF CheckConfig
    <3>2. CASE g \notin Groups
      BY <2>4, <3>2, CountNone, CountNat
    <3> QED
      BY <3>1, <3>2
  <2>6. gids # {}
    BY <1>1
  <2> QED
    BY <2>1, <2>2, <2>4, <2>5, <2>6 DEF JoinProgress
<1> QED
  BY <1>1, <1>2, <1>3

\* Leaving, up to Rebalance.
LEMMA LeaveBegins ==
  ASSUME BalanceInv, LeaveBalance
  PROVE  JoinProgress' /\ LeaveProgress'
<1>1. PICK n \in 1..MaxGids : \E gids \in [1..n -> Gid] : Leave(gids)
  BY DEF LeaveBalance
<1>2. PICK gids \in [1..n -> Gid] : Leave(gids)
  BY <1>1
<1>3. n \in Nat /\ n > 0 /\ Len(gids) = n
  BY <1>1, <1>2, ShardAssumption
<1>4. CASE Deleted(gids) # Len(gids)
  BY <1>2, <1>4 DEF Leave, Call, JoinProgress, LeaveProgress
<1>5. CASE Deleted(gids) = Len(gids)
  <2>1. /\ call'.kind = "leave" /\ call'.gids = Named(gids) /\ call'.shards = Shards
        /\ call'.balanced = CheckConfig /\ Shards' = Shards /\ Groups' = Groups \ Named(gids)
    BY <1>2, <1>5 DEF Leave, Call, Named
  <2>2. \A g : Count(g)' = Count(g)
    BY <2>1 DEF Count
  <2>3. Groups # {}
    <3> SUFFICES ASSUME gids[1] \notin Groups PROVE FALSE
      OBVIOUS
    <3> DEFINE Stops(m) ==
          /\ \A i \in 1..m : gids[i] \in Groups /\ \A j \in 1..(i - 1) : gids[j] # gids[i]
          /\ m < Len(gids) => gids[m + 1] \notin Groups \/ \E j \in 1..m : gids[j] = gids[m + 1]
    <3>1. 0 \in 0..Len(gids) /\ Stops(0)
      BY <1>3
    <3>2. Deleted(gids) = CHOOSE m \in 0..Len(gids) : Stops(m)
      BY DEF Deleted
    <3> HIDE DEF Stops
    <3>3. Stops(Deleted(gids))
      BY <3>1, <3>2
    <3> QED
      BY <1>3, <1>5, <3>3 DEF Stops
  <2>4. SUFFICES ASSUME CheckConfig PROVE LeaveProgress'
    BY <2>1 DEF JoinProgress, LeaveProgress
  <2> QED
    BY <2>1, <2>2, <2>3, <2>4 DEF LeaveProgress, CheckConfig
<1> QED
  BY <1>4, <1>5

\* Every step of Rebalance within a join.
LEMMA JoinGoesOn ==
  ASSUME BalanceInv, JoinProgress, Rebalance
  PROVE  JoinProgress'
<1> SUFFICES ASSUME call.kind = "join" /\ call.ok /\ call.balanced, call' = call, pc # "idle"
             PROVE  JoinProgress'
  BY DEF Rebalance, Unassign, Begin, Assign, Assigned, Move, Balanced, JoinProgress
<1>0. /\ \A s \in Shard : Shards[s] = call.shards[s] \/ Shards[s] \in call.gids
      /\ call.gids # {} /\ call.gids \subseteq Groups
      /\ \A g \in Groups, h \in Old : Count(g) <= Count(h) + 1
      /\ pc \in {"rebalance", "assign"} /\ Old # {} => \A s \in Shard : Shards[s] \in Old
      /\ TypeOK
  BY DEF JoinProgress, BalanceInv
<1>1. CASE Unassign
  BY <1>0, <1>1 DEF Unassign
<1>2. CASE Begin \/ Assigned \/ Balanced \/ (Assign /\ UNCHANGED Shards)
  <2>1. /\ Shards' = Shards /\ Groups' = Groups /\ Old' = Old /\ \A g : Count(g)' = Count(g)
        /\ pc' \in {"rebalance", "assign"} => pc \in {"rebalance", "assign"}
    BY <1>2 DEF Begin, Assigned, Balanced, Assign, config, Old, Count
  <2> QED
    BY <1>0, <2>1 DEF JoinProgress
<1>3. CASE Assign /\ Shards[shard] \notin Groups
  <2>1. shard \in Shard
    BY <1>0, <1>3, ShardAssumption DEF Assign, TypeOK, Shard
  <2>2. Old = {} /\ Groups \subseteq call.gids
    BY Zenon, <1>0, <1>3, <2>1 DEF Assign, Old
  <2>3. Groups' = Groups /\ \A s \in Shard : Shards'[s] = Shards[s] \/ Shards'[s] \in Groups
    BY Zenon, <1>0, <1>3, <2>1 DEF Assign, TypeOK
  <2>4. Old' = {}
    BY Zenon, <2>2, <2>3 DEF Old
  <2> QED
    BY <1>0, <2>2, <2>3, <2>4 DEF JoinProgress
<1>4. CASE Move
  <2>1. PICK mg, lg \in Groups :
          IsMost(mg) /\ IsLeast(lg) /\ ~Even(Count(mg), Count(lg)) /\ MoveOne(mg, lg)
    BY <1>4 DEF Move
  <2>2. Count(mg) >= Count(lg) + 2 /\ Count(mg) \in Nat /\ Count(lg) \in Nat
    BY <2>1, CountNat DEF Even
  <2>3. lg \in call.gids /\ mg # lg
    <3>1. lg \notin Old
      BY <1>0, <2>2
    <3> QED
      BY <2>2, <3>1 DEF Old
  <2>4. PICK s \in Shard : Shards[s] = mg /\ Shards' = [Shards EXCEPT ![s] = lg]
    BY Zenon, <2>1 DEF MoveOne
  <2>5. /\ Count(lg)' = Count(lg) + 1 /\ Count(mg) = Count(mg)' + 1
        /\ \A g : g # lg /\ g # mg => Count(g)' = Count(g)
    <3>1. TypeOK /\ Reassigned(s, mg, lg)
      BY Zenon, <1>0, <2>3, <2>4 DEF Reassigned
    <3>2. Count(lg)' = Count(lg) + 1 /\ Count(mg) = Count(mg)' + 1
      BY Zenon, <3>1, CountReassigned
    <3>3. ASSUME NEW g, g # lg, g # mg PROVE SameCount(g)
      BY Zenon, <3>1, <3>3, CountOthers
    <3> QED
      BY Zenon, <3>2, <3>3 DEF SameCount
  <2>6. Groups' = Groups /\ Old' = Old /\ pc' = pc /\ pc = "move"
    BY <1>4 DEF Move, Old
  <2>7. ASSUME NEW g \in Groups, NEW h \in Old
        PROVE  Count(g)' <= Count(h)' + 1
    <3>1. h # lg /\ h \in Groups
      BY <2>3 DEF Old
    <3>2. Count(g) <= Count(mg) /\ Count(g) <= Count(h) + 1 /\ Count(mg) <= Count(h) + 1
      BY <1>0, <2>1, CountNat DEF IsMost
    <3>3. /\ Count(g) \in Nat /\ Count(h) \in Nat /\ Count(g)' \in Nat /\ Count(h)' \in Nat
          /\ Count(mg)' \in Nat
      BY Zenon, CountNat, CountNatNext
    <3>4. g = lg \/ g = mg \/ Count(g)' = Count(g)
      BY <2>5
    <3>5. h = mg \/ Count(h)' = Count(h)
      BY <2>5, <3>1
    <3> QED
      BY <2>2, <2>5, <3>2, <3>3, <3>4, <3>5
  <2>8. \A x \in Shard : Shards'[x] = Shards[x] \/ Shards'[x] = lg
    BY <1>0, <2>4 DEF TypeOK
  <2> QED
    BY Zenon, <1>0, <2>3, <2>6, <2>7, <2>8 DEF JoinProgress
<1>5. Assign => UNCHANGED Shards \/ Shards[shard] \notin Groups
  BY Zenon DEF Assign
<1> QED
  BY Zenon, <1>1, <1>2, <1>3, <1>4, <1>5 DEF Rebalance

\* Every step of Rebalance within a leave.
LEMMA LeaveGoesOn ==
  ASSUME BalanceInv, LeaveProgress, Rebalance
  PROVE  LeaveProgress'
<1> SUFFICES ASSUME call.kind = "leave" /\ call.ok /\ call.balanced, call' = call, pc # "idle"
             PROVE  LeaveProgress'
  BY DEF Rebalance, Unassign, Begin, Assign, Assigned, Move, Balanced, LeaveProgress
<1>0. /\ \A s \in Shard : call.shards[s] \in call.gids \/ Shards[s] = call.shards[s]
      /\ \A s \in Shard : call.shards[s] \in call.gids \/ Shards[s] \in Groups
      /\ \A g, h \in Groups : Count(g) <= Count(h) + 1
      /\ TypeOK
  BY DEF LeaveProgress, BalanceInv
<1>1. CASE Unassign
  BY <1>0, <1>1 DEF Unassign, LeaveProgress
<1>2. CASE Begin \/ Assigned \/ Balanced \/ (Assign /\ UNCHANGED Shards)
  <2>1. /\ Shards' = Shards /\ Groups' = Groups /\ \A g : Count(g)' = Count(g)
    BY <1>2 DEF Begin, Assigned, Balanced, Assign, config, Count
  <2> QED
    BY <1>0, <2>1 DEF LeaveProgress
<1>3. CASE Assign /\ Shards[shard] \notin Groups
  <2>1. shard \in Shard
    BY <1>0, <1>3, ShardAssumption DEF Assign, TypeOK, Shard
  <2>2. PICK lg \in Groups : IsLeast(lg) /\ Shards' = [Shards EXCEPT ![shard] = lg]
    BY <1>3 DEF Assign
  <2>3. PICK a, s : s = shard /\ a = Shards[s] /\ a \notin Groups /\ s \in Shard
    BY Zenon, <1>3, <2>1
  <2>4. /\ Count(lg)' = Count(lg) + 1
        /\ \A g : g # lg /\ g # a => Count(g)' = Count(g)
    <3>1. TypeOK /\ Reassigned(s, a, lg)
      BY Zenon, <1>0, <2>2, <2>3 DEF Reassigned
    <3>2. Count(lg)' = Count(lg) + 1
      BY Zenon, <3>1, CountReassigned
    <3>3. ASSUME NEW g, g # lg, g # a PROVE SameCount(g)
      BY Zenon, <3>1, <3>3, CountOthers
    <3> QED
      BY Zenon, <3>2, <3>3 DEF SameCount
  <2>5. Groups' = Groups /\ \A x \in Shard : x # shard => Shards'[x] = Shards[x]
    BY <1>0, <1>3, <2>2 DEF Assign, TypeOK
  <2>6. call.shards[shard] \in call.gids
    BY <1>0, <1>3, <2>1
  <2>7. ASSUME NEW g \in Groups, NEW h \in Groups
        PROVE  Count(g)' <= Count(h)' + 1
    <3>1. Count(lg) <= Count(h) /\ Count(g) <= Count(h) + 1
      BY <1>0, <2>2, CountNat DEF IsLeast
    <3>2. Count(g) \in Nat /\ Count(h) \in Nat /\ Count(lg) \in Nat
      BY CountNat
    <3>3. (g = lg \/ Count(g)' = Count(g)) /\ (h = lg \/ Count(h)' = Count(h))
      BY Zenon, <2>3, <2>4
    <3> QED
      BY <2>4, <3>1, <3>2, <3>3
  <2>8. ASSUME NEW x \in Shard, call.shards[x] \notin call.gids
        PROVE  Shards'[x] = call.shards[x] /\ Shards'[x] \in Groups'
    <3>1. x # shard
      BY Zenon, <2>6, <2>8
    <3> QED
      BY Zenon, <1>0, <2>5, <2>8, <3>1
  <2>9. \A g, h \in Groups' : Count(g)' <= Count(h)' + 1
    BY Zenon, <2>5, <2>7
  <2> QED
    BY Zenon, <2>8, <2>9 DEF LeaveProgress
<1>4. ~Move
  <2> SUFFICES ASSUME Move PROVE FALSE
    OBVIOUS
  <2>1. PICK mg, lg \in Groups : ~Even(Count(mg), Count(lg))
    BY DEF Move
  <2> QED
    BY <1>0, <2>1, CountNat DEF Even
<1>5. Assign => UNCHANGED Shards \/ Shards[shard] \notin Groups
  BY Zenon DEF Assign
<1> QED
  BY Zenon, <1>1, <1>2, <1>3, <1>4, <1>5 DEF Rebalance

\* Both hold all the time.
LEMMA ProgressAlways == Spec => [](JoinProgress /\ LeaveProgress)
<1> DEFINE P == JoinProgress /\ LeaveProgress
<1>1. Init => P
  BY DEF Init, JoinProgress, LeaveProgress
<1>2. BalanceInv /\ P /\ [Next]_vars => P'
  <2>1. P /\ UNCHANGED vars => P'
    <3> SUFFICES ASSUME P, UNCHANGED vars PROVE P'
      OBVIOUS
    <3>1. /\ call' = call /\ pc' = pc /\ Shards' = Shards /\ Groups' = Groups
          /\ Old' = Old /\ \A g : Count(g)' = Count(g)
      BY Zenon DEF vars, config, Old, Count
    <3>2. JoinProgress'
      BY Zenon, <3>1 DEF JoinProgress
    <3>3. LeaveProgress'
      BY Zenon, <3>1 DEF LeaveProgress
    <3> QED
      BY Zenon, <3>2, <3>3
  <2> QED
    BY Zenon, <2>1, JoinBegins, LeaveBegins, JoinGoesOn, LeaveGoesOn DEF Next
<1> QED
  BY <1>1, <1>2, BalanceAlways, PTL DEF Spec

\* A join to an even configuration moves shards to the joining groups only, for every
\* number of shards and of groups, and however many join at once.
THEOREM JoinsMoveLittle == Spec => []JoinMovesLittle
<1>1. JoinProgress => JoinMovesLittle
  BY DEF JoinProgress, JoinMovesLittle, Succeeded
<1> QED
  BY <1>1, ProgressAlways, PTL

\* A leave from an even configuration moves only the shards of the leaving groups.
THEOREM LeavesMoveLittle == Spec => []LeaveMovesLittle
<1>1. LeaveProgress => LeaveMovesLittle
  BY DEF LeaveProgress, LeaveMovesLittle, Succeeded
<1> QED
  BY <1>1, ProgressAlways, PTL

=============================================================================
