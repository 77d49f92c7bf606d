------------------------------ MODULE ShardCfg ------------------------------
(***************************************************************************)
(* shardcfg: a configuration assigns every shard to a group of servers.    *)
(* JoinBalance and LeaveBalance change the groups and then run Rebalance,  *)
(* whose loops go one iteration per step; nothing else happens to the      *)
(* configuration meanwhile.                                                *)
(*                                                                         *)
(* A group is its gid: the servers of distinct groups are taken to be      *)
(* distinct, as they are for every caller (Join ends the program when they *)
(* are not).  The calls that end the program, with no gid at all, are left *)
(* out.                                                                    *)
(***************************************************************************)
EXTENDS Integers, FiniteSets, Sequences

CONSTANTS NShards,
          Gid,      \* the gids of groups, positive
          MaxNum,   \* bounds the number of configurations
          MaxGids   \* bounds the gids of one call of Leave

\* analyze looks for the least number of shards from 257 down.
ASSUME ShardAssumption ==
  NShards \in 1..256 /\ Gid \subseteq Nat \ {0} /\ MaxNum \in Nat /\ MaxGids \in Nat

VARIABLES Num, Shards, Groups,  \* the ShardConfig
          pc,                   \* where JoinBalance or LeaveBalance is
          shard,                \* the loop variable of Rebalance's first loop
          call                  \* the last call: its kind and gids, the shards it found,
                                \* whether they were balanced, and what it returned

config == <<Num, Shards, Groups>>
vars == <<config, pc, shard, call>>

Shard == {s \in 0..NShards : s < NShards}

Count(g) == Cardinality({s \in Shard : Shards[s] = g})

\* What analyze returns: the groups with most and with fewest shards, of several the
\* one with the lowest gid.
IsMost(g) ==
  /\ g \in Groups
  /\ \A h \in Groups : Count(h) < Count(g) \/ (Count(h) = Count(g) /\ g <= h)
IsLeast(g) ==
  /\ g \in Groups
  /\ \A h \in Groups : Count(g) < Count(h) \/ (Count(g) = Count(h) /\ g <= h)

\* The part of CheckConfig that looks at the shards.
CheckConfig ==
  /\ Groups # {} => \A s \in Shard : Shards[s] \in Groups
  /\ \A g, h \in Groups : Count(g) <= Count(h) + 1

MakeShardConfig ==
  /\ Num = 0
  /\ Shards = [s \in Shard |-> 0]
  /\ Groups = {}

Call(kind, gids, ok) ==
  call' = [kind |-> kind, gids |-> gids, shards |-> Shards, balanced |-> CheckConfig, ok |-> ok]

-----------------------------------------------------------------------------
(* Join and Leave *)

\* All the gids are new.
Join(gids) ==
  /\ gids \cap Groups = {}
  /\ Groups' = Groups \cup gids
  /\ Num' = Num + 1 /\ pc' = "rebalance"
  /\ Call("join", gids, TRUE)
  /\ UNCHANGED <<Shards, shard>>

\* One is not; the loop goes over a map, and has added some of the others by then.
ReJoin(gids) ==
  /\ gids \cap Groups # {}
  /\ \E added \in SUBSET (gids \ Groups) : Groups' = Groups \cup added
  /\ Call("join", gids, FALSE)
  /\ UNCHANGED <<Num, Shards, pc, shard>>

JoinBalance ==
  /\ pc = "idle" /\ Num < MaxNum
  /\ \E gids \in (SUBSET Gid) \ {{}} : Join(gids) \/ ReJoin(gids)

Named(gids) == {gids[i] : i \in 1..Len(gids)}

\* The number of gids the loop of Leave deletes before it meets one that is not there.
Deleted(gids) ==
  CHOOSE n \in 0..Len(gids) :
    /\ \A i \in 1..n : gids[i] \in Groups /\ \A j \in 1..(i - 1) : gids[j] # gids[i]
    /\ n < Len(gids) => gids[n + 1] \notin Groups \/ \E j \in 1..n : gids[j] = gids[n + 1]

Leave(gids) ==
  /\ Groups' = Groups \ {gids[i] : i \in 1..Deleted(gids)}
  /\ \/ /\ Deleted(gids) = Len(gids)
        /\ Num' = Num + 1 /\ pc' = "rebalance"
        /\ Call("leave", Named(gids), TRUE)
     \/ /\ Deleted(gids) # Len(gids)
        /\ Call("leave", Named(gids), FALSE)
        /\ UNCHANGED <<Num, pc>>
  /\ UNCHANGED <<Shards, shard>>

LeaveBalance ==
  /\ pc = "idle" /\ Num < MaxNum
  /\ \E n \in 1..MaxGids : \E gids \in [1..n -> Gid] : Leave(gids)

-----------------------------------------------------------------------------
(* Rebalance *)

Unassign ==
  /\ pc = "rebalance" /\ Groups = {}
  /\ Shards' = [s \in Shard |-> 0]
  /\ pc' = "idle"
  /\ UNCHANGED <<Num, Groups, shard, call>>

Begin ==
  /\ pc = "rebalance" /\ Groups # {}
  /\ pc' = "assign" /\ shard' = 0
  /\ UNCHANGED <<config, call>>

AssignAll ==  \* mutant: shards of existing groups are reassigned too
  /\ pc = "assign" /\ shard < NShards
  /\ \E lg \in Groups : IsLeast(lg) /\ Shards' = [Shards EXCEPT ![shard] = lg]
  /\ shard' = shard + 1
  /\ UNCHANGED <<Num, Groups, pc, call>>

AssignMost ==  \* mutant: to the group that has most
  /\ pc = "assign" /\ shard < NShards
  /\ IF Shards[shard] \in Groups THEN UNCHANGED Shards
     ELSE \E mg \in Groups : IsMost(mg) /\ Shards' = [Shards EXCEPT ![shard] = mg]
  /\ shard' = shard + 1
  /\ UNCHANGED <<Num, Groups, pc, call>>

\* A shard of no group goes to the one that has fewest.
Assign ==
  /\ pc = "assign" /\ shard < NShards
  /\ \/ Shards[shard] \in Groups /\ UNCHANGED Shards
     \/ /\ Shards[shard] \notin Groups
        /\ \E lg \in Groups : IsLeast(lg) /\ Shards' = [Shards EXCEPT ![shard] = lg]
  /\ shard' = shard + 1
  /\ UNCHANGED <<Num, Groups, pc, call>>

Assigned ==
  /\ pc = "assign" /\ shard = NShards
  /\ pc' = "move"
  /\ UNCHANGED <<config, shard, call>>

\* The first shard of mg goes to lg.
MoveOne(mg, lg) ==
  \E s \in Shard :
    /\ Shards[s] = mg /\ \A t \in Shard : t < s => Shards[t] # mg
    /\ Shards' = [Shards EXCEPT ![s] = lg]

Enough(m, n) == m < n + 3  \* mutant: stops a step early
TooMuch(m, n) == m < n + 1  \* mutant: stops only when all have the same

\* The exit condition of the loop.
Even(mn, ln) == mn < ln + 2

Move ==
  /\ pc = "move"
  /\ \E mg, lg \in Groups :
       /\ IsMost(mg) /\ IsLeast(lg) /\ ~Even(Count(mg), Count(lg))
       /\ MoveOne(mg, lg)
  /\ UNCHANGED <<Num, Groups, pc, shard, call>>

Balanced ==
  /\ pc = "move"
  /\ \E mg, lg \in Groups : IsMost(mg) /\ IsLeast(lg) /\ Even(Count(mg), Count(lg))
  /\ pc' = "idle" /\ shard' = 0
  /\ UNCHANGED <<config, call>>

Rebalance == Unassign \/ Begin \/ Assign \/ Assigned \/ Move \/ Balanced

-----------------------------------------------------------------------------

Init ==
  /\ MakeShardConfig
  /\ pc = "idle" /\ shard = 0
  /\ call = [kind |-> "leave", gids |-> {}, shards |-> Shards, balanced |-> TRUE, ok |-> TRUE]

Next == JoinBalance \/ LeaveBalance \/ Rebalance

Spec == Init /\ [][Next]_vars

\* The calls run on; nobody has to make one.
FairSpec == Spec /\ WF_vars(Rebalance)

-----------------------------------------------------------------------------

TypeOK ==
  /\ Num \in Nat
  /\ Shards \in [Shard -> Gid \cup {0}]
  /\ Groups \subseteq Gid
  /\ pc \in {"idle", "rebalance", "assign", "move"}
  /\ shard \in 0..NShards
  /\ call \in [kind : {"join", "leave"}, gids : SUBSET Gid, shards : [Shard -> Gid \cup {0}],
               balanced : BOOLEAN, ok : BOOLEAN]

\* A call has returned true, in this state.
Succeeded == pc = "idle" /\ call.ok

\* Whatever calls came before, the ones that were rejected after changing some groups
\* included, a call that returns true leaves every shard with an existing group and no
\* group with two shards more than another.
EvenAfterSuccess == Succeeded => CheckConfig

\* Rebalance moves no shard that it need not: a join to an even configuration moves
\* shards to the joining groups only.
JoinMovesLittle ==
  Succeeded /\ call.kind = "join" /\ call.balanced =>
    \A s \in Shard : Shards[s] = call.shards[s] \/ Shards[s] \in call.gids

\* A leave from an even configuration moves only the shards of the leaving groups.
LeaveMovesLittle ==
  Succeeded /\ call.kind = "leave" /\ call.balanced =>
    \A s \in Shard : call.shards[s] \in call.gids \/ Shards[s] = call.shards[s]

\* Rebalance's loop, which moves a shard until the groups are even, ends.
RebalanceEnds == pc # "idle" ~> pc = "idle"

=============================================================================
