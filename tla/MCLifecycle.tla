----------------------------- MODULE MCLifecycle ----------------------------
(***************************************************************************)
(* Bounded instances of the tester and the network for TLC: a test that    *)
(* connects, partitions and restarts the servers of a group, and one that  *)
(* restarts a server while a client calls it.                              *)
(***************************************************************************)
EXTENDS Lifecycle, Group

VARIABLE test

testVars == <<lifeVars, groupVars, test>>

OneRestarts == [i \in 0..N - 1 |-> IF i = 0 THEN 2 ELSE 0]

TestInit == LifeInit /\ GroupInit /\ test \in {"group", "calls"}

TestNext ==
  /\ \/ test = "group" /\ GroupNext /\ UNCHANGED lifeVars
     \/ test = "calls" /\ LifeNext /\ UNCHANGED groupVars
  /\ UNCHANGED test

\* Fairness, in the test that makes calls.
CallsFair ==
  \A c \in Req : /\ WF_lifeVars(test = "calls" /\ Network(c))
                 /\ WF_lifeVars(test = "calls" /\ Handle(c) /\ to[c] = server)

TestSpec == TestInit /\ [][TestNext]_testVars /\ CallsFair

=============================================================================
