-------------------------------- MODULE MCRSM -------------------------------
(***************************************************************************)
(* A bounded instance of RSM for TLC: the first server wins the first     *)
(* election and has only snapshots that the second took before it, only    *)
(* the first stands in elections that nobody wins in a new term, the first *)
(* call is made first, and a server is shut down while calls are at it.    *)
(***************************************************************************)
EXTENDS RSM

CONSTANTS s1, s2, c1, c2

Bounds ==
  /\ leader[s2] => term[s2] # 1
  /\ lastIncludedIndex[s1] <= lastIncludedIndex[s2]
  /\ term[s2] <= elected
  /\ pc[c1] = "called" => pc[c2] = "called"

BoundedNext ==
  /\ Next /\ Bounds'
  /\ \A s \in Server : (\E c \in Call : at[c] = s) \/ ~Restart(s)

\* Only the goroutines that called Submit run on; Raft and applyReader may stop.
CallersSpec ==
  Init /\ [][BoundedNext]_vars /\ \A c \in Call : WF_pc(Caller(c))

=============================================================================
