-------------------------------- MODULE MCKV --------------------------------
(***************************************************************************)
(* Bounded instances, for TLC, of the two services that implement the key/ *)
(* value interface (kvtest1's IKVClerk): kvsrv1 and kvraft1.  The tests    *)
(* give the histories of both to the same model, models1's KvModel.        *)
(***************************************************************************)
EXTENDS KVRaft, TLC

VARIABLE service  \* the service that the clients use

allVars == <<linearVars, raftVars, service>>

EitherInit == LinearInit /\ RaftInit /\ service \in {"kvsrv1", "kvraft1"}

EitherNext ==
  /\ \/ service = "kvsrv1" /\ LinearNext /\ UNCHANGED raftVars
     \/ service = "kvraft1" /\ RaftNext
  /\ UNCHANGED service

EitherSpec == EitherInit /\ [][EitherNext]_allVars

ClientSymmetry == Permutations(Client)

=============================================================================
