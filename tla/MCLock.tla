------------------------------- MODULE MCLock -------------------------------
(***************************************************************************)
(* Bounded instances, for TLC, of two programs that use the key/value      *)
(* service through its clerk: the lock of kvsrv1, and the clients of       *)
(* kvtest1 that put values to one key.                                     *)
(***************************************************************************)
EXTENDS Lock, OneClientPut

CONSTANTS c1, c2, free

VARIABLE program  \* what the clients run

TwoClients == {c1, c2}
Ids == Client \cup {free}

programVars == <<allVars, putVars, program>>

ProgramInit == LockInit /\ PutInit /\ program \in {"lock", "put"}

ProgramNext ==
  /\ \/ program = "lock" /\ LockNext /\ UNCHANGED putVars
     \/ program = "put" /\ PutNext /\ UNCHANGED lockVars
  /\ UNCHANGED program

\* LockFairness, for the clients that run the lock.
ProgramFairness ==
  \A c \in Client :
    /\ WF_allVars(program = "lock" /\ LockStep(c))
    /\ SF_allVars(program = "lock" /\ Serve(c) /\ UNCHANGED lockVars)
    /\ SF_allVars(program = "lock" /\ Return(c) /\ UNCHANGED lockVars)

ProgramSpec == ProgramInit /\ [][ProgramNext]_programVars /\ ProgramFairness

=============================================================================
