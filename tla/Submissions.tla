----------------------------- MODULE Submissions ----------------------------
(***************************************************************************)
(* What a replicated state machine promises to those who call Submit (the  *)
(* comment of rsm.go on Submit, and how kvraft1's handlers use it): the    *)
(* commands are executed in one order, each at most once, and a call that  *)
(* returns OK has the result of its own command.  A call that returns      *)
(* ErrWrongLeader promises nothing: its command may still be executed.     *)
(***************************************************************************)
EXTENDS Naturals, Sequences, Functions

CONSTANT Call

VARIABLES order,   \* the calls whose commands have been executed
          place,   \* place[c]: "called", "submitted" or "returned"
          result   \* result[c]: what the call returns

subVars == <<order, place, result>>

OK(res) == [err |-> "OK", result |-> res]
ErrWrongLeader == [err |-> "ErrWrongLeader", result |-> <<>>]

Init ==
  /\ order = <<>>
  /\ place = [c \in Call |-> "called"]
  /\ result = [c \in Call |-> ErrWrongLeader]

\* The command is in the log of a leader.
Submitted(c) ==
  /\ place[c] = "called"
  /\ place' = [place EXCEPT ![c] = "submitted"]
  /\ UNCHANGED <<order, result>>

\* The command is executed, whether or not the call still waits for it.
Executed(c) ==
  /\ place[c] # "called" /\ c \notin Range(order)
  /\ order' = Append(order, c)
  /\ UNCHANGED <<place, result>>

\* The state that the command of c left: the commands up to it.
UpTo(c) == SubSeq(order, 1, CHOOSE i \in DOMAIN order : order[i] = c)

ReturnedOK(c) ==
  /\ place[c] = "submitted" /\ c \in Range(order)
  /\ place' = [place EXCEPT ![c] = "returned"]
  /\ result' = [result EXCEPT ![c] = OK(UpTo(c))]
  /\ UNCHANGED order

\* ErrWrongLeader for one call; for all calls of a server that is shut down.
ReturnedWrong(calls) ==
  /\ \A c \in calls : place[c] # "returned"
  /\ place' = [c \in Call |-> IF c \in calls THEN "returned" ELSE place[c]]
  /\ UNCHANGED <<order, result>>

Next ==
  \/ \E c \in Call : Submitted(c) \/ Executed(c) \/ ReturnedOK(c)
  \/ \E calls \in SUBSET Call : ReturnedWrong(calls)

Spec == Init /\ [][Next]_subVars

=============================================================================
