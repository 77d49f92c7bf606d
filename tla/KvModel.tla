------------------------------- MODULE KvModel ------------------------------
(***************************************************************************)
(* What the key/value service promises: models1's KvModel, the sequential  *)
(* model that the tests give to the linearizability checker, here as a     *)
(* state machine.  An operation takes effect at one moment between its     *)
(* call and its return.  A Put that takes effect does so in a step of its  *)
(* own; an operation that leaves the state alone may be placed at any      *)
(* moment of its interval, so `seen' collects the states its key has had.  *)
(***************************************************************************)
EXTENDS Naturals

CONSTANTS Client, Key, Value, Empty

VARIABLES state,    \* state[k]: KvState of key k
          input,    \* input[c]: the operation of c under way, or [op |-> "None"]
          seen,     \* seen[c]: the states of its key since the call
          applied,  \* applied[c]: the Put of c under way has taken effect
          output    \* output[c]: what the last operation of c returned

vars == <<state, input, seen, applied, output>>

KvInit == [value |-> Empty, version |-> 0]

\* KvModel.Step: whether the output is right for the state, and the state it leads to.
Accepts(st, inp, out) ==
  IF inp.op = "Get" THEN out.value = st.value
  ELSE IF st.version = inp.version THEN out.err \in {"OK", "ErrMaybe"}
  ELSE out.err \in {"ErrVersion", "ErrMaybe"}

StepTo(st, inp) ==
  IF inp.op = "Put" /\ st.version = inp.version
  THEN [value |-> inp.value, version |-> st.version + 1] ELSE st

Pending(c) == input[c].op # "None"

Init ==
  /\ state = [k \in Key |-> KvInit]
  /\ input = [c \in Client |-> [op |-> "None"]]
  /\ seen = [c \in Client |-> {}]
  /\ applied = [c \in Client |-> FALSE]
  /\ DOMAIN output = Client

Call(c) ==
  /\ ~Pending(c)
  /\ input'[c].op \in {"Get", "Put"} /\ input'[c].key \in Key
  /\ input' = [input EXCEPT ![c] = input'[c]]
  /\ seen' = [seen EXCEPT ![c] = {state[input'[c].key]}]
  /\ UNCHANGED <<state, applied, output>>

\* The Put of c takes effect, once.
Apply(c) ==
  LET k == input[c].key
      new == StepTo(state[k], input[c])
  IN  /\ Pending(c) /\ ~applied[c]
      /\ new # state[k]
      /\ state' = [state EXCEPT ![k] = new]
      /\ applied' = [applied EXCEPT ![c] = TRUE]
      /\ seen' = [d \in Client |->
           IF Pending(d) /\ input[d].key = k THEN seen[d] \cup {new} ELSE seen[d]]
      /\ UNCHANGED <<input, output>>

\* The output is one that a moment of the interval explains.
Explained(c, out) ==
  IF applied[c] THEN out.err \in {"OK", "ErrMaybe"}
  ELSE \E st \in seen[c] : Accepts(st, input[c], out) /\ StepTo(st, input[c]) = st

Return(c) ==
  /\ Pending(c)
  /\ Explained(c, output'[c])
  /\ output' = [output EXCEPT ![c] = output'[c]]
  /\ input' = [input EXCEPT ![c] = [op |-> "None"]]
  /\ seen' = [seen EXCEPT ![c] = {}]
  /\ applied' = [applied EXCEPT ![c] = FALSE]
  /\ UNCHANGED state

Next == \E c \in Client : Call(c) \/ Apply(c) \/ Return(c)

Spec == Init /\ [][Next]_vars

=============================================================================
