------------------------------ MODULE KVLinear ------------------------------
(***************************************************************************)
(* kvsrv1's server and clerks implement KvModel.  The history variables    *)
(* record what KvModel's state holds beyond the program's: which Puts have *)
(* taken effect, and the states an operation's key has had since its call. *)
(***************************************************************************)
EXTENDS KVClerk

VARIABLES seen, applied

historyVars == <<seen, applied>>
linearVars == <<vars, historyVars>>

Pending(c) == call[c] # "none"

LinearInit ==
  /\ Init
  /\ seen = [c \in Client |-> {}]
  /\ applied = [c \in Client |-> FALSE]

LinearInvoke(c, args) ==
  /\ Invoke(c, args)
  /\ seen' = [seen EXCEPT ![c] = {KvState(store, args.key)}]
  /\ UNCHANGED applied

LinearReturn(c) ==
  /\ Return(c)
  /\ seen' = [seen EXCEPT ![c] = {}]
  /\ applied' = [applied EXCEPT ![c] = FALSE]

LinearServe(c) ==
  /\ Serve(c)
  /\ applied' = [applied EXCEPT ![c] = @ \/ store' # store]
  /\ seen' = [d \in Client |->
       IF Pending(d) THEN seen[d] \cup {KvState(store', op[d].key)} ELSE seen[d]]

\* A Put with a version above 0 is for a key that exists, as it is in the histories that the
\* tests have checked.  For a key that does not exist the server answers it with ErrNoKey, as
\* kvsrv_test.go expects; the sequential model admits only ErrVersion and ErrMaybe there.
KeyExists(args) == args.op = "Put" /\ args.version # 0 => args.key \in DOMAIN store

LinearNext ==
  \E c \in Client :
    \/ \E args \in GetArgs \cup PutArgs : KeyExists(args) /\ LinearInvoke(c, args)
    \/ LinearServe(c) \/ LinearReturn(c)
    \/ Retry(c) /\ UNCHANGED historyVars

LinearSpec == LinearInit /\ [][LinearNext]_linearVars

Model == INSTANCE KvModel WITH
  state <- [k \in Key |-> KvState(store, k)],
  input <- [c \in Client |-> IF Pending(c) THEN op[c] ELSE [op |-> "None"]],
  output <- result

\* Every behaviour of the server and its clerks is one of the sequential model
\* (models1/kv.go): a Put takes effect at most once however often it is repeated, Put
\* returns ErrVersion only if it did not take effect and OK only if it did, and Get
\* returns a value that the key had while Get was under way.
Linearizable == Model!Spec

=============================================================================
