------------------------------ MODULE KVServer ------------------------------
(***************************************************************************)
(* The versioned key/value map and the two operations on it, as kvsrv1's   *)
(* handlers and kvraft1's DoOp compute them.                               *)
(***************************************************************************)
EXTENDS Naturals

CONSTANTS Key, Value,
          Empty,    \* the empty string: a value, and what Get returns without a key
          Version   \* the versions that clients pass to Put

ASSUME EmptyAssumption == Empty \in Value
ASSUME VersionAssumption == Version \subseteq Nat

valueVersion == [val : Value, ver : Nat]
\* s maps some of the keys.
IsStore(s) == DOMAIN s \subseteq Key /\ s \in [DOMAIN s -> valueVersion]

GetArgs == [op : {"Get"}, key : Key]
PutArgs == [op : {"Put"}, key : Key, value : Value, version : Version]

Reply(err, value, version) == [err |-> err, value |-> value, version |-> version]
Replies == [err : {"OK", "ErrNoKey", "ErrVersion"}, value : Value, version : Nat]

\* The whole map with one key set.
With(store, key, item) ==
  [k \in DOMAIN store \cup {key} |-> IF k = key THEN item ELSE store[k]]

Get(store, args) ==
  IF args.key \notin DOMAIN store THEN Reply("ErrNoKey", Empty, 0)
  ELSE Reply("OK", store[args.key].val, store[args.key].ver)

\* The error Put answers with; the map changes exactly when it is OK.
PutErr(store, args) ==
  IF args.key \notin DOMAIN store
  THEN IF args.version = 0 THEN "OK" ELSE "ErrNoKey"
  ELSE IF store[args.key].ver # args.version THEN "ErrVersion" ELSE "OK"

\* The map after Put: a first version, or the next one.
Put(store, args) ==
  IF PutErr(store, args) # "OK" THEN store
  ELSE With(store, args.key,
            [val |-> args.value,
             ver |-> IF args.key \in DOMAIN store THEN store[args.key].ver + 1 ELSE 1])

\* A request of either kind: what it answers, and the map it leaves.
Answer(store, args) ==
  IF args.op = "Get" THEN Get(store, args) ELSE Reply(PutErr(store, args), Empty, 0)
Execute(store, args) == IF args.op = "Get" THEN store ELSE Put(store, args)

NoKeys == [k \in {} |-> 0]

\* A key's state as the sequential model of the tests has it.
KvState(s, k) ==
  IF k \in DOMAIN s THEN [value |-> s[k].val, version |-> s[k].ver]
  ELSE [value |-> Empty, version |-> 0]

=============================================================================
