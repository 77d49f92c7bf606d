------------------------------ MODULE KVProofs ------------------------------
(***************************************************************************)
(* kvsrv1 and kvraft1, for all sets of clients, keys, values and versions, *)
(* however many requests and replies the network drops: the servers and    *)
(* their clerks implement the sequential model of the tests, and two       *)
(* programs that use the clerk are right, the lock and the clients that    *)
(* put values to a key.                                                    *)
(*                                                                         *)
(* The arguments.  A Put takes effect when the key's version is its own,   *)
(* and raises it, so that it never does again.  A clerk that was answered  *)
(* ErrVersion to its first call knows that its Put was not made; one that  *)
(* had to call again says ErrMaybe.                                        *)
(*                                                                         *)
(* An RPC of kvraft1 may be executed after its clerk has returned.  It has *)
(* no effect then: a client puts a version that the key has had, and the   *)
(* clerk returns after one RPC of the operation was executed, which leaves *)
(* the key beyond that version.                                            *)
(*                                                                         *)
(* The lock's key changes hands only between free and the client whose Put *)
(* is served, because a Put with the key's current version was built on    *)
(* what the key holds now.  So "the key names c" is changed by c alone,    *)
(* and what c has read about it stays true until c puts again.             *)
(*                                                                         *)
(* A version of the key has one value, so what a client of kvtest1 put is  *)
(* what it reads at the version its Put made, whoever puts in between.     *)
(***************************************************************************)
EXTENDS Lock, KVRaft, OneClientPut, TLAPS

-----------------------------------------------------------------------------
(* The server and its clerks, and the sequential model *)

Results == [err : Err, value : Value, version : Nat]
States == [value : Value, version : Nat]

TypeInv ==
  /\ IsStore(store) /\ \A x \in DOMAIN store : store[x].ver > 0
  /\ op \in [Client -> {NoOp} \cup GetArgs \cup PutArgs]
  /\ call \in [Client -> {"none", "request", "reply"}]
  /\ reply \in [Client -> Replies] /\ result \in [Client -> Results]
  /\ first \in [Client -> BOOLEAN] /\ applied \in [Client -> BOOLEAN]
  /\ seen \in [Client -> SUBSET States]

\* No operation is under way.
IdleInv(c) ==
  call[c] = "none" => op[c] = NoOp /\ first[c] /\ ~applied[c] /\ seen[c] = {}

\* The state of the operation's key has been seen.
SeenInv(c) ==
  call[c] # "none" =>
    op[c] \in GetArgs \cup PutArgs /\ KvState(store, op[c].key) \in seen[c]

GetInv(c) ==
  call[c] # "none" /\ op[c].op = "Get" =>
    /\ ~applied[c]
    /\ call[c] = "reply" => \E st \in seen[c] : reply[c].value = st.value

\* What the clerk of a Put may conclude from a reply.
PutReplied(c) ==
  call[c] = "reply" /\ op[c].op = "Put" =>
    \/ reply[c].err = "OK" /\ applied[c]
    \/ /\ reply[c].err = "ErrVersion"
       /\ first[c] => ~applied[c]
       /\ \E st \in seen[c] : st.version # op[c].version

\* What the refinement of the sequential model rests on.
BaseInv ==
  TypeInv /\ \A c \in Client : IdleInv(c) /\ SeenInv(c) /\ GetInv(c) /\ PutReplied(c)

\* What holds of a Put of kvsrv1, which is served while its clerk waits.
PutInv(c) ==
  call[c] # "none" /\ op[c].op = "Put" =>
    /\ op[c].version # 0 => op[c].key \in DOMAIN store
    /\ applied[c] => KvState(store, op[c].key).version > op[c].version
    /\ call[c] = "request" /\ first[c] => ~applied[c]

\* The inductive invariant of kvsrv1.
LInv == BaseInv /\ \A c \in Client : PutInv(c)

-----------------------------------------------------------------------------
(* The two operations on a map *)

IsKvStore(s) == IsStore(s) /\ \A x \in DOMAIN s : s[x].ver > 0

\* What the model of one key makes of a store.
LEMMA StateType ==
  ASSUME NEW s, IsKvStore(s), NEW x \in Key
  PROVE  /\ KvState(s, x) \in States
         /\ KvState(s, x).version \in Nat /\ KvState(s, x).value \in Value
BY Zenon, EmptyAssumption DEF IsKvStore, IsStore, valueVersion, KvState, States

\* A Get answers with the state of its key.
LEMMA GetAnswered ==
  ASSUME NEW s, IsKvStore(s), NEW args \in GetArgs
  PROVE  /\ Execute(s, args) = s
         /\ Answer(s, args) \in Replies
         /\ Answer(s, args).value = KvState(s, args.key).value
<1>1. args.op = "Get" /\ args.key \in Key
  BY Zenon DEF GetArgs
<1>2. Execute(s, args) = s /\ Answer(s, args) = Get(s, args)
  BY Zenon, <1>1 DEF Execute, Answer
<1>3. QED
  BY <1>1, <1>2, EmptyAssumption
     DEF Get, Reply, Replies, KvState, IsKvStore, IsStore, valueVersion

\* A Put to a key that exists, or of version 0: it is made if its version is the key's.
LEMMA PutAnswered ==
  ASSUME NEW s, IsKvStore(s), NEW args \in PutArgs,
         args.version # 0 => args.key \in DOMAIN s
  PROVE  LET st == KvState(s, args.key)
             t == Execute(s, args)
             r == Answer(s, args)
         IN  /\ IsKvStore(t) /\ r \in Replies
             /\ DOMAIN s \subseteq DOMAIN t
             /\ \A x \in Key \ {args.key} : KvState(t, x) = KvState(s, x)
             /\ args.version = st.version =>
                  /\ r.err = "OK"
                  /\ KvState(t, args.key) = [value |-> args.value, version |-> st.version + 1]
             /\ args.version # st.version => r.err = "ErrVersion" /\ t = s
<1> DEFINE key == args.key
           st == KvState(s, key)
<1>1. /\ args.op = "Put" /\ key \in Key /\ args.value \in Value
      /\ args.version \in Nat
  BY Zenon, VersionAssumption DEF PutArgs
<1>2. Execute(s, args) = Put(s, args) /\ Answer(s, args) = Reply(PutErr(s, args), Empty, 0)
  BY Zenon, <1>1 DEF Execute, Answer
<1>3. args.version = st.version => PutErr(s, args) = "OK"
  BY Zenon, <1>1 DEF PutErr, KvState, IsKvStore
<1>4. args.version # st.version => PutErr(s, args) = "ErrVersion"
  BY Zenon, <1>1 DEF PutErr, KvState, IsKvStore
<1>5. /\ Reply(PutErr(s, args), Empty, 0) \in Replies
      /\ Reply(PutErr(s, args), Empty, 0).err = PutErr(s, args)
  BY Zenon, <1>3, <1>4, EmptyAssumption DEF Reply, Replies
<1>6. CASE args.version # st.version
  <2>1. Put(s, args) = s
    BY Zenon, <1>4, <1>6 DEF Put
  <2>2. QED
    BY Zenon, <1>2, <1>4, <1>5, <1>6, <2>1
<1>7. CASE args.version = st.version
  <2> DEFINE item == [val |-> args.value, ver |-> IF key \in DOMAIN s THEN s[key].ver + 1 ELSE 1]
             t == [x \in DOMAIN s \cup {key} |-> IF x = key THEN item ELSE s[x]]
  <2>1. Put(s, args) = t
    BY Zenon, <1>3, <1>7 DEF Put, With
  <2>2. /\ item \in valueVersion /\ item.ver > 0
        /\ item.val = args.value /\ item.ver = st.version + 1
    BY <1>1 DEF valueVersion, KvState, IsKvStore, IsStore
  <2> HIDE DEF item
  <2>3. IsKvStore(t)
    BY Zenon, <1>1, <2>2 DEF IsKvStore, IsStore
  <2>4. KvState(t, key) = [value |-> args.value, version |-> st.version + 1]
    <3>1. key \in DOMAIN t /\ t[key] = item
      BY Zenon
    <3> HIDE DEF t, st
    <3>2. QED
      BY Zenon, <2>2, <3>1 DEF KvState
  <2>5. \A x \in Key \ {key} : KvState(t, x) = KvState(s, x)
    BY Zenon DEF KvState
  <2>6. QED
    BY Zenon, <1>2, <1>3, <1>5, <1>7, <2>1, <2>3, <2>4, <2>5
<1>8. QED
  BY Zenon, <1>6, <1>7

-----------------------------------------------------------------------------
(* Serve *)

\* What Serve does to the map and answers, and that versions do not go back.
LEMMA Served ==
  ASSUME LInv, NEW c \in Client, LinearServe(c)
  PROVE  LET st == KvState(store, op[c].key)
             r == Answer(store, op[c])
         IN  /\ op[c] \in GetArgs \cup PutArgs /\ op[c].key \in Key
             /\ IsKvStore(store) /\ IsKvStore(store') /\ r \in Replies
             /\ DOMAIN store \subseteq DOMAIN store'
             /\ \A x \in Key \ {op[c].key} : KvState(store', x) = KvState(store, x)
             /\ op[c].op = "Get" => store' = store /\ r.value = st.value
             /\ op[c].op = "Put" /\ op[c].version # st.version =>
                  store' = store /\ r.err = "ErrVersion"
             /\ op[c].op = "Put" /\ op[c].version = st.version =>
                  /\ r.err = "OK" /\ ~applied[c]
                  /\ KvState(store', op[c].key) =
                       [value |-> op[c].value, version |-> st.version + 1]
<1>1. /\ op[c] \in GetArgs \cup PutArgs /\ IsKvStore(store) /\ call[c] = "request"
      /\ store' = Execute(store, op[c])
  BY Zenon DEF LInv, BaseInv, TypeInv, SeenInv, LinearServe, Serve, IsKvStore
<1>2. op[c].key \in Key
  BY Zenon, <1>1 DEF GetArgs, PutArgs
<1>3. CASE op[c] \in GetArgs
  <2>1. op[c].op = "Get"
    BY Zenon, <1>3 DEF GetArgs
  <2>2. QED
    BY Zenon, <1>1, <1>2, <1>3, <2>1, GetAnswered
<1>4. CASE op[c] \in PutArgs
  <2>1. op[c].op = "Put" /\ op[c].version \in Nat
    BY Zenon, <1>4, VersionAssumption DEF PutArgs
  <2>2. op[c].version # 0 => op[c].key \in DOMAIN store
    BY Zenon, <1>1, <2>1 DEF LInv, PutInv
  <2>3. op[c].version = KvState(store, op[c].key).version => ~applied[c]
    BY <1>1, <2>1 DEF LInv, PutInv
  <2>4. QED
    BY Zenon, <1>1, <1>2, <1>4, <2>1, <2>2, <2>3, PutAnswered
<1>5. QED
  BY Zenon, <1>1, <1>3, <1>4

\* The server only moves versions up.
LEMMA VersionsGrow ==
  ASSUME LInv, NEW c \in Client, LinearServe(c), NEW x \in Key
  PROVE  /\ KvState(store, x).version \in Nat /\ KvState(store', x).version \in Nat
         /\ KvState(store, x).version <= KvState(store', x).version
<1>1. KvState(store, x).version \in Nat /\ KvState(store', x).version \in Nat
  BY Zenon, Served, StateType
<1>2. \/ KvState(store', x) = KvState(store, x)
      \/ KvState(store', x).version = KvState(store, x).version + 1
  <2>1. CASE x # op[c].key
    BY Zenon, <2>1, Served
  <2>2. CASE x = op[c].key /\ store' = store
    BY Zenon, <2>2
  <2>3. CASE x = op[c].key /\ store' # store
    <3>1. op[c].op \in {"Get", "Put"}
      BY Zenon, Served DEF GetArgs, PutArgs
    <3>2. \E v : KvState(store', x) = [value |-> v, version |-> KvState(store, x).version + 1]
      BY Zenon, <2>3, <3>1, Served
    <3>3. QED
      BY <3>2
  <2>4. QED
    BY Zenon, <2>1, <2>2, <2>3
<1>3. QED
  <2> DEFINE m == KvState(store, x).version
             n == KvState(store', x).version
  <2>1. m \in Nat /\ n \in Nat /\ (n = m \/ n = m + 1)
    BY Zenon, <1>1, <1>2
  <2> HIDE DEF m, n
  <2>2. m <= n
    BY <2>1
  <2>3. QED
    BY Zenon, <2>1, <2>2 DEF m, n

\* The assignments of LinearServe.
LEMMA ServeAssigns ==
  ASSUME LInv, NEW c \in Client, LinearServe(c)
  PROVE  /\ call[c] = "request" /\ call'[c] = "reply" /\ reply'[c] = Answer(store, op[c])
         /\ applied'[c] = (applied[c] \/ store' # store)
         /\ op' = op /\ first' = first /\ result' = result
         /\ \A d \in Client \ {c} :
              call'[d] = call[d] /\ reply'[d] = reply[d] /\ applied'[d] = applied[d]
         /\ \A d \in Client :
              /\ call[d] = "none" => seen'[d] = seen[d]
              /\ call[d] # "none" => seen'[d] = seen[d] \cup {KvState(store', op[d].key)}
         /\ TypeInv'
<1>1. /\ call[c] = "request" /\ call' = [call EXCEPT ![c] = "reply"]
      /\ reply' = [reply EXCEPT ![c] = Answer(store, op[c])]
      /\ applied' = [applied EXCEPT ![c] = applied[c] \/ store' # store]
      /\ op' = op /\ first' = first /\ result' = result
  BY Zenon DEF LinearServe, Serve
<1>2. \A d \in Client :
        /\ call[d] = "none" => seen'[d] = seen[d]
        /\ call[d] # "none" => seen'[d] = seen[d] \cup {KvState(store', op[d].key)}
  BY Zenon DEF LinearServe, Pending
<1>3. seen' \in [Client -> SUBSET States]
  <2>1. \A d \in Client : call[d] # "none" => op[d].key \in Key
    BY Zenon DEF LInv, BaseInv, SeenInv, GetArgs, PutArgs
  <2>2. \A d \in Client : call[d] # "none" => KvState(store', op[d].key) \in States
    BY Zenon, <2>1, Served, StateType
  <2>3. \A d \in Client : seen'[d] \in SUBSET States
    BY ZenonT(30), <1>2, <2>2 DEF LInv, BaseInv, TypeInv
  <2>4. seen' = [d \in Client |-> seen'[d]]
    BY Zenon DEF LinearServe
  <2>5. QED
    BY Zenon, <2>3, <2>4
<1>4. TypeInv'
  <2>1. IsStore(store') /\ \A x \in DOMAIN store' : store'[x].ver > 0
    BY Zenon, Served DEF IsKvStore
  <2>2. reply' \in [Client -> Replies]
    BY Zenon, <1>1, Served DEF LInv, BaseInv, TypeInv
  <2>3. QED
    BY Zenon, <1>1, <1>3, <2>1, <2>2 DEF LInv, BaseInv, TypeInv, NoOp, GetArgs, PutArgs
<1>5. QED
  BY <1>1, <1>2, <1>4 DEF LInv, BaseInv, TypeInv

\* The server handles a request, whether or not its reply is lost.
LEMMA ServeInv ==
  ASSUME LInv, NEW c \in Client, LinearServe(c)
  PROVE  LInv'
<1>1. ASSUME NEW d \in Client PROVE IdleInv(d)' /\ SeenInv(d)'
  BY <1>1, ServeAssigns DEF LInv, BaseInv, IdleInv, SeenInv, NoOp, GetArgs, PutArgs
<1>2. ASSUME NEW d \in Client \ {c} PROVE GetInv(d)'
  BY <1>2, ServeAssigns DEF LInv, BaseInv, GetInv
<1>3. ASSUME NEW d \in Client \ {c} PROVE PutInv(d)' /\ PutReplied(d)'
  <2>1. SUFFICES ASSUME call[d] # "none", op[d].op = "Put" PROVE PutInv(d)' /\ PutReplied(d)'
    BY Zenon, <1>3, ServeAssigns DEF PutInv, PutReplied
  <2>2. op[d].key \in Key /\ op[d].version \in Nat
    BY Zenon, <2>1, VersionAssumption DEF LInv, BaseInv, SeenInv, GetArgs, PutArgs
  <2>3. applied[d] => KvState(store', op[d].key).version > op[d].version
    <3> DEFINE m == KvState(store, op[d].key).version
               n == KvState(store', op[d].key).version
               v == op[d].version
    <3>1. m \in Nat /\ n \in Nat /\ m <= n /\ v \in Nat /\ (applied[d] => m > v)
      BY Zenon, <2>1, <2>2, VersionsGrow DEF LInv, PutInv
    <3> HIDE DEF m, n, v
    <3>2. applied[d] => n > v
      BY <3>1
    <3>3. QED
      BY Zenon, <3>2 DEF n, v
  <2>4. op[d].version # 0 => op[d].key \in DOMAIN store'
    BY Zenon, <2>1, Served DEF LInv, PutInv
  <2>5. /\ call'[d] = call[d] /\ reply'[d] = reply[d] /\ applied'[d] = applied[d]
        /\ op' = op /\ first' = first /\ seen[d] \subseteq seen'[d]
    BY Zenon, <1>3, <2>1, ServeAssigns
  <2>6. PutInv(d)'
    BY Zenon, <2>1, <2>3, <2>4, <2>5 DEF LInv, PutInv
  <2>7. PutReplied(d)'
    BY Zenon, <2>1, <2>5 DEF LInv, BaseInv, PutReplied
  <2>8. QED
    BY Zenon, <2>6, <2>7
<1>4. GetInv(c)'
  <2>1. SUFFICES ASSUME op[c].op = "Get"
                 PROVE  ~applied'[c] /\ \E st \in seen'[c] : reply'[c].value = st.value
    BY Zenon, ServeAssigns DEF GetInv
  <2>2. ~applied[c] /\ KvState(store, op[c].key) \in seen[c]
    BY Zenon, <2>1, ServeAssigns DEF LInv, BaseInv, GetInv, SeenInv
  <2>3. store' = store /\ reply'[c].value = KvState(store, op[c].key).value
    BY Zenon, <2>1, Served, ServeAssigns
  <2>4. seen[c] \subseteq seen'[c]
    BY Zenon, ServeAssigns
  <2>5. ~applied'[c]
    BY Zenon, <2>2, <2>3, ServeAssigns
  <2>6. QED
    BY Zenon, <2>2, <2>3, <2>4, <2>5
<1>5. PutInv(c)' /\ PutReplied(c)'
  <2> DEFINE st == KvState(store, op[c].key)
  <2>1. SUFFICES ASSUME op[c].op = "Put" PROVE PutInv(c)' /\ PutReplied(c)'
    BY Zenon, ServeAssigns DEF PutInv, PutReplied
  <2>2. /\ op[c].version \in Nat /\ st.version \in Nat /\ st \in seen[c]
        /\ op[c].version # 0 => op[c].key \in DOMAIN store'
    <3>1. op[c].key \in Key /\ op[c].version \in Nat /\ st \in seen[c]
      BY Zenon, <2>1, Served, ServeAssigns, VersionAssumption
         DEF LInv, BaseInv, SeenInv, GetArgs, PutArgs
    <3>2. op[c].version # 0 => op[c].key \in DOMAIN store'
      BY Zenon, <2>1, Served, ServeAssigns DEF LInv, PutInv
    <3>3. QED
      BY Zenon, <3>1, <3>2, Served, StateType
  <2>3. CASE op[c].version = st.version
    <3>1. /\ reply'[c].err = "OK"
          /\ KvState(store', op[c].key) = [value |-> op[c].value, version |-> st.version + 1]
      BY Zenon, <2>1, <2>3, Served, ServeAssigns
    <3>2. KvState(store', op[c].key).version = op[c].version + 1
      BY <2>3, <3>1
    <3>3. store' # store
      BY <2>2, <2>3, <3>2
    <3>4. applied'[c] /\ call'[c] = "reply" /\ op' = op
      BY Zenon, <3>3, ServeAssigns
    <3>5. KvState(store', op[c].key).version > op[c].version
      BY <2>2, <3>2
    <3>6. QED
      BY Zenon, <2>2, <3>1, <3>4, <3>5 DEF PutInv, PutReplied
  <2>4. CASE op[c].version # st.version
    <3>1. store' = store /\ reply'[c].err = "ErrVersion"
      BY Zenon, <2>1, <2>4, Served, ServeAssigns
    <3>2. /\ applied'[c] = applied[c] /\ call'[c] = "reply" /\ op' = op /\ first' = first
          /\ st \in seen'[c] /\ call[c] = "request"
      <4>1. applied'[c] = applied[c]
        BY Zenon, <3>1, ServeAssigns DEF LInv, BaseInv, TypeInv
      <4>2. seen[c] \subseteq seen'[c]
        BY Zenon, ServeAssigns
      <4>3. st \in seen'[c]
        BY Zenon, <2>2, <4>2
      <4>4. QED
        BY Zenon, <4>1, <4>3, ServeAssigns
    <3>3. PutInv(c)
      BY Zenon DEF LInv
    <3>4. QED
      BY Zenon, <2>1, <2>2, <2>4, <3>1, <3>2, <3>3 DEF PutInv, PutReplied
  <2>5. QED
    BY Zenon, <2>3, <2>4
<1>6. QED
  BY Zenon, <1>1, <1>2, <1>3, <1>4, <1>5, ServeAssigns DEF LInv, BaseInv

-----------------------------------------------------------------------------
(* The steps of the clerk *)

\* Everything but the variables of c stays as it is.
Only(c) ==
  /\ store' = store
  /\ \A d \in Client \ {c} :
       /\ op'[d] = op[d] /\ call'[d] = call[d] /\ reply'[d] = reply[d] /\ first'[d] = first[d]
       /\ seen'[d] = seen[d] /\ applied'[d] = applied[d]

\* A step of one client leaves the others alone.
LEMMA OnlyBase ==
  ASSUME BaseInv, NEW c \in Client, Only(c), TypeInv',
         IdleInv(c)' /\ SeenInv(c)' /\ GetInv(c)' /\ PutReplied(c)'
  PROVE  BaseInv'
<1>1. ASSUME NEW d \in Client \ {c}
      PROVE  IdleInv(d)' /\ SeenInv(d)' /\ GetInv(d)' /\ PutReplied(d)'
  <2>1. IdleInv(d) /\ SeenInv(d) /\ GetInv(d) /\ PutReplied(d)
    BY Zenon DEF BaseInv
  <2>2. /\ store' = store
        /\ op'[d] = op[d] /\ call'[d] = call[d] /\ reply'[d] = reply[d] /\ first'[d] = first[d]
        /\ seen'[d] = seen[d] /\ applied'[d] = applied[d]
    BY Zenon, <1>1 DEF Only
  <2>3. IdleInv(d)'
    BY Zenon, <2>1, <2>2 DEF IdleInv, NoOp
  <2>4. SeenInv(d)'
    BY Zenon, <2>1, <2>2 DEF SeenInv, GetArgs, PutArgs
  <2>5. GetInv(d)'
    BY Zenon, <2>1, <2>2 DEF GetInv
  <2>6. PutReplied(d)'
    BY Zenon, <2>1, <2>2 DEF PutReplied
  <2>7. QED
    BY Zenon, <2>3, <2>4, <2>5, <2>6
<1>2. QED
  BY Zenon, <1>1 DEF BaseInv

\* So for what holds of kvsrv1 only.
LEMMA OnlyPut ==
  ASSUME LInv, NEW c \in Client, Only(c), BaseInv', PutInv(c)'
  PROVE  LInv'
<1>1. ASSUME NEW d \in Client \ {c} PROVE PutInv(d)'
  BY Zenon, <1>1 DEF LInv, PutInv, Only
<1>2. QED
  BY Zenon, <1>1 DEF LInv

\* A client calls Get or Put.
LEMMA InvokeBase ==
  ASSUME BaseInv, NEW c \in Client, NEW args \in GetArgs \cup PutArgs, LinearInvoke(c, args)
  PROVE  /\ BaseInv' /\ Only(c)
         /\ call[c] = "none" /\ call'[c] = "request" /\ op'[c] = args /\ ~applied'[c]
<1>1. /\ call[c] = "none" /\ call' = [call EXCEPT ![c] = "request"]
      /\ op' = [op EXCEPT ![c] = args] /\ seen' = [seen EXCEPT ![c] = {KvState(store, args.key)}]
      /\ UNCHANGED <<store, reply, first, result, applied>>
  BY Zenon DEF LinearInvoke, Invoke
<1>2. args.key \in Key
  BY Zenon DEF GetArgs, PutArgs
<1>3. KvState(store, args.key) \in States
  BY Zenon, <1>2, StateType DEF BaseInv, TypeInv, IsKvStore
<1>4. TypeInv'
  BY Zenon, <1>1, <1>3 DEF BaseInv, TypeInv
<1>5. Only(c)
  BY Zenon, <1>1 DEF Only, BaseInv, TypeInv
<1>6. /\ call'[c] = "request" /\ op'[c] = args /\ ~applied'[c]
      /\ seen'[c] = {KvState(store, args.key)}
  BY Zenon, <1>1 DEF BaseInv, TypeInv, IdleInv
<1>7. IdleInv(c)' /\ SeenInv(c)'
  BY Zenon, <1>1, <1>6 DEF IdleInv, SeenInv, GetArgs, PutArgs
<1>8. GetInv(c)' /\ PutReplied(c)'
  BY Zenon, <1>6 DEF GetInv, PutReplied
<1>9. QED
  BY Zenon, <1>1, <1>4, <1>5, <1>6, <1>7, <1>8, OnlyBase

\* So in kvsrv1.
LEMMA InvokeInv ==
  ASSUME LInv, NEW c \in Client, NEW args \in GetArgs \cup PutArgs, KeyExists(args),
         LinearInvoke(c, args)
  PROVE  LInv'
<1>1. BaseInv' /\ Only(c) /\ op'[c] = args /\ ~applied'[c]
  BY Zenon, InvokeBase DEF LInv
<1>2. PutInv(c)'
  BY Zenon, <1>1 DEF PutInv, KeyExists, Only
<1>3. QED
  BY Zenon, <1>1, <1>2, OnlyPut

\* A clerk sends its request again.
LEMMA RetryBase ==
  ASSUME BaseInv, NEW c \in Client, Retry(c), UNCHANGED historyVars
  PROVE  /\ BaseInv' /\ Only(c)
         /\ call[c] # "none" /\ call'[c] = "request" /\ ~first'[c]
         /\ op' = op /\ seen' = seen /\ applied' = applied
<1>1. /\ call[c] \in {"request", "reply"} /\ call' = [call EXCEPT ![c] = "request"]
      /\ reply' = [reply EXCEPT ![c] = NoReply] /\ first' = [first EXCEPT ![c] = FALSE]
      /\ UNCHANGED <<store, op, result, seen, applied>>
  BY Zenon DEF Retry, historyVars
<1>2. NoReply \in Replies
  BY Zenon, EmptyAssumption DEF NoReply, Reply, Replies
<1>3. TypeInv'
  BY Zenon, <1>1, <1>2 DEF BaseInv, TypeInv, NoOp, GetArgs, PutArgs
<1>4. Only(c)
  BY Zenon, <1>1 DEF Only, BaseInv, TypeInv
<1>5. call'[c] = "request" /\ ~first'[c] /\ call[c] # "none"
  BY Zenon, <1>1 DEF BaseInv, TypeInv
<1>6. IdleInv(c)' /\ SeenInv(c)'
  BY Zenon, <1>1, <1>5 DEF BaseInv, IdleInv, SeenInv, GetArgs, PutArgs
<1>7. GetInv(c)' /\ PutReplied(c)'
  BY Zenon, <1>1, <1>5 DEF BaseInv, GetInv, PutReplied
<1>8. QED
  BY Zenon, <1>1, <1>3, <1>4, <1>5, <1>6, <1>7, OnlyBase

\* So in kvsrv1.
LEMMA LinearRetryInv ==
  ASSUME LInv, NEW c \in Client, Retry(c), UNCHANGED historyVars
  PROVE  LInv'
<1>1. /\ BaseInv' /\ Only(c) /\ call[c] # "none" /\ ~first'[c]
      /\ op' = op /\ applied' = applied
  BY Zenon, RetryBase DEF LInv
<1>2. PutInv(c)'
  BY Zenon, <1>1 DEF LInv, PutInv, Only
<1>3. QED
  BY Zenon, <1>1, <1>2, OnlyPut

\* A clerk returns what the reply says.
LEMMA ReturnBase ==
  ASSUME BaseInv, NEW c \in Client, LinearReturn(c)
  PROVE  /\ BaseInv' /\ Only(c)
         /\ call[c] = "reply" /\ call'[c] = "none" /\ op'[c] = NoOp /\ ~applied'[c]
<1>1. /\ call[c] = "reply" /\ call' = [call EXCEPT ![c] = "none"]
      /\ result' = [result EXCEPT ![c] = [reply[c] EXCEPT !.err = ClerkErr(c)]]
      /\ op' = [op EXCEPT ![c] = NoOp] /\ reply' = [reply EXCEPT ![c] = NoReply]
      /\ first' = [first EXCEPT ![c] = TRUE] /\ store' = store
      /\ seen' = [seen EXCEPT ![c] = {}] /\ applied' = [applied EXCEPT ![c] = FALSE]
  BY Zenon DEF LinearReturn, Return
<1>2. NoReply \in Replies
  BY Zenon, EmptyAssumption DEF NoReply, Reply, Replies
<1>3. [reply[c] EXCEPT !.err = ClerkErr(c)] \in Results
  BY DEF BaseInv, TypeInv, Replies, Results, ClerkErr, Err
<1>4. TypeInv'
  BY Zenon, <1>1, <1>2, <1>3 DEF BaseInv, TypeInv
<1>5. Only(c)
  BY Zenon, <1>1 DEF Only, BaseInv, TypeInv
<1>6. call'[c] = "none" /\ op'[c] = NoOp /\ first'[c] /\ ~applied'[c] /\ seen'[c] = {}
  BY Zenon, <1>1 DEF BaseInv, TypeInv
<1>7. IdleInv(c)' /\ SeenInv(c)' /\ GetInv(c)' /\ PutReplied(c)'
  BY Zenon, <1>6 DEF IdleInv, SeenInv, GetInv, PutReplied, NoOp
<1>8. QED
  BY Zenon, <1>1, <1>4, <1>5, <1>6, <1>7, OnlyBase

\* So in kvsrv1.
LEMMA LinearReturnInv ==
  ASSUME LInv, NEW c \in Client, LinearReturn(c)
  PROVE  LInv'
<1>1. BaseInv' /\ Only(c) /\ call'[c] = "none"
  BY Zenon, ReturnBase DEF LInv
<1>2. PutInv(c)'
  BY Zenon, <1>1 DEF PutInv
<1>3. QED
  BY Zenon, <1>1, <1>2, OnlyPut

-----------------------------------------------------------------------------
(* Every step of clients and server *)

\* The invariant holds at the start.
LEMMA LinearInitInv ==
  LinearInit => LInv
<1> SUFFICES ASSUME LinearInit PROVE LInv
  BY Zenon
<1>1. IsStore(store) /\ DOMAIN store = {}
  BY Zenon DEF LinearInit, Init, NoKeys, IsStore
<1>2. NoReply \in Replies /\ NoReply \in Results
  BY Zenon, EmptyAssumption DEF NoReply, Reply, Replies, Results, Err
<1>3. TypeInv
  BY Zenon, <1>1, <1>2 DEF LinearInit, Init, TypeInv
<1>4. ASSUME NEW c \in Client
      PROVE  IdleInv(c) /\ SeenInv(c) /\ GetInv(c) /\ PutReplied(c) /\ PutInv(c)
  BY Zenon, <1>4 DEF LinearInit, Init, IdleInv, SeenInv, GetInv, PutReplied, PutInv
<1>5. QED
  BY Zenon, <1>3, <1>4 DEF LInv, BaseInv

\* Every step keeps it.
LEMMA LinearNextInv ==
  LInv /\ [LinearNext]_linearVars => LInv'
<1> SUFFICES ASSUME LInv, [LinearNext]_linearVars PROVE LInv'
  BY Zenon
<1>1. CASE UNCHANGED linearVars
  BY <1>1, SMTT(60) DEF linearVars, vars, clerkVars, historyVars, LInv, BaseInv, TypeInv,
     IdleInv, SeenInv, GetInv, PutReplied, PutInv, NoOp, GetArgs, PutArgs
<1>2. CASE LinearNext
  BY Zenon, <1>2, InvokeInv, ServeInv, LinearReturnInv, LinearRetryInv DEF LinearNext
<1>3. QED
  BY Zenon, <1>1, <1>2

\* The invariant of clerks and server, Get and Put with lost replies and retries.
THEOREM LinearInv == LinearSpec => []LInv
BY LinearInitInv, LinearNextInv, PTL DEF LinearSpec

-----------------------------------------------------------------------------
(* Every step is one of the sequential model, or none *)

InputOf(c) == IF Pending(c) THEN op[c] ELSE [op |-> "None"]

\* The refinement mapping takes initial states to initial states.
LEMMA ModelInit ==
  LinearInit => Model!Init
BY Zenon DEF LinearInit, Init, Model!Init, Model!KvInit, KvState, NoKeys, Pending

\* An operation is under way in the model when it is in the program.
LEMMA ModelPending ==
  ASSUME BaseInv, NEW c \in Client
  PROVE  Model!Pending(c) <=> Pending(c)
BY Zenon DEF BaseInv, SeenInv, GetArgs, PutArgs, Model!Pending, Pending

\* A call of the clerk is a call of the model.
LEMMA InvokeIsCall ==
  ASSUME BaseInv, NEW c \in Client, NEW args \in GetArgs \cup PutArgs, LinearInvoke(c, args)
  PROVE  Model!Call(c)
<1>1. /\ call[c] = "none" /\ call' = [call EXCEPT ![c] = "request"]
      /\ op' = [op EXCEPT ![c] = args] /\ seen' = [seen EXCEPT ![c] = {KvState(store, args.key)}]
      /\ UNCHANGED <<store, reply, first, result, applied>>
  BY Zenon DEF LinearInvoke, Invoke
<1>2. args.key \in Key /\ args.op \in {"Get", "Put"}
  BY Zenon DEF GetArgs, PutArgs
<1>3. [d \in Client |-> InputOf(d)]' = [[d \in Client |-> InputOf(d)] EXCEPT ![c] = args]
  BY Zenon, <1>1 DEF InputOf, Pending, BaseInv, TypeInv
<1>4. InputOf(c)' = args
  BY Zenon, <1>1 DEF InputOf, Pending, BaseInv, TypeInv
<1>5. ~Model!Pending(c)
  BY Zenon, <1>1, ModelPending DEF Pending
<1>6. QED
  BY Zenon, <1>1, <1>2, <1>3, <1>4, <1>5 DEF Model!Call, InputOf

\* A step that leaves the model's variables alone.
LEMMA ModelStutters ==
  ASSUME store' = store, op' = op, result' = result, seen' = seen, applied' = applied,
         \A c \in Client : Pending(c)' <=> Pending(c)
  PROVE  UNCHANGED Model!vars
<1>1. \A c \in Client : InputOf(c)' = InputOf(c)
  BY Zenon DEF InputOf
<1>2. [c \in Client |-> InputOf(c)]' = [c \in Client |-> InputOf(c)]
  BY Zenon, <1>1
<1>3. QED
  BY Zenon, <1>2 DEF Model!vars, InputOf, KvState

\* Serving a request completes no call.
LEMMA PendingServed ==
  ASSUME LInv, NEW c \in Client, LinearServe(c)
  PROVE  \A d \in Client : Pending(d)' <=> Pending(d)
BY Zenon, ServeAssigns DEF Pending

\* While the map stays as it is, no key has a state that was not seen.
LEMMA SeenAgain ==
  ASSUME BaseInv, store' = store, seen' = [d \in Client |->
           IF Pending(d) THEN seen[d] \cup {KvState(store', op[d].key)} ELSE seen[d]]
  PROVE  seen' = seen
<1>1. ASSUME NEW d \in Client PROVE seen'[d] = seen[d]
  <2>1. Pending(d) => KvState(store', op[d].key) \in seen[d]
    BY Zenon DEF BaseInv, SeenInv, Pending
  <2>2. QED
    BY Zenon, <2>1
<1>2. seen' = [d \in Client |-> seen'[d]] /\ seen = [d \in Client |-> seen[d]]
  BY Zenon DEF BaseInv, TypeInv
<1>3. QED
  BY Zenon, <1>1, <1>2

\* A Get, or a Put that is refused, is placed at this moment or at another.
LEMMA RefusalStutters ==
  ASSUME LInv, NEW c \in Client, LinearServe(c), store' = store
  PROVE  UNCHANGED Model!vars
<1>1. seen' = seen
  BY Zenon, SeenAgain DEF LInv, LinearServe
<1>2. applied' = applied
  <2>1. applied'[c] = applied[c]
    BY Zenon, ServeAssigns DEF LInv, BaseInv, TypeInv
  <2>2. \A d \in Client : applied'[d] = applied[d]
    BY Zenon, <2>1, ServeAssigns
  <2>3. QED
    BY <2>2, ServeAssigns, SMTT(60) DEF LInv, BaseInv, TypeInv
<1>3. QED
  BY Zenon, <1>1, <1>2, ServeAssigns, PendingServed, ModelStutters

\* A Put that takes effect while its clerk waits: the linearization point.
LEMMA EffectIsApply ==
  ASSUME BaseInv, NEW c \in Client, Pending(c), ~applied[c], op[c].op = "Put",
         op[c].version = KvState(store, op[c].key).version,
         KvState(store', op[c].key) =
           [value |-> op[c].value, version |-> KvState(store, op[c].key).version + 1],
         \A x \in Key \ {op[c].key} : KvState(store', x) = KvState(store, x),
         applied' = [applied EXCEPT ![c] = TRUE], seen' = [d \in Client |->
           IF Pending(d) THEN seen[d] \cup {KvState(store', op[d].key)} ELSE seen[d]],
         op' = op, result' = result, \A d \in Client : Pending(d)' <=> Pending(d)
  PROVE  Model!Apply(c)
<1> DEFINE key == op[c].key
           st == KvState(store, key)
           new == [value |-> op[c].value, version |-> st.version + 1]
           State == [x \in Key |-> KvState(store, x)]
<1>1. \A d \in Client : Pending(d) => op[d].key \in Key /\ KvState(store, op[d].key) \in seen[d]
  BY Zenon DEF BaseInv, SeenInv, Pending, GetArgs, PutArgs
<1>2. st.version \in Nat
  BY Zenon, <1>1, StateType DEF BaseInv, TypeInv, IsKvStore
<1>3. InputOf(c) = op[c]
  BY Zenon DEF InputOf
<1>4. new # st
  <2>1. new.version = st.version + 1
    BY Zenon
  <2>2. QED
    BY <1>2, <2>1
<1>5. State' = [State EXCEPT ![key] = new]
  BY Zenon, <1>1
<1>6. ASSUME NEW d \in Client
      PROVE  seen'[d] = IF Pending(d) /\ InputOf(d).key = key THEN seen[d] \cup {new}
                        ELSE seen[d]
  <2>1. CASE ~Pending(d)
    BY Zenon, <2>1
  <2>2. CASE Pending(d)
    <3>1. /\ InputOf(d) = op[d] /\ op[d].key \in Key
          /\ KvState(store, op[d].key) \in seen[d]
          /\ seen'[d] = seen[d] \cup {KvState(store', op[d].key)}
      BY Zenon, <1>1, <2>2 DEF InputOf
    <3>2. CASE op[d].key = key
      BY Zenon, <2>2, <3>1, <3>2
    <3>3. CASE op[d].key # key
      BY Zenon, <2>2, <3>1, <3>3
    <3>4. QED
      BY Zenon, <3>2, <3>3
  <2>3. QED
    BY Zenon, <2>1, <2>2
<1>7. seen' = [d \in Client |->
        IF Pending(d) /\ InputOf(d).key = key THEN seen[d] \cup {new} ELSE seen[d]]
  BY Zenon, <1>6
<1>8. [d \in Client |-> InputOf(d)]' = [d \in Client |-> InputOf(d)]
  BY Zenon DEF InputOf
<1>9. \A d \in Client : Model!Pending(d) <=> Pending(d)
  BY Zenon, ModelPending
<1>10. State[key] = st /\ key \in Key
  BY Zenon, <1>1
<1>11. Model!StepTo(st, op[c]) = new
  BY Zenon DEF Model!StepTo
<1> HIDE DEF new, st
<1>12. QED
  BY Zenon, <1>3, <1>4, <1>5, <1>7, <1>8, <1>9, <1>10, <1>11 DEF Model!Apply, InputOf

\* The Put that takes effect at the server of kvsrv1.
LEMMA PutIsApply ==
  ASSUME LInv, NEW c \in Client, LinearServe(c), store' # store
  PROVE  Model!Apply(c)
<1>1. op[c].op \in {"Get", "Put"}
  BY Zenon, Served DEF GetArgs, PutArgs
<1>2. op[c].op = "Put" /\ op[c].version = KvState(store, op[c].key).version
  BY Zenon, <1>1, Served
<1>3. applied' = [applied EXCEPT ![c] = TRUE]
  BY Zenon DEF LinearServe, LInv, BaseInv, TypeInv
<1>4. seen' = [d \in Client |->
        IF Pending(d) THEN seen[d] \cup {KvState(store', op[d].key)} ELSE seen[d]]
  BY Zenon DEF LinearServe
<1>5. Pending(c) /\ op' = op /\ result' = result
  BY Zenon, ServeAssigns DEF Pending
<1>6. QED
  BY Zenon, <1>2, <1>3, <1>4, <1>5, EffectIsApply, PendingServed, Served DEF LInv

\* What the clerk returns is right for a state that the key had meanwhile.
LEMMA ReturnIsExplained ==
  ASSUME BaseInv, NEW c \in Client, call[c] = "reply"
  PROVE  Model!Explained(c, [reply[c] EXCEPT !.err = ClerkErr(c)])
<1> DEFINE out == [reply[c] EXCEPT !.err = ClerkErr(c)]
<1>1. out.err = ClerkErr(c) /\ out.value = reply[c].value
  BY Zenon DEF BaseInv, TypeInv, Replies
<1>2. [d \in Client |-> IF Pending(d) THEN op[d] ELSE [op |-> "None"]][c] = op[c]
  BY Zenon DEF Pending
<1>3. op[c].op \in {"Get", "Put"}
  BY Zenon DEF BaseInv, SeenInv, GetArgs, PutArgs
<1> HIDE DEF out
<1>4. CASE op[c].op = "Get"
  <2>1. ~applied[c] /\ \E st \in seen[c] : reply[c].value = st.value
    BY Zenon, <1>4 DEF BaseInv, GetInv
  <2>2. QED
    BY Zenon, <1>1, <1>2, <1>4, <2>1 DEF Model!Explained, Model!Accepts, Model!StepTo, out
<1>5. CASE op[c].op = "Put" /\ applied[c]
  <2>1. ClerkErr(c) \in {"OK", "ErrMaybe"}
    BY Zenon, <1>5 DEF BaseInv, PutReplied, ClerkErr
  <2>2. QED
    BY Zenon, <1>1, <1>5, <2>1 DEF Model!Explained, out
<1>6. CASE op[c].op = "Put" /\ ~applied[c]
  <2>1. /\ reply[c].err = "ErrVersion"
        /\ \E st \in seen[c] : st.version # op[c].version
    BY Zenon, <1>6 DEF BaseInv, PutReplied
  <2>2. ClerkErr(c) \in {"ErrVersion", "ErrMaybe"}
    BY Zenon, <2>1 DEF ClerkErr
  <2>3. QED
    BY Zenon, <1>1, <1>2, <1>6, <2>1, <2>2 DEF Model!Explained, Model!Accepts, Model!StepTo, out
<1>7. QED
  BY Zenon, <1>3, <1>4, <1>5, <1>6

\* What the clerk returns the model may return.
LEMMA ReturnIsReturn ==
  ASSUME BaseInv, NEW c \in Client, LinearReturn(c)
  PROVE  Model!Return(c)
<1> DEFINE out == [reply[c] EXCEPT !.err = ClerkErr(c)]
<1>1. /\ call[c] = "reply" /\ call' = [call EXCEPT ![c] = "none"]
      /\ result' = [result EXCEPT ![c] = out]
      /\ op' = [op EXCEPT ![c] = NoOp] /\ store' = store
      /\ seen' = [seen EXCEPT ![c] = {}] /\ applied' = [applied EXCEPT ![c] = FALSE]
  BY Zenon DEF LinearReturn, Return
<1>2. Model!Pending(c)
  BY Zenon, <1>1, ModelPending DEF Pending
<1>3. [d \in Client |-> InputOf(d)]' =
        [[d \in Client |-> InputOf(d)] EXCEPT ![c] = [op |-> "None"]]
  BY Zenon, <1>1 DEF InputOf, Pending, BaseInv, TypeInv
<1>4. Model!Explained(c, out)
  BY Zenon, <1>1, ReturnIsExplained
<1> HIDE DEF out
<1>5. result'[c] = out
  BY Zenon, <1>1 DEF BaseInv, TypeInv
<1>6. QED
  BY Zenon, <1>1, <1>2, <1>3, <1>4, <1>5 DEF Model!Return, InputOf

\* Every step is a step of the model, or a stutter.
LEMMA StepIsModelStep ==
  LInv /\ [LinearNext]_linearVars => [Model!Next]_(Model!vars)
<1> SUFFICES ASSUME LInv, [LinearNext]_linearVars PROVE Model!Next \/ UNCHANGED Model!vars
  BY Zenon
<1>1. CASE UNCHANGED linearVars
  BY Zenon, <1>1, ModelStutters DEF linearVars, vars, clerkVars, historyVars, Pending
<1>2. ASSUME NEW c \in Client, NEW args \in GetArgs \cup PutArgs, LinearInvoke(c, args)
      PROVE  Model!Next
  BY Zenon, <1>2, InvokeIsCall DEF LInv, Model!Next
<1>3. ASSUME NEW c \in Client, LinearServe(c)
      PROVE  Model!Next \/ UNCHANGED Model!vars
  BY Zenon, <1>3, RefusalStutters, PutIsApply DEF Model!Next
<1>4. ASSUME NEW c \in Client, LinearReturn(c)
      PROVE  Model!Next
  BY Zenon, <1>4, ReturnIsReturn DEF LInv, Model!Next
<1>5. ASSUME NEW c \in Client, Retry(c), UNCHANGED historyVars
      PROVE  UNCHANGED Model!vars
  <2>1. \A d \in Client : Pending(d)' <=> Pending(d)
    BY Zenon, <1>5 DEF Retry, Pending, LInv, BaseInv, TypeInv
  <2>2. QED
    BY Zenon, <1>5, <2>1, ModelStutters DEF Retry, historyVars
<1>6. QED
  BY Zenon, <1>1, <1>2, <1>3, <1>4, <1>5 DEF LinearNext

\* kvsrv1's Get and Put are linearizable: every history of the server and its clerks over a
\* network that drops requests and replies is one of the sequential model.
THEOREM KvsrvLinearizable == LinearSpec => Linearizable
BY LinearInv, ModelInit, StepIsModelStep, PTL DEF LinearSpec, Linearizable, Model!Spec

-----------------------------------------------------------------------------
(* The replicated service *)

\* The arguments of an RPC.
Requests == GetArgs \cup PutArgs

\* A Put that can no longer take effect: the key is beyond its version.
Spent(s, args) == args.op = "Put" => args.version < KvState(s, args.key).version

\* The RPC has been executed.
Done(n) == \E i \in DOMAIN order : order[i] = n

\* One answer for every command executed; the RPCs are numbered as they are sent.
RaftTypes ==
  /\ req \in Seq(Requests) /\ Len(req) <= MaxRPC
  /\ order \in Seq(DOMAIN req)
  /\ answers \in Seq(Replies) /\ Len(answers) = Len(order)
  /\ DOMAIN submitted = 1..MaxRPC
  /\ tries \in [Client -> SUBSET DOMAIN req]

\* The RPCs of an operation carry its arguments, and belong to no other.
TriesInv(c) ==
  /\ \A n \in tries[c] : Pending(c) /\ req[n] = op[c]
  /\ first[c] => \A m, n \in tries[c] : m = n
  /\ \A d \in Client \ {c} : tries[c] \cap tries[d] = {}

\* No RPC is ahead of its key, and one that has been executed, or whose clerk has returned,
\* is spent.
RequestInv(n) ==
  /\ HasHad(req[n])
  /\ Done(n) \/ (\A c \in Client : n \notin tries[c]) => Spent(store, req[n])

\* So for the operations under way.
OperationInv(c) ==
  /\ Pending(c) => HasHad(op[c])
  /\ applied[c] => \E n \in tries[c] : Done(n)
  /\ applied[c] \/ call[c] = "reply" => Spent(store, op[c])

\* What DoOp answered to the Put of an operation under way, and why.
PutAnswer(c, n, answer) ==
  \/ answer.err = "OK" /\ applied[c]
  \/ /\ answer.err = "ErrVersion"
     /\ applied[c] => \E m \in tries[c] : m # n
     /\ \E st \in seen[c] : st.version # op[c].version

\* The answers to the RPCs of the operation under way are right for it.
ExecutedInv(c) ==
  \A i \in DOMAIN order : order[i] \in tries[c] =>
    /\ op[c].op = "Get" => \E st \in seen[c] : answers[i].value = st.value
    /\ op[c].op = "Put" => PutAnswer(c, order[i], answers[i])

\* The inductive invariant of kvraft1.
KInv ==
  /\ BaseInv /\ RaftTypes
  /\ \A n \in DOMAIN req : RequestInv(n)
  /\ \A c \in Client : TriesInv(c) /\ OperationInv(c) /\ ExecutedInv(c)

-----------------------------------------------------------------------------
(* DoOp *)

\* What DoOp does to the map and answers.
LEMMA Performed ==
  ASSUME KInv, NEW n \in DOMAIN req, store' = Execute(store, req[n])
  PROVE  LET st == KvState(store, req[n].key)
             r == Answer(store, req[n])
         IN  /\ req[n] \in Requests /\ req[n].key \in Key
             /\ IsKvStore(store) /\ IsKvStore(store') /\ r \in Replies
             /\ \A x \in Key \ {req[n].key} : KvState(store', x) = KvState(store, x)
             /\ req[n].op = "Get" => store' = store /\ r.value = st.value
             /\ req[n].op = "Put" /\ req[n].version # st.version =>
                  store' = store /\ r.err = "ErrVersion"
             /\ req[n].op = "Put" /\ req[n].version = st.version =>
                  /\ r.err = "OK"
                  /\ KvState(store', req[n].key) =
                       [value |-> req[n].value, version |-> st.version + 1]
<1>1. req[n] \in Requests
  BY DEF KInv, RaftTypes
<1>2. IsKvStore(store) /\ HasHad(req[n])
  BY Zenon DEF KInv, BaseInv, TypeInv, IsKvStore, RequestInv
<1>3. req[n].key \in Key
  BY Zenon, <1>1 DEF Requests, GetArgs, PutArgs
<1>4. CASE req[n] \in GetArgs
  <2>1. req[n].op = "Get"
    BY Zenon, <1>4 DEF GetArgs
  <2>2. QED
    BY Zenon, <1>1, <1>2, <1>3, <1>4, <2>1, GetAnswered
<1>5. CASE req[n] \in PutArgs
  <2>1. req[n].op = "Put" /\ req[n].version \in Nat
    BY Zenon, <1>5, VersionAssumption DEF PutArgs
  <2>2. req[n].version # 0 => req[n].key \in DOMAIN store
    <3>1. req[n].version <= KvState(store, req[n].key).version
      BY Zenon, <1>2, <2>1 DEF HasHad
    <3>2. req[n].key \notin DOMAIN store => KvState(store, req[n].key).version = 0
      BY Zenon DEF KvState
    <3>3. req[n].key \notin DOMAIN store => req[n].version <= 0
      BY Zenon, <3>1, <3>2
    <3>4. QED
      BY <2>1, <3>3
  <2>3. QED
    BY Zenon, <1>1, <1>2, <1>3, <1>5, <2>1, <2>2, PutAnswered
<1>6. QED
  BY Zenon, <1>1, <1>4, <1>5 DEF Requests

\* DoOp only moves versions up.
LEMMA VersionsRise ==
  ASSUME KInv, NEW n \in DOMAIN req, store' = Execute(store, req[n]), NEW x \in Key
  PROVE  /\ KvState(store, x).version \in Nat /\ KvState(store', x).version \in Nat
         /\ KvState(store, x).version <= KvState(store', x).version
<1>1. KvState(store, x).version \in Nat /\ KvState(store', x).version \in Nat
  BY Zenon, Performed, StateType
<1>2. req[n].op \in {"Get", "Put"}
  BY Zenon, Performed DEF Requests, GetArgs, PutArgs
<1>3. \/ KvState(store', x) = KvState(store, x)
      \/ \E v : KvState(store', x) = [value |-> v, version |-> KvState(store, x).version + 1]
  BY Zenon, <1>2, Performed
<1>4. \/ KvState(store', x).version = KvState(store, x).version
      \/ KvState(store', x).version = KvState(store, x).version + 1
  BY <1>3
<1>5. QED
  <2> DEFINE p == KvState(store, x).version
             q == KvState(store', x).version
  <2>1. p \in Nat /\ q \in Nat /\ (q = p \/ q = p + 1)
    BY Zenon, <1>1, <1>4
  <2> HIDE DEF p, q
  <2>2. p <= q
    BY <2>1
  <2>3. QED
    BY Zenon, <2>1, <2>2 DEF p, q

\* So what is spent stays spent, and no request comes to be ahead of its key.
LEMMA SpentStays ==
  ASSUME KInv, NEW n \in DOMAIN req, store' = Execute(store, req[n]), NEW args \in Requests
  PROVE  /\ Spent(store, args) => Spent(store', args)
         /\ HasHad(args) =>
              (args.op = "Put" => args.version <= KvState(store', args.key).version)
<1> SUFFICES ASSUME args.op = "Put"
             PROVE  /\ Spent(store, args) => Spent(store', args)
                    /\ HasHad(args) => args.version <= KvState(store', args.key).version
  BY Zenon DEF Spent
<1> DEFINE p == KvState(store, args.key).version
           q == KvState(store', args.key).version
           v == args.version
<1>1. args.key \in Key /\ v \in Nat
  BY Zenon, VersionAssumption DEF Requests, GetArgs, PutArgs
<1>2. p \in Nat /\ q \in Nat /\ p <= q
  BY Zenon, <1>1, VersionsRise
<1>3. (HasHad(args) => v <= p) /\ (Spent(store, args) => v < p)
  BY Zenon DEF HasHad, Spent
<1>4. v < q => Spent(store', args)
  BY Zenon DEF Spent
<1> HIDE DEF p, q, v
<1>5. (v <= p => v <= q) /\ (v < p => v < q)
  BY <1>1, <1>2
<1>6. QED
  BY Zenon, <1>3, <1>4, <1>5 DEF q, v

\* An RPC is spent once it has been executed.
LEMMA PerformedSpent ==
  ASSUME KInv, NEW n \in DOMAIN req, store' = Execute(store, req[n])
  PROVE  /\ Spent(store', req[n])
         /\ Spent(store, req[n]) => store' = store
         /\ req[n].op = "Put" /\ req[n].version = KvState(store, req[n].key).version =>
              store' # store
<1>1. CASE req[n].op # "Put"
  <2>1. req[n].op = "Get"
    BY Zenon, <1>1, Performed DEF Requests, GetArgs, PutArgs
  <2>2. QED
    BY Zenon, <1>1, <2>1, Performed DEF Spent
<1>2. CASE req[n].op = "Put"
  <2> DEFINE p == KvState(store, req[n].key).version
             q == KvState(store', req[n].key).version
             v == req[n].version
  <2>1. v \in Nat /\ p \in Nat /\ q \in Nat /\ v <= p
    <3>1. v \in Nat /\ req[n].key \in Key
      BY Zenon, <1>2, Performed, VersionAssumption DEF Requests, GetArgs, PutArgs
    <3>2. v <= p
      BY Zenon, <1>2 DEF KInv, RequestInv, HasHad
    <3>3. QED
      BY Zenon, <3>1, <3>2, VersionsRise
  <2>2. /\ v # p => store' = store /\ q = p
        /\ v = p => q = p + 1
    <3>1. v # p => store' = store
      BY Zenon, <1>2, Performed
    <3>2. v = p => KvState(store', req[n].key) = [value |-> req[n].value, version |-> p + 1]
      BY Zenon, <1>2, Performed
    <3>3. v = p => q = p + 1
      BY <3>2
    <3>4. QED
      BY Zenon, <3>1, <3>3
  <2>3. (Spent(store, req[n]) => v < p) /\ (v < q => Spent(store', req[n]))
    BY Zenon, <1>2 DEF Spent
  <2>4. store' = store => q = p
    BY Zenon
  <2> HIDE DEF p, q, v
  <2>5. v < q /\ (v < p => v # p) /\ (v = p => q # p)
    BY <2>1, <2>2
  <2>6. QED
    BY Zenon, <2>2, <2>3, <2>4, <2>5 DEF p, v
<1>3. QED
  BY Zenon, <1>1, <1>2

\* The assignments of DoOp.
LEMMA DoOpAssigns ==
  ASSUME KInv, NEW n \in 1..MaxRPC, DoOp(n)
  PROVE  /\ n \in DOMAIN req /\ store' = Execute(store, req[n]) /\ ~Done(n)
         /\ op' = op /\ call' = call /\ reply' = reply /\ first' = first /\ result' = result
         /\ tries' = tries /\ req' = req /\ submitted' = submitted
         /\ order' = Append(order, n) /\ answers' = Append(answers, Answer(store, req[n]))
         /\ \A c \in Client :
              /\ applied'[c] = (applied[c] \/ (store' # store /\ n \in tries[c]))
              /\ ~Pending(c) => seen'[c] = seen[c]
              /\ Pending(c) => seen'[c] = seen[c] \cup {KvState(store', op[c].key)}
              /\ Pending(c)' <=> Pending(c)
         /\ applied' = [c \in Client |-> applied'[c]] /\ seen' = [c \in Client |-> seen'[c]]
<1>1. ~Done(n)
  BY Zenon DEF DoOp, RSM!Executed, RSM!Range, Done
<1>2. QED
  BY Zenon, <1>1 DEF DoOp, RSM!Executed, clerkVars, Pending

\* The Put that takes effect is one whose clerk still waits, and has not taken effect before.
LEMMA EffectIsFresh ==
  ASSUME KInv, NEW n \in 1..MaxRPC, DoOp(n), store' # store
  PROVE  \E c \in Client :
           /\ n \in tries[c] /\ req[n] = op[c] /\ Pending(c)
           /\ ~applied[c] /\ call[c] # "reply" /\ \A m \in tries[c] : ~Done(m)
           /\ op[c].op = "Put" /\ op[c].version = KvState(store, op[c].key).version
           /\ \A d \in Client \ {c} : n \notin tries[d]
<1>1. ~Spent(store, req[n])
  BY Zenon, DoOpAssigns, PerformedSpent
<1>2. PICK c \in Client : n \in tries[c]
  BY Zenon, <1>1, DoOpAssigns DEF KInv, RequestInv
<1>3. req[n] = op[c] /\ Pending(c) /\ \A d \in Client \ {c} : n \notin tries[d]
  BY Zenon, <1>2 DEF KInv, TriesInv
<1>4. ~applied[c] /\ call[c] # "reply"
  BY Zenon, <1>1, <1>3 DEF KInv, OperationInv
<1>5. \A m \in tries[c] : m \in DOMAIN req /\ req[m] = op[c]
  BY Zenon DEF KInv, TriesInv, RaftTypes
<1>6. \A m \in tries[c] : ~Done(m)
  BY Zenon, <1>1, <1>3, <1>5 DEF KInv, RequestInv
<1>7. req[n].op \in {"Get", "Put"}
  BY Zenon, DoOpAssigns, Performed DEF Requests, GetArgs, PutArgs
<1>8. req[n].op = "Put" /\ req[n].version = KvState(store, req[n].key).version
  BY Zenon, <1>7, DoOpAssigns, Performed
<1>9. QED
  BY Zenon, <1>2, <1>3, <1>4, <1>6, <1>8

\* What an RPC of c does to c.
LEMMA AppliedByDoOp ==
  ASSUME KInv, NEW n \in 1..MaxRPC, DoOp(n), NEW c \in Client
  PROVE  \/ applied'[c] = applied[c] /\ ~(store' # store /\ n \in tries[c])
         \/ /\ applied'[c] /\ ~applied[c] /\ store' # store /\ n \in tries[c]
            /\ req[n] = op[c] /\ call[c] # "reply" /\ \A m \in tries[c] : ~Done(m)
            /\ op[c].op = "Put" /\ op[c].version = KvState(store, op[c].key).version
<1>1. CASE store' # store /\ n \in tries[c]
  <2>1. PICK d \in Client :
           /\ n \in tries[d] /\ req[n] = op[d] /\ Pending(d)
           /\ ~applied[d] /\ call[d] # "reply" /\ \A m \in tries[d] : ~Done(m)
           /\ op[d].op = "Put" /\ op[d].version = KvState(store, op[d].key).version
           /\ \A e \in Client \ {d} : n \notin tries[e]
    BY Zenon, <1>1, EffectIsFresh
  <2>2. d = c
    BY Zenon, <1>1, <2>1
  <2>3. QED
    BY Zenon, <1>1, <2>1, <2>2, DoOpAssigns
<1>2. CASE ~(store' # store /\ n \in tries[c])
  <2>1. applied[c] \in BOOLEAN
    BY Zenon DEF KInv, BaseInv, TypeInv
  <2>2. QED
    BY Zenon, <1>2, <2>1, DoOpAssigns
<1>3. QED
  BY Zenon, <1>1, <1>2

\* What the refinement rests on survives DoOp.
LEMMA DoOpBase ==
  ASSUME KInv, NEW n \in 1..MaxRPC, DoOp(n)
  PROVE  BaseInv'
<1>1. \A c \in Client : seen[c] \subseteq seen'[c]
  BY Zenon, DoOpAssigns
<1>2. TypeInv'
  <2>1. IsStore(store') /\ \A x \in DOMAIN store' : store'[x].ver > 0
    BY Zenon, DoOpAssigns, Performed DEF IsKvStore
  <2>2. \A c \in Client : Pending(c) => KvState(store', op[c].key) \in States
    <3>1. \A c \in Client : Pending(c) => op[c].key \in Key
      BY Zenon DEF KInv, BaseInv, SeenInv, Pending, GetArgs, PutArgs
    <3>2. QED
      BY Zenon, <3>1, DoOpAssigns, Performed, StateType
  <2>3. ASSUME NEW c \in Client PROVE seen'[c] \in SUBSET States
    <3>1. seen[c] \in SUBSET States
      BY Zenon, <2>3 DEF KInv, BaseInv, TypeInv
    <3>2. QED
      BY Zenon, <2>2, <2>3, <3>1, DoOpAssigns
  <2>4. seen' \in [Client -> SUBSET States]
    BY Zenon, <2>3, DoOpAssigns
  <2>5. \A c \in Client : applied'[c] \in BOOLEAN
    BY Zenon, DoOpAssigns
  <2>6. applied' \in [Client -> BOOLEAN]
    BY Zenon, <2>5, DoOpAssigns
  <2>7. /\ op' = op /\ call' = call /\ reply' = reply /\ result' = result /\ first' = first
        /\ TypeInv
    BY Zenon, DoOpAssigns DEF KInv, BaseInv
  <2>8. QED
    BY Zenon, <2>1, <2>4, <2>6, <2>7 DEF TypeInv, NoOp, GetArgs, PutArgs
<1>3. ASSUME NEW c \in Client PROVE IdleInv(c)'
  <2>1. SUFFICES ASSUME call[c] = "none"
                 PROVE  op[c] = NoOp /\ first[c] /\ ~applied'[c] /\ seen'[c] = {}
    BY Zenon, <1>3, DoOpAssigns DEF IdleInv, NoOp
  <2>2. op[c] = NoOp /\ first[c] /\ ~applied[c] /\ seen[c] = {} /\ ~Pending(c)
    BY Zenon, <2>1 DEF KInv, BaseInv, IdleInv, Pending
  <2>3. n \notin tries[c]
    BY Zenon, <2>2 DEF KInv, TriesInv
  <2>4. QED
    BY Zenon, <2>2, <2>3, DoOpAssigns
<1>4. ASSUME NEW c \in Client PROVE SeenInv(c)'
  <2>1. SUFFICES ASSUME call[c] # "none"
                 PROVE  op[c] \in GetArgs \cup PutArgs /\ KvState(store', op[c].key) \in seen'[c]
    <3>1. op' = op /\ call' = call
      BY Zenon, DoOpAssigns
    <3>2. QED
      BY Zenon, <1>4, <3>1 DEF SeenInv, GetArgs, PutArgs
  <2>2. QED
    BY Zenon, <2>1, DoOpAssigns DEF KInv, BaseInv, SeenInv, Pending
<1>5. ASSUME NEW c \in Client PROVE GetInv(c)'
  <2>1. SUFFICES ASSUME call[c] # "none", op[c].op = "Get"
                 PROVE  /\ ~applied'[c]
                        /\ call[c] = "reply" => \E st \in seen'[c] : reply[c].value = st.value
    BY Zenon, <1>5, DoOpAssigns DEF GetInv
  <2>2. ~applied[c] /\ (call[c] = "reply" => \E st \in seen[c] : reply[c].value = st.value)
    BY Zenon, <2>1 DEF KInv, BaseInv, GetInv
  <2>3. ~applied'[c]
    BY Zenon, <2>1, <2>2, AppliedByDoOp
  <2>4. QED
    BY Zenon, <1>1, <2>2, <2>3
<1>6. ASSUME NEW c \in Client PROVE PutReplied(c)'
  <2>1. SUFFICES ASSUME call[c] = "reply", op[c].op = "Put" PROVE PutReplied(c)'
    BY Zenon, <1>6, DoOpAssigns DEF PutReplied
  <2>2. applied'[c] = applied[c]
    BY Zenon, <2>1, AppliedByDoOp
  <2>3. PutReplied(c)
    BY Zenon DEF KInv, BaseInv
  <2>4. /\ op' = op /\ reply' = reply /\ first' = first /\ call' = call
        /\ seen[c] \subseteq seen'[c]
    BY Zenon, <1>1, DoOpAssigns
  <2>5. QED
    BY Zenon, <2>1, <2>2, <2>3, <2>4 DEF PutReplied
<1>7. QED
  BY Zenon, <1>2, <1>3, <1>4, <1>5, <1>6 DEF BaseInv

\* The commands executed, after one more.
LEMMA OneMoreDone ==
  ASSUME KInv, NEW n \in 1..MaxRPC, DoOp(n)
  PROVE  /\ RaftTypes'
         /\ \A m : Done(m)' <=> Done(m) \/ m = n
         /\ \A i \in DOMAIN order' :
              \/ i \in DOMAIN order /\ order'[i] = order[i] /\ answers'[i] = answers[i]
              \/ order'[i] = n /\ answers'[i] = Answer(store, req[n])
<1>1. /\ n \in DOMAIN req /\ req' = req /\ tries' = tries /\ submitted' = submitted
      /\ order' = Append(order, n) /\ answers' = Append(answers, Answer(store, req[n]))
      /\ Answer(store, req[n]) \in Replies
  BY Zenon, DoOpAssigns, Performed
<1>2. /\ order \in Seq(DOMAIN req) /\ answers \in Seq(Replies) /\ Len(answers) = Len(order)
  BY Zenon DEF KInv, RaftTypes
<1> DEFINE r == Answer(store, req[n])
           D == DOMAIN req
<1>3. /\ order \in Seq(D) /\ n \in D /\ order' = Append(order, n)
      /\ answers \in Seq(Replies) /\ r \in Replies /\ answers' = Append(answers, r)
  BY Zenon, <1>1, <1>2
<1> HIDE DEF r, D
<1>4. /\ order' \in Seq(D) /\ answers' \in Seq(Replies) /\ Len(answers') = Len(order')
      /\ DOMAIN order' = DOMAIN order \cup {Len(order) + 1}
      /\ \A i \in DOMAIN order : order'[i] = order[i] /\ answers'[i] = answers[i]
      /\ order'[Len(order) + 1] = n /\ answers'[Len(order) + 1] = r
  BY <1>2, <1>3
<1>5. RaftTypes'
  BY Zenon, <1>1, <1>4 DEF KInv, RaftTypes, D, Requests, GetArgs, PutArgs, Replies
<1>6. \A m : Done(m)' <=> Done(m) \/ m = n
  BY Zenon, <1>4 DEF Done
<1>7. QED
  BY Zenon, <1>4, <1>5, <1>6 DEF r

\* DoOp keeps the invariant.
LEMMA DoOpInv ==
  ASSUME KInv, NEW n \in 1..MaxRPC, DoOp(n)
  PROVE  KInv'
<1>1. n \in DOMAIN req /\ store' = Execute(store, req[n])
  BY Zenon, DoOpAssigns
<1>2. ASSUME NEW m \in DOMAIN req PROVE RequestInv(m)'
  <2>1. req[m] \in Requests
    BY DEF KInv, RaftTypes
  <2>2. HasHad(req[m])'
    BY Zenon, <1>1, <1>2, <2>1, DoOpAssigns, SpentStays DEF KInv, RequestInv, HasHad
  <2>3. Done(m)' \/ (\A c \in Client : m \notin tries[c]) => Spent(store', req[m])
    BY Zenon, <1>1, <1>2, <2>1, OneMoreDone, SpentStays, PerformedSpent DEF KInv, RequestInv
  <2>4. QED
    BY Zenon, <2>2, <2>3, DoOpAssigns DEF RequestInv
<1>3. ASSUME NEW c \in Client PROVE TriesInv(c)'
  <2>1. op' = op /\ call' = call /\ tries' = tries /\ req' = req /\ first' = first
    BY Zenon, DoOpAssigns
  <2>2. TriesInv(c)
    BY Zenon DEF KInv
  <2>3. QED
    BY Zenon, <2>1, <2>2 DEF TriesInv, Pending
<1>4. ASSUME NEW c \in Client PROVE OperationInv(c)'
  <2>1. Pending(c) => op[c] \in Requests
    BY Zenon DEF KInv, BaseInv, SeenInv, Pending, Requests
  <2>2. (Pending(c) => HasHad(op[c]))'
    BY Zenon, <1>1, <2>1, DoOpAssigns, SpentStays DEF KInv, OperationInv, HasHad
  <2>3. applied'[c] => \E m \in tries[c] : Done(m)'
    BY Zenon, OneMoreDone, AppliedByDoOp DEF KInv, OperationInv
  <2>4. applied'[c] \/ call[c] = "reply" => Spent(store', op[c])
    <3>1. applied[c] \/ call[c] = "reply" => Pending(c) /\ Spent(store, op[c])
      BY Zenon DEF KInv, BaseInv, IdleInv, OperationInv, Pending
    <3>2. applied'[c] /\ ~applied[c] => Spent(store', op[c])
      BY Zenon, <1>1, AppliedByDoOp, PerformedSpent
    <3>3. QED
      BY Zenon, <1>1, <2>1, <3>1, <3>2, SpentStays
  <2>5. QED
    BY Zenon, <2>2, <2>3, <2>4, DoOpAssigns DEF OperationInv
<1>5. ASSUME NEW c \in Client, NEW i \in DOMAIN order', order'[i] \in tries[c]
      PROVE  /\ op[c].op = "Get" => \E st \in seen'[c] : answers'[i].value = st.value
             /\ op[c].op = "Put" =>
                  \/ answers'[i].err = "OK" /\ applied'[c]
                  \/ /\ answers'[i].err = "ErrVersion"
                     /\ applied'[c] => \E m \in tries[c] : m # order'[i]
                     /\ \E st \in seen'[c] : st.version # op[c].version
  <2>1. seen[c] \subseteq seen'[c]
    BY Zenon, DoOpAssigns
  <2>2. op' = op /\ tries' = tries
    BY Zenon, DoOpAssigns
  <2>3. CASE i \in DOMAIN order /\ order'[i] = order[i] /\ answers'[i] = answers[i]
    <3>1. order[i] \in tries[c] /\ Done(order[i])
      BY Zenon, <1>5, <2>3 DEF Done
    <3>2. applied'[c] = applied[c]
      BY Zenon, <3>1, AppliedByDoOp
    <3>3. /\ op[c].op = "Get" => \E st \in seen[c] : answers[i].value = st.value
          /\ op[c].op = "Put" => PutAnswer(c, order[i], answers[i])
      BY Zenon, <2>3, <3>1 DEF KInv, ExecutedInv
    <3>4. QED
      BY Zenon, <2>1, <2>2, <2>3, <3>2, <3>3 DEF PutAnswer
  <2>4. CASE order'[i] = n /\ answers'[i] = Answer(store, req[n])
    <3> DEFINE st == KvState(store, op[c].key)
    <3>1. n \in tries[c] /\ req[n] = op[c] /\ st \in seen[c]
      BY Zenon, <1>5, <2>4 DEF KInv, TriesInv, BaseInv, SeenInv, Pending
    <3>2. op[c].op = "Get" => answers'[i].value = st.value
      BY Zenon, <1>1, <2>4, <3>1, Performed
    <3>3. CASE op[c].op = "Put" /\ op[c].version = st.version
      <4>1. answers'[i].err = "OK" /\ store' # store
        BY Zenon, <1>1, <2>4, <3>1, <3>3, Performed, PerformedSpent
      <4>2. applied'[c]
        BY Zenon, <3>1, <4>1, DoOpAssigns
      <4>3. QED
        BY Zenon, <2>4, <3>3, <4>1, <4>2
    <3>4. CASE op[c].op = "Put" /\ op[c].version # st.version
      <4>1. answers'[i].err = "ErrVersion" /\ store' = store
        BY Zenon, <1>1, <2>4, <3>1, <3>4, Performed
      <4>2. applied'[c] => \E m \in tries[c] : m # n
        BY Zenon, <4>1, DoOpAssigns DEF KInv, OperationInv
      <4>3. \E t \in seen'[c] : t.version # op[c].version
        BY Zenon, <2>1, <3>1, <3>4
      <4>4. QED
        BY Zenon, <2>4, <3>4, <4>1, <4>2, <4>3
    <3>5. QED
      BY Zenon, <2>1, <3>1, <3>2, <3>3, <3>4
  <2>5. QED
    BY Zenon, <1>5, <2>3, <2>4, OneMoreDone
<1>6. ASSUME NEW c \in Client PROVE ExecutedInv(c)'
  <2>1. op' = op /\ tries' = tries
    BY Zenon, DoOpAssigns
  <2>2. QED
    BY Zenon, <1>5, <1>6, <2>1 DEF ExecutedInv, PutAnswer
<1>7. QED
  BY Zenon, <1>2, <1>3, <1>4, <1>6, DoOpAssigns, DoOpBase, OneMoreDone DEF KInv

-----------------------------------------------------------------------------
(* The steps of the clerk of kvraft1 *)

\* A new RPC is no other's, and has not been executed.
LEMMA Sent ==
  ASSUME KInv, NEW c \in Client, NEW args \in Requests, NEW server, Send(c, args, server)
  PROVE  LET n == Len(req) + 1
         IN  /\ RaftTypes' /\ ~Done(n) /\ order' = order /\ answers' = answers
             /\ n \notin DOMAIN req /\ \A d \in Client : n \notin tries[d]
             /\ DOMAIN req' = DOMAIN req \cup {n} /\ req'[n] = args
             /\ \A m \in DOMAIN req : req'[m] = req[m]
             /\ tries'[c] = tries[c] \cup {n} /\ \A d \in Client \ {c} : tries'[d] = tries[d]
             /\ \A d \in Client : tries[d] \subseteq DOMAIN req
<1> DEFINE n == Len(req) + 1
<1>1. /\ Len(req) < MaxRPC /\ req' = Append(req, args)
      /\ tries' = [tries EXCEPT ![c] = @ \cup {n}]
      /\ order' = order /\ submitted' = submitted /\ answers' = answers
  BY Zenon DEF Send
<1>2. /\ req \in Seq(Requests) /\ order \in Seq(DOMAIN req)
      /\ tries \in [Client -> SUBSET DOMAIN req] /\ MaxRPC \in Nat
  BY Zenon, ServersAssumption DEF KInv, RaftTypes
<1>3. /\ req' \in Seq(Requests) /\ Len(req') <= MaxRPC
      /\ n \notin DOMAIN req /\ DOMAIN req' = DOMAIN req \cup {n} /\ req'[n] = args
      /\ \A m \in DOMAIN req : req'[m] = req[m]
  <2> HIDE DEF Requests
  <2> QED
    BY <1>1, <1>2
<1>4. \A i \in DOMAIN order : order[i] \in DOMAIN req
  BY <1>2
<1>5. order' \in Seq(DOMAIN req')
  BY <1>1, <1>2, <1>3, <1>4
<1>6. tries' \in [Client -> SUBSET DOMAIN req']
  BY Zenon, <1>1, <1>2, <1>3
<1>7. /\ tries'[c] = tries[c] \cup {n} /\ \A d \in Client \ {c} : tries'[d] = tries[d]
      /\ \A d \in Client : tries[d] \subseteq DOMAIN req
  BY Zenon, <1>1, <1>2
<1>8. ~Done(n)
  BY Zenon, <1>3, <1>4 DEF Done
<1>9. RaftTypes'
  BY Zenon, <1>1, <1>3, <1>5, <1>6 DEF KInv, RaftTypes, Requests, GetArgs, PutArgs, Replies
<1> HIDE DEF n
<1>10. QED
  BY Zenon, <1>1, <1>3, <1>7, <1>8, <1>9 DEF n

\* What has been executed for an operation that takes no step, or sends one RPC more.
LEMMA ExecutedStays ==
  ASSUME NEW d \in Client, ExecutedInv(d), order' = order, answers' = answers,
         tries[d] \subseteq tries'[d],
         \A i \in DOMAIN order : order[i] \in tries'[d] => order[i] \in tries[d],
         op'[d] = op[d], seen'[d] = seen[d], applied'[d] = applied[d]
  PROVE  ExecutedInv(d)'
<1>1. SUFFICES ASSUME NEW i \in DOMAIN order, order[i] \in tries'[d]
               PROVE  /\ op[d].op = "Get" => \E st \in seen[d] : answers[i].value = st.value
                      /\ op[d].op = "Put" =>
                           \/ answers[i].err = "OK" /\ applied[d]
                           \/ /\ answers[i].err = "ErrVersion"
                              /\ applied[d] => \E m \in tries'[d] : m # order[i]
                              /\ \E st \in seen[d] : st.version # op[d].version
  BY Zenon DEF ExecutedInv, PutAnswer
<1>2. /\ op[d].op = "Get" => \E st \in seen[d] : answers[i].value = st.value
      /\ op[d].op = "Put" => PutAnswer(d, order[i], answers[i])
  BY Zenon, <1>1 DEF ExecutedInv
<1>3. QED
  BY Zenon, <1>2 DEF PutAnswer

\* So the invariant holds of the RPCs, the operations and the answers, with one RPC more.
LEMMA SentInv ==
  ASSUME KInv, NEW c \in Client, NEW args \in Requests, NEW server, Send(c, args, server),
         BaseInv', Only(c), HasHad(args), op'[c] = args, call'[c] = "request",
         ~first'[c] \/ tries[c] = {},
         applied'[c] => applied[c] /\ Spent(store, args),
         tries[c] = {} \/ (op'[c] = op[c] /\ seen'[c] = seen[c] /\ applied'[c] = applied[c])
  PROVE  KInv'
<1> DEFINE n == Len(req) + 1
<1>1. /\ RaftTypes' /\ ~Done(n) /\ order' = order /\ answers' = answers
      /\ n \notin DOMAIN req /\ \A d \in Client : n \notin tries[d]
      /\ DOMAIN req' = DOMAIN req \cup {n} /\ req'[n] = args
      /\ \A m \in DOMAIN req : req'[m] = req[m]
      /\ tries'[c] = tries[c] \cup {n} /\ \A d \in Client \ {c} : tries'[d] = tries[d]
      /\ \A d \in Client : tries[d] \subseteq DOMAIN req
  BY Zenon, Sent
<1> HIDE DEF n
<1>2. store' = store /\ \A m : Done(m)' <=> Done(m)
  BY Zenon, <1>1 DEF Only, Done
<1>3. \A d \in Client \ {c} :
        /\ op'[d] = op[d] /\ call'[d] = call[d] /\ first'[d] = first[d]
        /\ seen'[d] = seen[d] /\ applied'[d] = applied[d]
  BY Zenon DEF Only
<1>4. ASSUME NEW m \in DOMAIN req' PROVE RequestInv(m)'
  <2>1. CASE m = n
    <3>1. ~Done(m)' /\ m \in tries'[c] /\ req'[m] = args
      BY Zenon, <1>1, <1>2, <2>1
    <3>2. QED
      BY Zenon, <1>2, <3>1 DEF RequestInv, HasHad
  <2>2. CASE m \in DOMAIN req
    <3>1. req'[m] = req[m] /\ RequestInv(m)
      BY Zenon, <1>1, <2>2 DEF KInv
    <3>2. (\A d \in Client : m \notin tries'[d]) => (\A d \in Client : m \notin tries[d])
      BY Zenon, <1>1
    <3>3. QED
      BY Zenon, <1>2, <3>1, <3>2 DEF RequestInv, HasHad
  <2>3. QED
    BY Zenon, <1>1, <1>4, <2>1, <2>2
<1>5. ASSUME NEW d \in Client PROVE TriesInv(d)'
  <2>1. TriesInv(d)
    BY Zenon DEF KInv
  <2>2. \A m \in tries[d] : req'[m] = req[m] /\ m # n
    BY Zenon, <1>1
  <2>3. CASE d = c
    <3>1. tries'[d] = tries[d] \cup {n} /\ req'[n] = op'[d] /\ Pending(d)'
      BY Zenon, <1>1, <2>3 DEF Pending
    <3>2. \A m \in tries[d] : req'[m] = op'[d]
      BY Zenon, <2>1, <2>2, <2>3 DEF TriesInv
    <3>3. first'[d] => \A m, q \in tries'[d] : m = q
      BY Zenon, <2>3, <3>1
    <3>4. \A e \in Client \ {d} : tries'[e] = tries[e] /\ n \notin tries[e]
      BY Zenon, <1>1, <2>3
    <3>5. ASSUME NEW e \in Client \ {d} PROVE tries'[d] \cap tries'[e] = {}
      <4>1. tries[d] \cap tries[e] = {} /\ tries'[e] = tries[e] /\ n \notin tries[e]
        BY Zenon, <2>1, <3>4, <3>5 DEF TriesInv
      <4>2. QED
        BY Zenon, <3>1, <4>1
    <3>6. QED
      BY Zenon, <3>1, <3>2, <3>3, <3>5 DEF TriesInv
  <2>4. CASE d # c
    <3>1. /\ tries'[d] = tries[d] /\ op'[d] = op[d] /\ call'[d] = call[d] /\ first'[d] = first[d]
          /\ n \notin tries[d]
      BY Zenon, <1>1, <1>3, <2>4
    <3>2. \A e \in Client : tries'[e] \subseteq tries[e] \cup {n}
      BY Zenon, <1>1
    <3>3. \A e \in Client \ {d} : tries'[d] \cap tries'[e] = {}
      BY Zenon, <2>1, <3>1, <3>2 DEF TriesInv
    <3>4. QED
      BY Zenon, <2>1, <2>2, <3>1, <3>3 DEF TriesInv, Pending
  <2>5. QED
    BY Zenon, <2>3, <2>4
<1>6. ASSUME NEW d \in Client PROVE OperationInv(d)'
  <2>1. OperationInv(d)
    BY Zenon DEF KInv
  <2>2. CASE d = c
    BY Zenon, <1>1, <1>2, <2>1, <2>2 DEF OperationInv, HasHad
  <2>3. CASE d # c
    BY Zenon, <1>1, <1>2, <1>3, <2>1, <2>3 DEF OperationInv, HasHad, Pending
  <2>4. QED
    BY Zenon, <2>2, <2>3
<1>7. ASSUME NEW d \in Client PROVE ExecutedInv(d)'
  <2>1. ExecutedInv(d)
    BY Zenon DEF KInv
  <2>2. \A i \in DOMAIN order : order[i] # n
    BY Zenon, <1>1 DEF Done
  <2>3. CASE d = c
    <3>1. order' = order /\ answers' = answers /\ tries'[d] = tries[d] \cup {n}
      BY Zenon, <1>1, <2>3
    <3>2. CASE tries[d] = {}
      BY Zenon, <2>2, <3>1, <3>2 DEF ExecutedInv
    <3>3. CASE op'[d] = op[d] /\ seen'[d] = seen[d] /\ applied'[d] = applied[d]
      BY Zenon, <2>1, <2>2, <3>1, <3>3, ExecutedStays
    <3>4. QED
      BY Zenon, <2>3, <3>2, <3>3
  <2>4. CASE d # c
    <3>1. /\ order' = order /\ answers' = answers /\ tries'[d] = tries[d]
          /\ op'[d] = op[d] /\ seen'[d] = seen[d] /\ applied'[d] = applied[d]
      BY Zenon, <1>1, <1>3, <2>4
    <3>2. QED
      BY Zenon, <2>1, <3>1, ExecutedStays
  <2>5. QED
    BY Zenon, <2>3, <2>4
<1>8. QED
  BY Zenon, <1>1, <1>4, <1>5, <1>6, <1>7 DEF KInv

\* A client calls Get or Put.
LEMMA InvokeRaftInv ==
  ASSUME KInv, NEW c \in Client, NEW args \in Requests, HasHad(args), InvokeRaft(c, args)
  PROVE  KInv'
<1>1. LinearInvoke(c, args) /\ Send(c, args, leader[c])
  BY Zenon DEF InvokeRaft
<1>2. /\ BaseInv' /\ Only(c)
      /\ call[c] = "none" /\ call'[c] = "request" /\ op'[c] = args /\ ~applied'[c]
  BY Zenon, <1>1, InvokeBase DEF KInv, Requests
<1>3. tries[c] = {}
  BY Zenon, <1>2 DEF KInv, TriesInv, Pending
<1>4. QED
  BY Zenon, <1>1, <1>2, <1>3, SentInv

\* The clerk tries the next server.
LEMMA RetryRaftInv ==
  ASSUME KInv, NEW c \in Client, RetryRaft(c)
  PROVE  KInv'
<1>1. Retry(c) /\ UNCHANGED historyVars /\ Send(c, op[c], (leader[c] + 1) % Servers)
  BY Zenon DEF RetryRaft
<1>2. /\ BaseInv' /\ Only(c)
      /\ call[c] # "none" /\ call'[c] = "request" /\ ~first'[c]
      /\ op' = op /\ seen' = seen /\ applied' = applied
  BY Zenon, <1>1, RetryBase DEF KInv
<1>3. op[c] \in Requests
  BY Zenon, <1>2 DEF KInv, BaseInv, SeenInv, Requests
<1>4. HasHad(op[c]) /\ (applied[c] => Spent(store, op[c]))
  BY Zenon, <1>2 DEF KInv, OperationInv, Pending
<1>5. QED
  BY Zenon, <1>1, <1>2, <1>3, <1>4, SentInv

\* The assignments of Answered: the reply is the answer to an RPC of the operation.
LEMMA AnsweredAssigns ==
  ASSUME KInv, NEW c \in Client, Answered(c)
  PROVE  /\ call[c] = "request" /\ call' = [call EXCEPT ![c] = "reply"]
         /\ \E i \in DOMAIN order :
              /\ order[i] \in tries[c] /\ answers[i] \in Replies
              /\ reply' = [reply EXCEPT ![c] = answers[i]]
         /\ store' = store /\ op' = op /\ first' = first /\ result' = result
         /\ seen' = seen /\ applied' = applied /\ tries' = tries /\ req' = req
         /\ order' = order /\ answers' = answers /\ DOMAIN submitted' = DOMAIN submitted
<1>1. PICK n \in tries[c] :
        /\ call[c] = "request" /\ RSM!ReturnedOK(n)
        /\ reply' = [reply EXCEPT ![c] = answers[Len(submitted'[n].result)]]
        /\ call' = [call EXCEPT ![c] = "reply"]
        /\ UNCHANGED <<store, op, first, result, historyVars, leader, tries, req, answers>>
  BY Zenon DEF Answered
<1> DEFINE i == CHOOSE j \in DOMAIN order : order[j] = n
<1>2. i \in DOMAIN order /\ order[i] = n
  BY Zenon, <1>1 DEF RSM!ReturnedOK, RSM!Range
<1>3. /\ submitted' = [submitted EXCEPT ![n] = [err |-> "OK", result |-> SubSeq(order, 1, i)]]
      /\ order' = order
  BY Zenon, <1>1 DEF RSM!ReturnedOK, RSM!OK, RSM!UpTo
<1> HIDE DEF i
<1>4. n \in DOMAIN submitted /\ DOMAIN submitted' = DOMAIN submitted
  <2>1. n \in DOMAIN req /\ req \in Seq(Requests) /\ Len(req) <= MaxRPC /\ MaxRPC \in Nat
    BY Zenon, ServersAssumption DEF KInv, RaftTypes
  <2>2. n \in 1..MaxRPC
    <3> HIDE DEF Requests
    <3> QED
      BY <2>1
  <2>3. QED
    BY Zenon, <1>3, <2>2 DEF KInv, RaftTypes
<1>5. submitted'[n].result = SubSeq(order, 1, i)
  BY Zenon, <1>3, <1>4
<1>6. order \in Seq(DOMAIN req) /\ answers \in Seq(Replies) /\ Len(answers) = Len(order)
  BY Zenon DEF KInv, RaftTypes
<1>7. Len(SubSeq(order, 1, i)) = i /\ answers[i] \in Replies
  BY <1>2, <1>6
<1>8. QED
  BY Zenon, <1>1, <1>2, <1>3, <1>4, <1>5, <1>7 DEF historyVars

\* Submit returns, and the reply is on its way.
LEMMA AnsweredInv ==
  ASSUME KInv, NEW c \in Client, Answered(c)
  PROVE  KInv'
<1>1. PICK i \in DOMAIN order :
        order[i] \in tries[c] /\ answers[i] \in Replies /\ reply' = [reply EXCEPT ![c] = answers[i]]
  BY Zenon, AnsweredAssigns
<1>2. /\ call[c] = "request" /\ call' = [call EXCEPT ![c] = "reply"]
      /\ store' = store /\ op' = op /\ first' = first /\ result' = result
      /\ seen' = seen /\ applied' = applied /\ tries' = tries /\ req' = req
      /\ order' = order /\ answers' = answers /\ DOMAIN submitted' = DOMAIN submitted
  BY Zenon, AnsweredAssigns
<1>3. call'[c] = "reply" /\ reply'[c] = answers[i]
  BY Zenon, <1>1, <1>2 DEF KInv, BaseInv, TypeInv
<1>4. \A d \in Client \ {c} : call'[d] = call[d] /\ reply'[d] = reply[d]
  BY ZenonT(30), <1>1, <1>2 DEF KInv, BaseInv, TypeInv
<1>5. /\ op[c].op = "Get" => \E st \in seen[c] : answers[i].value = st.value
      /\ op[c].op = "Put" => PutAnswer(c, order[i], answers[i])
  BY Zenon, <1>1 DEF KInv, ExecutedInv
<1>6. first[c] => \A m \in tries[c] : m = order[i]
  BY Zenon, <1>1 DEF KInv, TriesInv
<1>7. BaseInv'
  <2>1. TypeInv'
    <3>1. call' \in [Client -> {"none", "request", "reply"}] /\ reply' \in [Client -> Replies]
      BY Zenon, <1>1, <1>2 DEF KInv, BaseInv, TypeInv
    <3>2. TypeInv
      BY Zenon DEF KInv, BaseInv
    <3>3. QED
      BY Zenon, <1>2, <3>1, <3>2 DEF TypeInv, NoOp, GetArgs, PutArgs
  <2>2. Only(c)
    BY Zenon, <1>2, <1>4 DEF Only
  <2>3. IdleInv(c)' /\ SeenInv(c)'
    BY Zenon, <1>2, <1>3 DEF KInv, BaseInv, IdleInv, SeenInv, GetArgs, PutArgs
  <2>4. GetInv(c)'
    BY Zenon, <1>2, <1>3, <1>5 DEF KInv, BaseInv, GetInv
  <2>5. PutReplied(c)'
    BY Zenon, <1>2, <1>3, <1>5, <1>6 DEF PutReplied, PutAnswer
  <2>6. QED
    BY Zenon, <2>1, <2>2, <2>3, <2>4, <2>5, OnlyBase DEF KInv
<1>8. RaftTypes'
  BY Zenon, <1>2 DEF KInv, RaftTypes, Requests, GetArgs, PutArgs, Replies
<1>9. \A m : Done(m)' <=> Done(m)
  BY Zenon, <1>2 DEF Done
<1>10. ASSUME NEW m \in DOMAIN req PROVE RequestInv(m)'
  BY Zenon, <1>2, <1>9, <1>10 DEF KInv, RequestInv, HasHad
<1>11. ASSUME NEW d \in Client PROVE Pending(d)' <=> Pending(d)
  BY Zenon, <1>2, <1>3, <1>4 DEF Pending
<1>12. ASSUME NEW d \in Client PROVE TriesInv(d)'
  <2>1. TriesInv(d)
    BY Zenon DEF KInv
  <2>2. QED
    BY Zenon, <1>2, <1>11, <2>1 DEF TriesInv
<1>13. Spent(store, op[c])
  <2>1. Done(order[i]) /\ order[i] \in DOMAIN req /\ req[order[i]] = op[c]
    BY Zenon, <1>1 DEF Done, KInv, TriesInv, RaftTypes
  <2>2. QED
    BY Zenon, <2>1 DEF KInv, RequestInv
<1>14. ASSUME NEW d \in Client PROVE OperationInv(d)'
  <2>1. OperationInv(d)
    BY Zenon DEF KInv
  <2>2. QED
    BY Zenon, <1>2, <1>4, <1>9, <1>11, <1>13, <2>1 DEF OperationInv, HasHad
<1>15. ASSUME NEW d \in Client PROVE ExecutedInv(d)'
  <2>1. ExecutedInv(d)
    BY Zenon DEF KInv
  <2>2. QED
    BY Zenon, <1>2, <2>1, ExecutedStays
<1>16. QED
  BY Zenon, <1>2, <1>7, <1>8, <1>10, <1>12, <1>14, <1>15 DEF KInv

\* The clerk returns: the RPCs it has given up are spent.
LEMMA ReturnRaftInv ==
  ASSUME KInv, NEW c \in Client, ReturnRaft(c)
  PROVE  KInv'
<1>1. /\ LinearReturn(c) /\ tries' = [tries EXCEPT ![c] = {}]
      /\ req' = req /\ order' = order /\ submitted' = submitted /\ answers' = answers
  BY Zenon DEF ReturnRaft
<1>2. /\ BaseInv' /\ Only(c)
      /\ call[c] = "reply" /\ call'[c] = "none" /\ op'[c] = NoOp /\ ~applied'[c]
  BY Zenon, <1>1, ReturnBase DEF KInv
<1>3. tries'[c] = {} /\ \A d \in Client \ {c} : tries'[d] = tries[d]
  BY Zenon, <1>1 DEF KInv, RaftTypes
<1>4. store' = store /\ \A m : Done(m)' <=> Done(m)
  BY Zenon, <1>1, <1>2 DEF Only, Done
<1>5. \A d \in Client \ {c} :
        /\ op'[d] = op[d] /\ call'[d] = call[d] /\ first'[d] = first[d]
        /\ seen'[d] = seen[d] /\ applied'[d] = applied[d]
  BY Zenon, <1>2 DEF Only
<1>6. RaftTypes'
  <2>1. tries' \in [Client -> SUBSET DOMAIN req]
    BY Zenon, <1>1 DEF KInv, RaftTypes
  <2>2. QED
    BY Zenon, <1>1, <2>1 DEF KInv, RaftTypes, Requests, GetArgs, PutArgs, Replies
<1>7. ASSUME NEW m \in DOMAIN req PROVE RequestInv(m)'
  <2>1. m \in tries[c] => Spent(store, req[m])
    BY Zenon, <1>2 DEF KInv, TriesInv, OperationInv
  <2>2. (\A d \in Client : m \notin tries'[d]) =>
          m \in tries[c] \/ \A d \in Client : m \notin tries[d]
    BY Zenon, <1>3
  <2>3. RequestInv(m)
    BY Zenon, <1>7 DEF KInv
  <2>4. QED
    BY Zenon, <1>1, <1>4, <2>1, <2>2, <2>3 DEF RequestInv, HasHad
<1>8. ASSUME NEW d \in Client PROVE TriesInv(d)' /\ OperationInv(d)' /\ ExecutedInv(d)'
  <2>1. CASE d = c
    BY Zenon, <1>2, <1>3, <2>1 DEF TriesInv, OperationInv, ExecutedInv, Pending
  <2>2. CASE d # c
    <3>1. TriesInv(d) /\ OperationInv(d) /\ ExecutedInv(d)
      BY Zenon DEF KInv
    <3>2. /\ op'[d] = op[d] /\ call'[d] = call[d] /\ first'[d] = first[d]
          /\ seen'[d] = seen[d] /\ applied'[d] = applied[d] /\ tries'[d] = tries[d]
      BY Zenon, <1>3, <1>5, <2>2
    <3>3. TriesInv(d)'
      BY Zenon, <1>1, <1>3, <3>1, <3>2 DEF TriesInv, Pending
    <3>4. OperationInv(d)'
      BY Zenon, <1>4, <3>1, <3>2 DEF OperationInv, HasHad, Pending
    <3>5. ExecutedInv(d)'
      BY Zenon, <1>1, <3>1, <3>2, ExecutedStays
    <3>6. QED
      BY Zenon, <3>3, <3>4, <3>5
  <2>3. QED
    BY Zenon, <2>1, <2>2
<1>9. QED
  BY Zenon, <1>1, <1>2, <1>6, <1>7, <1>8 DEF KInv

-----------------------------------------------------------------------------
(* Every step of the replicated service *)

\* The invariant holds at the start.
LEMMA RaftInitInv ==
  LinearInit /\ RaftInit => KInv
<1> SUFFICES ASSUME LinearInit, RaftInit PROVE KInv
  BY Zenon
<1>1. BaseInv
  BY Zenon, LinearInitInv DEF LInv
<1>2. /\ tries = [c \in Client |-> {}] /\ req = <<>> /\ answers = <<>> /\ order = <<>>
      /\ DOMAIN submitted = 1..MaxRPC
  BY Zenon DEF RaftInit, RSM!Init
<1>3. DOMAIN req = {} /\ DOMAIN order = {} /\ Len(req) <= MaxRPC /\ Len(answers) = Len(order)
  BY <1>2, ServersAssumption
<1>4. req \in Seq(Requests) /\ order \in Seq(DOMAIN req) /\ answers \in Seq(Replies)
  <2> HIDE DEF Requests
  <2> QED
    BY <1>2
<1>5. RaftTypes
  BY Zenon, <1>2, <1>3, <1>4 DEF RaftTypes
<1>6. ASSUME NEW c \in Client PROVE TriesInv(c) /\ OperationInv(c) /\ ExecutedInv(c)
  <2>1. tries[c] = {} /\ ~applied[c] /\ call[c] = "none"
    BY Zenon, <1>2 DEF LinearInit, Init
  <2>2. QED
    BY Zenon, <1>3, <2>1 DEF TriesInv, OperationInv, ExecutedInv, Pending
<1>7. QED
  BY Zenon, <1>1, <1>3, <1>5, <1>6 DEF KInv

\* A step that leaves alone what the invariant is about.
LEMMA KInvStutters ==
  ASSUME KInv, UNCHANGED linearVars, UNCHANGED <<tries, req, order, submitted, answers>>
  PROVE  KInv'
<1>1. /\ store' = store /\ op' = op /\ call' = call /\ reply' = reply /\ first' = first
      /\ result' = result /\ seen' = seen /\ applied' = applied
      /\ tries' = tries /\ req' = req /\ order' = order /\ submitted' = submitted
      /\ answers' = answers
  BY Zenon DEF linearVars, vars, clerkVars, historyVars
<1>2. BaseInv'
  <2>1. BaseInv
    BY Zenon DEF KInv
  <2>2. TypeInv'
    BY Zenon, <1>1, <2>1 DEF BaseInv, TypeInv, NoOp, GetArgs, PutArgs
  <2>3. ASSUME NEW c \in Client
        PROVE  IdleInv(c)' /\ SeenInv(c)' /\ GetInv(c)' /\ PutReplied(c)'
    <3>1. IdleInv(c)' /\ SeenInv(c)'
      BY Zenon, <1>1, <2>1, <2>3 DEF BaseInv, IdleInv, SeenInv, NoOp, GetArgs, PutArgs
    <3>2. GetInv(c)' /\ PutReplied(c)'
      BY Zenon, <1>1, <2>1, <2>3 DEF BaseInv, GetInv, PutReplied
    <3>3. QED
      BY Zenon, <3>1, <3>2
  <2>4. QED
    BY Zenon, <2>2, <2>3 DEF BaseInv
<1>3. RaftTypes'
  BY Zenon, <1>1 DEF KInv, RaftTypes, Requests, GetArgs, PutArgs, Replies
<1>4. \A m : Done(m)' <=> Done(m)
  BY Zenon, <1>1 DEF Done
<1>5. ASSUME NEW m \in DOMAIN req PROVE RequestInv(m)'
  BY Zenon, <1>1, <1>4, <1>5 DEF KInv, RequestInv, HasHad
<1>6. ASSUME NEW c \in Client PROVE TriesInv(c)'
  BY Zenon, <1>1, <1>6 DEF KInv, TriesInv, Pending
<1>7. ASSUME NEW c \in Client PROVE OperationInv(c)'
  BY Zenon, <1>1, <1>4, <1>7 DEF KInv, OperationInv, HasHad, Pending
<1>8. ASSUME NEW c \in Client PROVE ExecutedInv(c)'
  <2>1. ExecutedInv(c)
    BY Zenon DEF KInv
  <2>2. QED
    BY Zenon, <1>1, <2>1, ExecutedStays
<1>9. QED
  BY Zenon, <1>1, <1>2, <1>3, <1>5, <1>6, <1>7, <1>8 DEF KInv

\* A handler calls Submit: the command comes to a log.
LEMMA SubmitInv ==
  ASSUME KInv, NEW n \in 1..MaxRPC, Submit(n)
  PROVE  UNCHANGED linearVars /\ KInv'
<1>1. UNCHANGED linearVars /\ UNCHANGED <<tries, req, order, submitted, answers>>
  BY Zenon DEF Submit, RSM!Submitted
<1>2. QED
  BY Zenon, <1>1, KInvStutters

\* Every step keeps the invariant.
LEMMA RaftNextInv ==
  KInv /\ [RaftNext]_<<linearVars, raftVars>> => KInv'
<1> SUFFICES ASSUME KInv, [RaftNext]_<<linearVars, raftVars>> PROVE KInv'
  BY Zenon
<1>1. CASE UNCHANGED <<linearVars, raftVars>>
  BY Zenon, <1>1, KInvStutters DEF raftVars
<1>2. CASE RaftNext
  BY Zenon, <1>2, SubmitInv, DoOpInv, InvokeRaftInv, AnsweredInv, RetryRaftInv, ReturnRaftInv
     DEF RaftNext, Requests
<1>3. QED
  BY Zenon, <1>1, <1>2

\* The invariant of the replicated service.
THEOREM RaftInvariant == RaftSpec => []KInv
BY RaftInitInv, RaftNextInv, PTL DEF RaftSpec

-----------------------------------------------------------------------------
(* Every step of it is one of the sequential model, or none *)

\* DoOp is the linearization point of a Put that takes effect, and of nothing else.
LEMMA DoOpIsApply ==
  ASSUME KInv, NEW n \in 1..MaxRPC, DoOp(n)
  PROVE  Model!Next \/ UNCHANGED Model!vars
<1>1. seen' = [d \in Client |->
        IF Pending(d) THEN seen[d] \cup {KvState(store', op[d].key)} ELSE seen[d]]
  BY Zenon DEF DoOp
<1>2. op' = op /\ result' = result /\ \A d \in Client : Pending(d)' <=> Pending(d)
  BY Zenon, DoOpAssigns
<1>3. CASE store' = store
  <2>1. seen' = seen
    BY Zenon, <1>1, <1>3, SeenAgain DEF KInv
  <2>2. \A c \in Client : applied'[c] = applied[c]
    BY Zenon, <1>3, AppliedByDoOp
  <2>3. applied' = applied
    <3>1. applied = [c \in Client |-> applied[c]]
      BY Zenon DEF KInv, BaseInv, TypeInv
    <3>2. applied' = [c \in Client |-> applied'[c]]
      BY Zenon, DoOpAssigns
    <3>3. QED
      BY Zenon, <2>2, <3>1, <3>2
  <2>4. QED
    BY Zenon, <1>2, <1>3, <2>1, <2>3, ModelStutters
<1>4. CASE store' # store
  <2>1. PICK c \in Client :
           /\ n \in tries[c] /\ req[n] = op[c] /\ Pending(c) /\ ~applied[c]
           /\ op[c].op = "Put" /\ op[c].version = KvState(store, op[c].key).version
           /\ \A d \in Client \ {c} : n \notin tries[d]
    BY Zenon, <1>4, EffectIsFresh
  <2>2. /\ KvState(store', op[c].key) =
             [value |-> op[c].value, version |-> KvState(store, op[c].key).version + 1]
        /\ \A x \in Key \ {op[c].key} : KvState(store', x) = KvState(store, x)
    <3>1. n \in DOMAIN req /\ store' = Execute(store, req[n])
      BY Zenon, DoOpAssigns
    <3>2. QED
      BY Zenon, <2>1, <3>1, Performed
  <2>3. applied' = [applied EXCEPT ![c] = TRUE]
    <3>1. applied'[c] = TRUE
      BY Zenon, <1>4, <2>1, DoOpAssigns
    <3>2. \A d \in Client \ {c} : applied'[d] = applied[d]
      BY Zenon, <2>1, AppliedByDoOp
    <3>3. applied' = [d \in Client |-> applied'[d]] /\ applied \in [Client -> BOOLEAN]
      BY Zenon, DoOpAssigns DEF KInv, BaseInv, TypeInv
    <3>4. QED
      BY Zenon, <3>1, <3>2, <3>3
  <2>4. Model!Apply(c)
    BY Zenon, <1>1, <1>2, <2>1, <2>2, <2>3, EffectIsApply DEF KInv
  <2>5. QED
    BY Zenon, <2>4 DEF Model!Next
<1>5. QED
  BY Zenon, <1>3, <1>4

\* Every step of the replicated service is a step of the model, or a stutter.
LEMMA RaftStepIsModelStep ==
  KInv /\ [RaftNext]_<<linearVars, raftVars>> => [Model!Next]_(Model!vars)
<1> SUFFICES ASSUME KInv, [RaftNext]_<<linearVars, raftVars>>
             PROVE  Model!Next \/ UNCHANGED Model!vars
  BY Zenon
<1>1. ASSUME UNCHANGED linearVars PROVE UNCHANGED Model!vars
  BY Zenon, <1>1, ModelStutters DEF linearVars, vars, clerkVars, historyVars, Pending
<1>2. ASSUME NEW n \in 1..MaxRPC, Submit(n) PROVE UNCHANGED Model!vars
  BY Zenon, <1>1, <1>2, SubmitInv
<1>3. ASSUME NEW n \in 1..MaxRPC, DoOp(n) PROVE Model!Next \/ UNCHANGED Model!vars
  BY Zenon, <1>3, DoOpIsApply
<1>4. ASSUME NEW c \in Client, NEW args \in GetArgs \cup PutArgs, InvokeRaft(c, args)
      PROVE  Model!Next
  BY Zenon, <1>4, InvokeIsCall DEF InvokeRaft, KInv, Model!Next
<1>5. ASSUME NEW c \in Client, Answered(c) PROVE UNCHANGED Model!vars
  <2>1. /\ call[c] = "request" /\ call' = [call EXCEPT ![c] = "reply"]
        /\ store' = store /\ op' = op /\ result' = result /\ seen' = seen /\ applied' = applied
    BY Zenon, <1>5, AnsweredAssigns
  <2>2. \A d \in Client : Pending(d)' <=> Pending(d)
    BY Zenon, <2>1 DEF Pending, KInv, BaseInv, TypeInv
  <2>3. QED
    BY Zenon, <2>1, <2>2, ModelStutters
<1>6. ASSUME NEW c \in Client, RetryRaft(c) PROVE UNCHANGED Model!vars
  <2>1. /\ call[c] \in {"request", "reply"} /\ call' = [call EXCEPT ![c] = "request"]
        /\ store' = store /\ op' = op /\ result' = result /\ seen' = seen /\ applied' = applied
    BY Zenon, <1>6 DEF RetryRaft, Retry, historyVars
  <2>2. \A d \in Client : Pending(d)' <=> Pending(d)
    BY Zenon, <2>1 DEF Pending, KInv, BaseInv, TypeInv
  <2>3. QED
    BY Zenon, <2>1, <2>2, ModelStutters
<1>7. ASSUME NEW c \in Client, ReturnRaft(c) PROVE Model!Next
  BY Zenon, <1>7, ReturnIsReturn DEF ReturnRaft, KInv, Model!Next
<1>8. QED
  BY Zenon, <1>1, <1>2, <1>3, <1>4, <1>5, <1>6, <1>7 DEF RaftNext

\* kvraft1's Get and Put are linearizable, whatever the network drops, however often the
\* clerks change servers, and though the handlers of RPCs that a clerk has given up go on:
\* every history of the replicated service is one of the sequential model.
THEOREM KvraftLinearizable == RaftSpec => Linearizable
BY RaftInvariant, ModelInit, RaftStepIsModelStep, PTL DEF RaftSpec, Linearizable, Model!Spec

-----------------------------------------------------------------------------
(* The lock: what a client knows *)

\* The version of the key in a map, 0 if it does not have it, and whom the key names.
VerOf(s) == IF l \in DOMAIN s THEN s[l].ver ELSE 0
HolderOf(s) == IF l \in DOMAIN s THEN s[l].val ELSE Empty

Getting == {"acquire:get", "acquire:check", "release:get"}

IsLockStore(s) ==
  /\ IsStore(s) /\ DOMAIN s \subseteq {l}
  /\ l \in DOMAIN s => s[l].ver > 0

\* What Get returned of the key: it still holds if the version does, and what it says about
\* c itself holds in any case.
Tells(c, r) ==
  /\ r.err \in {"OK", "ErrNoKey"}
  /\ r.err = "ErrNoKey" => r.value = Empty /\ r.version = 0
  /\ r.version <= VerOf(store)
  /\ r.version = VerOf(store) => HolderOf(store) = r.value
  /\ r.value = c <=> HolderOf(store) = c

\* The operation under way is the one of the place where the client is.
Operation(c) ==
  /\ call[c] = "none" => first[c]
  /\ pc[c] \in {"outside", "held"} => call[c] = "none"
  /\ call[c] # "none" /\ pc[c] \in Getting => op[c] = GetLock
  /\ call[c] # "none" /\ pc[c] = "acquire:put" =>
       /\ op[c].version \in Nat /\ op[c] = PutLock(c, op[c].version)
       /\ op[c].version <= VerOf(store)
       /\ op[c].version = VerOf(store) => HolderOf(store) = Empty
  /\ call[c] # "none" /\ pc[c] = "release:put" =>
       /\ op[c].version \in Nat /\ op[c] = PutLock(Empty, op[c].version)
       /\ op[c].version <= VerOf(store)
       /\ op[c].version = VerOf(store) => HolderOf(store) = c

\* A Get's answer tells the client where it stands.
Read(c) ==
  pc[c] \in Getting =>
    /\ call[c] = "reply" => Tells(c, reply[c])
    /\ call[c] = "none" => Tells(c, result[c])

\* A Put's answer tells it too, except ErrMaybe and answers to a repeated Put.
Wrote(c) ==
  /\ pc[c] = "acquire:put" =>
       /\ call[c] = "request" /\ first[c] => HolderOf(store) # c
       /\ call[c] = "reply" =>
            /\ reply[c].err = "OK" => HolderOf(store) = c
            /\ reply[c].err # "OK" => reply[c].err = "ErrVersion"
            /\ reply[c].err # "OK" /\ first[c] => HolderOf(store) # c
       /\ call[c] = "none" =>
            /\ result[c].err = "OK" => HolderOf(store) = c
            /\ result[c].err \notin {"OK", "ErrMaybe"} => HolderOf(store) # c
  /\ pc[c] = "release:put" =>
       /\ call[c] = "reply" /\ reply[c].err = "OK" => HolderOf(store) # c
       /\ call[c] = "none" /\ result[c].err = "OK" => HolderOf(store) # c

Stands(c) ==
  /\ pc[c] = "held" => HolderOf(store) = c
  /\ pc[c] \in {"outside", "acquire:get"} => HolderOf(store) # c

Knows(c) == Operation(c) /\ Read(c) /\ Wrote(c) /\ Stands(c)

\* The inductive invariant.
IInv == LockTypeOK /\ IsLockStore(store) /\ \A c \in Client : Knows(c)

-----------------------------------------------------------------------------
(* The two operations on the key *)

\* Get answers with what the key holds and leaves the map alone.
LEMMA GetServed ==
  ASSUME NEW s, IsLockStore(s)
  PROVE  LET r == Answer(s, GetLock)
         IN  /\ Execute(s, GetLock) = s
             /\ r \in Replies
             /\ r.err \in {"OK", "ErrNoKey"}
             /\ r.err = "ErrNoKey" => r.value = Empty /\ r.version = 0
             /\ r.version = VerOf(s) /\ r.value = HolderOf(s)
BY Zenon, EmptyAssumption
   DEF IsLockStore, IsStore, valueVersion, Answer, Execute, GetLock, Get, Reply, Replies,
       VerOf, HolderOf

\* A Put whose version is not in the key's future makes the next version if its version is
\* the current one, and else is refused with ErrVersion.
LEMMA PutServed ==
  ASSUME NEW s, IsLockStore(s), NEW v \in Client \cup {Empty}, NEW n \in Nat,
         n <= VerOf(s)
  PROVE  LET r == Answer(s, PutLock(v, n))
             t == Execute(s, PutLock(v, n))
         IN  /\ IsLockStore(t)
             /\ r \in Replies
             /\ n = VerOf(s) =>
                  r.err = "OK" /\ VerOf(t) = VerOf(s) + 1 /\ HolderOf(t) = v
             /\ n # VerOf(s) => r.err = "ErrVersion" /\ t = s
<1> DEFINE p == PutLock(v, n)
<1>1. p.op = "Put" /\ p.key = l /\ p.value = v /\ p.version = n
  BY Zenon DEF PutLock
<1>2. Answer(s, p) = Reply(PutErr(s, p), Empty, 0) /\ Execute(s, p) = Put(s, p)
  BY Zenon, <1>1 DEF Answer, Execute
<1>3. n = VerOf(s) => PutErr(s, p) = "OK"
  BY Zenon, <1>1 DEF PutErr, VerOf, IsLockStore
<1>4. n # VerOf(s) => PutErr(s, p) = "ErrVersion"
  BY <1>1 DEF PutErr, VerOf, IsLockStore
<1>5. v \in Value /\ l \in Key
  BY Zenon, EmptyAssumption, LockAssumption
<1>6. ASSUME n = VerOf(s)
      PROVE  /\ IsLockStore(Put(s, p))
             /\ VerOf(Put(s, p)) = VerOf(s) + 1 /\ HolderOf(Put(s, p)) = v
  <2> DEFINE item == [val |-> v, ver |-> IF l \in DOMAIN s THEN s[l].ver + 1 ELSE 1]
  <2>1. Put(s, p) = [x \in DOMAIN s \cup {l} |-> IF x = l THEN item ELSE s[x]]
    BY Zenon, <1>1, <1>3, <1>6 DEF Put, With
  <2>2. DOMAIN s \cup {l} = {l}
    BY Zenon DEF IsLockStore
  <2>3. Put(s, p) = [x \in {l} |-> item]
    BY Zenon, <2>1, <2>2
  <2>4. item.val = v /\ item.ver = VerOf(s) + 1 /\ item.ver > 0 /\ item \in valueVersion
    BY <1>5 DEF VerOf, IsLockStore, IsStore, valueVersion
  <2> HIDE DEF item
  <2>5. QED
    BY Zenon, <2>3, <2>4, <1>5 DEF IsLockStore, IsStore, VerOf, HolderOf
<1>7. n # VerOf(s) => Put(s, p) = s
  BY Zenon, <1>4 DEF Put
<1>8. Reply(PutErr(s, p), Empty, 0) \in Replies /\ Reply(PutErr(s, p), Empty, 0).err = PutErr(s, p)
  BY Zenon, <1>3, <1>4, EmptyAssumption DEF Reply, Replies
<1>9. QED
  BY Zenon, <1>2, <1>3, <1>4, <1>6, <1>7, <1>8

-----------------------------------------------------------------------------
(* A client whose variables stay as they are *)

Untouched(c) ==
  /\ pc'[c] = pc[c] /\ call'[c] = call[c] /\ op'[c] = op[c] /\ first'[c] = first[c]
  /\ reply'[c] = reply[c] /\ result'[c] = result[c]

\* It knows what it knew, when the key did not change from or to naming it.
LEMMA Steady ==
  ASSUME NEW c \in Client, Knows(c), Untouched(c), LockTypeOK,
         VerOf(store) \in Nat, VerOf(store') \in Nat,
         VerOf(store) <= VerOf(store'),
         VerOf(store') = VerOf(store) => HolderOf(store') = HolderOf(store),
         HolderOf(store) = c <=> HolderOf(store') = c
  PROVE  Knows(c)'
<1>1. reply[c].version \in Nat /\ result[c].version \in Nat
  BY Zenon DEF LockTypeOK, Replies
<1>2. Operation(c)'
  BY DEF Knows, Operation, Untouched, PutLock, GetLock, Getting
<1>3. Read(c)'
  BY <1>1 DEF Knows, Read, Tells, Untouched, Getting
<1>4. Wrote(c)' /\ Stands(c)'
  BY Zenon DEF Knows, Wrote, Stands, Untouched
<1>5. QED
  BY Zenon, <1>2, <1>3, <1>4 DEF Knows

-----------------------------------------------------------------------------
(* The steps of a client between two operations of its clerk *)

Places == {"outside", "acquire:get", "acquire:put", "acquire:check", "held",
           "release:get", "release:put"}
LockPuts == [op : {"Put"}, key : {l}, value : Client \cup {Empty}, version : Nat]

\* The version of the lock in a store.
LEMMA VersionIsNat ==
  ASSUME NEW s, IsLockStore(s)
  PROVE  VerOf(s) \in Nat
BY Zenon DEF IsLockStore, IsStore, valueVersion, VerOf

\* A step of d that leaves the map alone.
LEMMA LeavesStore ==
  ASSUME IInv, NEW d \in Client, store' = store, LockTypeOK', Knows(d)',
         \A c \in Client \ {d} : Untouched(c)
  PROVE  IInv'
<1>1. ASSUME NEW c \in Client \ {d} PROVE Knows(c)'
  <2>1. VerOf(store) \in Nat
    BY Zenon, VersionIsNat DEF IInv
  <2>2. QED
    BY <2>1, <1>1, Steady DEF IInv
<1>2. QED
  BY Zenon, <1>1 DEF IInv, IsLockStore

\* An operation begins.
LEMMA Operated ==
  ASSUME LockTypeOK, NEW d \in Client, NEW args \in {GetLock} \cup LockPuts,
         NEW where \in Places, Invoke(d, args), pc' = [pc EXCEPT ![d] = where],
         turns' \in [Client -> 0..Turns]
  PROVE  /\ LockTypeOK' /\ store' = store
         /\ \A c \in Client \ {d} : Untouched(c)
         /\ pc'[d] = where /\ call'[d] = "request" /\ op'[d] = args
         /\ first'[d] = first[d]
BY Zenon DEF LockTypeOK, Invoke, Untouched, Places, LockPuts, GetLock

\* Acquire or Release returns.
LEMMA Finished ==
  ASSUME LockTypeOK, NEW d \in Client, NEW where \in Places, Finish(d, where)
  PROVE  /\ LockTypeOK' /\ store' = store
         /\ \A c \in Client \ {d} : Untouched(c)
         /\ pc'[d] = where /\ call'[d] = call[d] /\ first'[d] = first[d]
         /\ result'[d] = result[d]
BY Zenon DEF LockTypeOK, Finish, Goto, Untouched, Places, vars, clerkVars, GetLock, NoOp

\* The client asks for the key, when it stands where it says.
LEMMA Gets ==
  ASSUME IInv, NEW d \in Client, NEW where \in Getting, call[d] = "none",
         Invoke(d, GetLock), pc' = [pc EXCEPT ![d] = where], turns' \in [Client -> 0..Turns],
         where = "acquire:get" => HolderOf(store) # d
  PROVE  IInv'
<1>1. /\ LockTypeOK' /\ store' = store
      /\ \A c \in Client \ {d} : Untouched(c)
      /\ pc'[d] = where /\ call'[d] = "request" /\ op'[d] = GetLock
  BY Zenon, Operated DEF IInv, Getting, Places
<1>2. Knows(d)'
  BY Zenon, <1>1 DEF Knows, Operation, Read, Wrote, Stands, Getting, GetLock
<1>3. QED
  BY Zenon, <1>1, <1>2, LeavesStore

\* The client puts, on the ground of what it has read.
LEMMA Writes ==
  ASSUME IInv, NEW d \in Client, call[d] = "none", NEW n \in Nat, NEW v, NEW where,
         (where = "acquire:put" /\ v = d) \/ (where = "release:put" /\ v = Empty),
         Operate(d, PutLock(v, n), where),
         n <= VerOf(store),
         where = "acquire:put" =>
           HolderOf(store) # d /\ (n = VerOf(store) => HolderOf(store) = Empty),
         where = "release:put" => (n = VerOf(store) => HolderOf(store) = d)
  PROVE  IInv'
<1>1. (where = "acquire:put" /\ v = d) \/ (where = "release:put" /\ v = Empty)
  BY Zenon
<1>2. PutLock(v, n) \in LockPuts
  BY Zenon, <1>1 DEF PutLock, LockPuts
<1>3. PutLock(v, n).version = n
  BY Zenon DEF PutLock
<1>4. /\ LockTypeOK' /\ store' = store
      /\ \A c \in Client \ {d} : Untouched(c)
      /\ pc'[d] = where /\ call'[d] = "request" /\ op'[d] = PutLock(v, n)
  <2>1. turns' \in [Client -> 0..Turns]
    BY Zenon DEF Operate, Goto, IInv, LockTypeOK
  <2>2. where \in Places
    BY Zenon, <1>1 DEF Places
  <2>3. QED
    BY Zenon, <1>2, <2>1, <2>2, Operated DEF Operate, Goto, IInv
<1>5. Operation(d)'
  BY Zenon, <1>1, <1>3, <1>4 DEF Operation, PutLock, Getting
<1>6. Read(d)' /\ Wrote(d)' /\ Stands(d)'
  BY Zenon, <1>1, <1>4 DEF Read, Wrote, Stands, Getting
<1>7. QED
  BY Zenon, <1>4, <1>5, <1>6, LeavesStore DEF Knows

\* The client leaves Acquire with the lock, or Release without it.
LEMMA Leaves ==
  ASSUME IInv, NEW d \in Client, call[d] = "none",
         NEW where \in {"held", "outside"}, Finish(d, where),
         HolderOf(store) = d <=> where = "held"
  PROVE  IInv'
<1>1. /\ LockTypeOK' /\ store' = store
      /\ \A c \in Client \ {d} : Untouched(c)
      /\ pc'[d] = where /\ call'[d] = call[d] /\ first'[d] = first[d]
  BY Zenon, Finished DEF IInv, Places
<1>2. first[d]
  BY Zenon DEF IInv, Knows, Operation
<1>3. Knows(d)'
  BY Zenon, <1>1, <1>2 DEF Knows, Operation, Read, Wrote, Stands, Getting
<1>4. QED
  BY Zenon, <1>1, <1>3, LeavesStore

\* Acquire begins, or has read the lock.
LEMMA AcquireInv ==
  ASSUME IInv, NEW d \in Client, Acquire(d) \/ AcquireGot(d)
  PROVE  IInv'
<1> USE DEF At
<1>1. CASE Acquire(d)
  <2>1. turns' \in [Client -> 0..Turns]
    BY <1>1, LockAssumption DEF Acquire, IInv, LockTypeOK
  <2>2. HolderOf(store) # d
    BY Zenon, <1>1 DEF Acquire, IInv, Knows, Stands
  <2>3. QED
    BY Zenon, <1>1, <2>1, <2>2, Gets DEF Acquire, Getting
<1>2. CASE AcquireGot(d)
  <2>1. /\ Tells(d, result[d]) /\ HolderOf(store) # d /\ call[d] = "none"
        /\ result[d].version \in Nat
    BY Zenon, <1>2 DEF AcquireGot, IInv, Knows, Read, Stands, Getting, LockTypeOK
  <2>2. CASE result[d].err = "ErrNoKey" /\ Operate(d, PutLock(d, 0), "acquire:put")
    BY Zenon, <2>1, <2>2, Writes DEF Tells
  <2>3. CASE /\ result[d].err = "OK" /\ result[d].value = Empty
             /\ Operate(d, PutLock(d, result[d].version), "acquire:put")
    BY Zenon, <2>1, <2>3, Writes DEF Tells
  <2>4. CASE Operate(d, GetLock, "acquire:get")
    BY Zenon, <2>1, <2>4, Gets DEF Operate, Goto, Getting, IInv, LockTypeOK
  <2>5. QED
    BY Zenon, <1>2, <2>2, <2>3, <2>4 DEF AcquireGot
<1>3. QED
  BY Zenon, <1>1, <1>2

\* Acquire learns whether its Put took the lock.
LEMMA AcquireDecides ==
  ASSUME IInv, NEW d \in Client, AcquirePut(d) \/ AcquireChecked(d)
  PROVE  IInv'
<1> USE DEF At
<1>0. turns \in [Client -> 0..Turns]
  BY Zenon DEF IInv, LockTypeOK
<1>1. CASE AcquirePut(d)
  <2>1. pc[d] = "acquire:put" /\ call[d] = "none" /\ Wrote(d)
    BY Zenon, <1>1 DEF AcquirePut, IInv, Knows
  <2>2. CASE result[d].err = "OK" /\ Finish(d, "held")
    BY Zenon, <2>1, <2>2, Leaves DEF Wrote
  <2>3. CASE result[d].err = "ErrMaybe" /\ Operate(d, GetLock, "acquire:check")
    BY Zenon, <1>0, <2>1, <2>3, Gets DEF Operate, Goto, Getting
  <2>4. CASE result[d].err \notin {"OK", "ErrMaybe"} /\ Operate(d, GetLock, "acquire:get")
    BY Zenon, <1>0, <2>1, <2>4, Gets DEF Operate, Goto, Getting, Wrote
  <2>5. QED
    BY Zenon, <1>1, <2>2, <2>3, <2>4 DEF AcquirePut
<1>2. CASE AcquireChecked(d)
  <2>1. call[d] = "none" /\ Tells(d, result[d])
    BY Zenon, <1>2 DEF AcquireChecked, IInv, Knows, Read, Getting
  <2>2. Mine(d) <=> HolderOf(store) = d
    BY Zenon, <2>1, LockAssumption DEF Tells, Mine
  <2>3. CASE Mine(d) /\ Finish(d, "held")
    BY Zenon, <2>1, <2>2, <2>3, Leaves
  <2>4. CASE ~Mine(d) /\ Operate(d, GetLock, "acquire:get")
    BY Zenon, <1>0, <2>1, <2>2, <2>4, Gets DEF Operate, Goto, Getting
  <2>5. QED
    BY Zenon, <1>2, <2>3, <2>4 DEF AcquireChecked
<1>3. QED
  BY Zenon, <1>1, <1>2

\* Release reads the lock and writes it free.
LEMMA ReleaseInv ==
  ASSUME IInv, NEW d \in Client, Release(d) \/ ReleaseGot(d) \/ ReleasePut(d)
  PROVE  IInv'
<1> USE DEF At
<1>0. turns \in [Client -> 0..Turns]
  BY Zenon DEF IInv, LockTypeOK
<1>1. CASE Release(d)
  BY Zenon, <1>0, <1>1, Gets DEF Release, Operate, Goto, Getting
<1>2. CASE ReleaseGot(d)
  <2>1. call[d] = "none" /\ Tells(d, result[d]) /\ result[d].version \in Nat
    BY Zenon, <1>2 DEF ReleaseGot, IInv, Knows, Read, Getting, LockTypeOK
  <2>2. Mine(d) <=> HolderOf(store) = d
    BY Zenon, <2>1, LockAssumption DEF Tells, Mine
  <2>3. CASE Mine(d) /\ Operate(d, PutLock(Empty, result[d].version), "release:put")
    BY Zenon, <2>1, <2>2, <2>3, Writes DEF Tells
  <2>4. CASE ~Mine(d) /\ Finish(d, "outside")
    BY Zenon, <2>1, <2>2, <2>4, Leaves
  <2>5. QED
    BY Zenon, <1>2, <2>3, <2>4 DEF ReleaseGot
<1>3. CASE ReleasePut(d)
  <2>1. pc[d] = "release:put" /\ call[d] = "none" /\ Wrote(d)
    BY Zenon, <1>3 DEF ReleasePut, IInv, Knows
  <2>2. CASE result[d].err = "OK" /\ Finish(d, "outside")
    BY Zenon, <2>1, <2>2, Leaves DEF Wrote
  <2>3. CASE Operate(d, GetLock, "release:get")
    BY Zenon, <1>0, <2>1, <2>3, Gets DEF Operate, Goto, Getting
  <2>4. QED
    BY Zenon, <1>3, <2>2, <2>3 DEF ReleasePut
<1>4. QED
  BY Zenon, <1>1, <1>2, <1>3

-----------------------------------------------------------------------------
(* The steps of the clerk *)

\* The handler of a Get.
LEMMA ServesGet ==
  ASSUME IInv, NEW d \in Client, pc[d] \in Getting, Serve(d), UNCHANGED lockVars
  PROVE  IInv'
<1>1. op[d] = GetLock /\ call[d] = "request" /\ IsLockStore(store)
  BY Zenon DEF IInv, Knows, Operation, Serve
<1> DEFINE r == Answer(store, GetLock)
<1>2. /\ store' = store /\ r \in Replies
      /\ r.err \in {"OK", "ErrNoKey"}
      /\ r.err = "ErrNoKey" => r.value = Empty /\ r.version = 0
      /\ r.version = VerOf(store) /\ r.value = HolderOf(store)
  BY Zenon, <1>1, GetServed DEF Serve
<1>3. /\ pc' = pc /\ op' = op /\ first' = first /\ result' = result /\ turns' = turns
      /\ call' = [call EXCEPT ![d] = "reply"] /\ reply' = [reply EXCEPT ![d] = r]
  BY Zenon, <1>1 DEF Serve, lockVars
<1> HIDE DEF r
<1>4. LockTypeOK'
  BY Zenon, <1>2, <1>3 DEF IInv, LockTypeOK, GetLock, NoOp
<1>5. \A c \in Client \ {d} : Untouched(c)
  BY Zenon, <1>3 DEF Untouched, IInv, LockTypeOK
<1>6. call'[d] = "reply" /\ reply'[d] = r
  BY Zenon, <1>3 DEF IInv, LockTypeOK
<1>7. Tells(d, r)
  <2>1. VerOf(store) \in Nat
    BY Zenon, <1>1, VersionIsNat
  <2>2. QED
    BY <1>2, <2>1 DEF Tells
<1>8. Knows(d)'
  <2>1. Operation(d)' /\ Wrote(d)' /\ Stands(d)'
    BY Zenon, <1>1, <1>2, <1>3, <1>6 DEF IInv, Knows, Operation, Wrote, Stands, Getting, GetLock
  <2>2. Tells(d, reply[d])'
    BY Zenon, <1>2, <1>6, <1>7 DEF Tells
  <2>3. QED
    BY Zenon, <1>6, <2>1, <2>2 DEF Knows, Read
<1>9. QED
  BY Zenon, <1>2, <1>4, <1>5, <1>8, LeavesStore

\* The handler of a Put: the key goes from free to the client or back, or stays.
LEMMA ServesPut ==
  ASSUME IInv, NEW d \in Client, pc[d] \notin Getting, Serve(d), UNCHANGED lockVars
  PROVE  IInv'
<1> DEFINE n == op[d].version
           v == IF pc[d] = "acquire:put" THEN d ELSE Empty
           r == Answer(store, PutLock(v, n))
<1>1. call[d] = "request" /\ pc[d] \in {"acquire:put", "release:put"}
  BY Zenon DEF IInv, Knows, Operation, Serve, LockTypeOK, Getting
<1>2. /\ n \in Nat /\ op[d] = PutLock(v, n) /\ n <= VerOf(store)
      /\ n = VerOf(store) => HolderOf(store) = (IF pc[d] = "acquire:put" THEN Empty ELSE d)
  BY Zenon, <1>1 DEF IInv, Knows, Operation
<1>3. /\ pc' = pc /\ op' = op /\ first' = first /\ result' = result /\ turns' = turns
      /\ call' = [call EXCEPT ![d] = "reply"] /\ reply' = [reply EXCEPT ![d] = r]
      /\ store' = Execute(store, PutLock(v, n))
  BY Zenon, <1>2 DEF Serve, lockVars
<1>4. /\ IsLockStore(store') /\ r \in Replies
      /\ n = VerOf(store) =>
           r.err = "OK" /\ VerOf(store') = VerOf(store) + 1 /\ HolderOf(store') = v
      /\ n # VerOf(store) => r.err = "ErrVersion" /\ store' = store
  <2>1. v \in Client \cup {Empty} /\ IsLockStore(store)
    BY Zenon DEF IInv
  <2> HIDE DEF v, n
  <2>2. QED
    BY <1>2, <1>3, <2>1, PutServed
<1>5. LockTypeOK'
  BY Zenon, <1>3, <1>4 DEF IInv, LockTypeOK, IsLockStore, GetLock, NoOp
<1>6. call'[d] = "reply" /\ reply'[d] = r
  BY Zenon, <1>3 DEF IInv, LockTypeOK
<1>7. VerOf(store) \in Nat /\ VerOf(store') \in Nat
  BY Zenon, <1>4, VersionIsNat DEF IInv
<1>8. ASSUME NEW c \in Client \ {d} PROVE Knows(c)'
  <2>1. Untouched(c)
    BY Zenon, <1>3, <1>8 DEF Untouched, IInv, LockTypeOK
  <2>2. HolderOf(store) = c <=> HolderOf(store') = c
    BY <1>2, <1>4, <1>8, LockAssumption
  <2>3. VerOf(store) <= VerOf(store')
    BY <1>4, <1>7
  <2>4. VerOf(store') = VerOf(store) => HolderOf(store') = HolderOf(store)
    BY <1>4, <1>7
  <2>5. QED
    BY Zenon, <1>7, <2>1, <2>2, <2>3, <2>4, Steady DEF IInv
<1>9. Knows(d)'
  <2>1. d # Empty
    BY LockAssumption, SMTT(30)
  <2>2. Operation(d)'
    <3>1. n < VerOf(store')
      BY <1>2, <1>4, <1>7
    <3>2. pc'[d] = pc[d] /\ op'[d] = op[d]
      BY Zenon, <1>3
    <3>3. pc[d] = "acquire:put" => op[d] = PutLock(d, op[d].version)
      BY Zenon, <1>2
    <3>4. pc[d] = "release:put" => op[d] = PutLock(Empty, op[d].version)
      BY Zenon, <1>2
    <3>5. op[d].version \in Nat
      BY Zenon, <1>2
    <3>6. QED
      BY <1>1, <1>6, <1>7, <3>1, <3>2, <3>3, <3>4, <3>5, SMTT(30) DEF Operation, Getting
  <2>3. Read(d)' /\ Stands(d)'
    BY <1>1, <1>3, SMTT(30) DEF Read, Stands, Getting
  <2>4. Wrote(d)'
    BY Zenon, <1>1, <1>2, <1>3, <1>4, <1>6, <2>1 DEF IInv, Knows, Wrote
  <2>5. QED
    BY Zenon, <2>2, <2>3, <2>4 DEF Knows
<1>10. QED
  BY Zenon, <1>4, <1>5, <1>8, <1>9 DEF IInv

\* A repeated call does not know whether it is the first that is served.
LEMMA LockRetryInv ==
  ASSUME IInv, NEW d \in Client, Retry(d), UNCHANGED lockVars
  PROVE  IInv'
<1>1. /\ pc' = pc /\ op' = op /\ result' = result /\ turns' = turns /\ store' = store
      /\ call' = [call EXCEPT ![d] = "request"] /\ reply' = [reply EXCEPT ![d] = NoReply]
      /\ first' = [first EXCEPT ![d] = FALSE]
      /\ call[d] \in {"request", "reply"}
  BY Zenon DEF Retry, lockVars
<1>2. NoReply \in Replies
  BY Zenon, EmptyAssumption DEF NoReply, Reply, Replies
<1>3. LockTypeOK'
  BY Zenon, <1>1, <1>2 DEF IInv, LockTypeOK, GetLock, NoOp
<1>4. \A c \in Client \ {d} : Untouched(c)
  BY Zenon, <1>1 DEF Untouched, IInv, LockTypeOK
<1>5. call'[d] = "request" /\ ~first'[d]
  BY Zenon, <1>1 DEF IInv, LockTypeOK
<1>6. Knows(d)'
  <2>1. /\ pc'[d] = pc[d] /\ op'[d] = op[d] /\ result'[d] = result[d] /\ store' = store
        /\ call[d] \in {"request", "reply"}
    BY Zenon, <1>1
  <2>2. Operation(d) /\ Wrote(d) /\ Stands(d)
    BY Zenon DEF IInv, Knows
  <2>3. Operation(d)'
    BY Zenon, <1>5, <2>1, <2>2 DEF Operation, GetLock
  <2>4. Read(d)'
    BY Zenon, <1>5 DEF Read
  <2>5. Wrote(d)' /\ Stands(d)'
    BY Zenon, <1>5, <2>1, <2>2 DEF Wrote, Stands
  <2>6. QED
    BY Zenon, <2>3, <2>4, <2>5 DEF Knows
<1>7. QED
  BY Zenon, <1>1, <1>3, <1>4, <1>6, LeavesStore

\* The clerk passes on what it was answered, and ErrMaybe for what it cannot know.
LEMMA LockReturnInv ==
  ASSUME IInv, NEW d \in Client, Return(d), UNCHANGED lockVars
  PROVE  IInv'
<1> DEFINE r == [reply[d] EXCEPT !.err = ClerkErr(d)]
<1>1. /\ pc' = pc /\ turns' = turns /\ store' = store /\ call[d] = "reply"
      /\ call' = [call EXCEPT ![d] = "none"] /\ reply' = [reply EXCEPT ![d] = NoReply]
      /\ first' = [first EXCEPT ![d] = TRUE] /\ op' = [op EXCEPT ![d] = NoOp]
      /\ result' = [result EXCEPT ![d] = r]
  BY Zenon DEF Return, lockVars
<1>2. NoReply \in Replies
  BY Zenon, EmptyAssumption DEF NoReply, Reply, Replies
<1>3. /\ reply[d] \in Replies /\ ClerkErr(d) \in Err
      /\ r \in [err : Err, value : Value, version : Nat]
      /\ r.err = ClerkErr(d) /\ r.value = reply[d].value /\ r.version = reply[d].version
  BY DEF IInv, LockTypeOK, Replies, ClerkErr, Err
<1> HIDE DEF r
<1>4. LockTypeOK'
  BY Zenon, <1>1, <1>2, <1>3 DEF IInv, LockTypeOK, GetLock, NoOp
<1>5. \A c \in Client \ {d} : Untouched(c)
  BY Zenon, <1>1 DEF Untouched, IInv, LockTypeOK
<1>6. call'[d] = "none" /\ first'[d] /\ result'[d] = r /\ pc'[d] = pc[d]
  BY <1>1, SMTT(30) DEF IInv, LockTypeOK
<1>7. Operation(d)' /\ Stands(d)'
  BY Zenon, <1>1, <1>6 DEF IInv, Knows, Operation, Stands
<1>8. Read(d)'
  <2>1. SUFFICES ASSUME pc[d] \in Getting PROVE Tells(d, r)
    BY Zenon, <1>1, <1>6 DEF Read, Tells
  <2>2. op[d] = GetLock /\ Tells(d, reply[d])
    BY Zenon, <1>1, <2>1 DEF IInv, Knows, Operation, Read
  <2>3. ClerkErr(d) = reply[d].err
    BY <2>2, SMTT(30) DEF ClerkErr, GetLock
  <2>4. QED
    BY Zenon, <1>3, <2>2, <2>3 DEF Tells
<1>9. Wrote(d)'
  <2>1. CASE pc[d] = "acquire:put"
    <3>1. op[d].op = "Put"
      <4>1. PICK n : op[d] = PutLock(d, n)
        BY Zenon, <1>1, <2>1 DEF IInv, Knows, Operation
      <4>2. QED
        BY <4>1 DEF PutLock
    <3>2. Wrote(d)
      BY Zenon DEF IInv, Knows
    <3>3. QED
      BY Zenon, <1>1, <1>3, <1>6, <2>1, <3>1, <3>2 DEF Wrote, ClerkErr
  <2>2. CASE pc[d] = "release:put"
    <3>1. Wrote(d)
      BY Zenon DEF IInv, Knows
    <3>2. QED
      BY Zenon, <1>1, <1>3, <1>6, <2>2, <3>1 DEF Wrote, ClerkErr
  <2>3. QED
    BY Zenon, <1>6, <2>1, <2>2 DEF Wrote
<1>10. QED
  BY Zenon, <1>1, <1>4, <1>5, <1>7, <1>8, <1>9, LeavesStore DEF Knows

-----------------------------------------------------------------------------
(* Every step of the lock *)

\* The invariant holds at the start.
LEMMA LockInitInv ==
  LockInit => IInv
<1> SUFFICES ASSUME LockInit PROVE IInv
  BY Zenon
<1>1. store = NoKeys /\ DOMAIN store = {} /\ IsStore(store)
  BY Zenon DEF LockInit, Init, NoKeys, IsStore
<1>2. NoReply \in Replies /\ NoReply \in [err : Err, value : Value, version : Nat]
  BY Zenon, EmptyAssumption DEF NoReply, Reply, Replies, Err
<1>3. LockTypeOK
  BY <1>1, <1>2, LockAssumption DEF LockInit, Init, LockTypeOK, NoOp
<1>4. ASSUME NEW c \in Client PROVE Knows(c)
  <2>1. HolderOf(store) = Empty /\ c # Empty
    BY Zenon, <1>1, LockAssumption DEF HolderOf
  <2>2. pc[c] = "outside" /\ call[c] = "none" /\ first[c]
    BY Zenon DEF LockInit, Init
  <2>3. QED
    BY Zenon, <2>1, <2>2 DEF Knows, Operation, Read, Wrote, Stands, Getting
<1>5. QED
  BY Zenon, <1>1, <1>3, <1>4 DEF IInv, IsLockStore

\* Every step keeps it.
LEMMA LockNextInv ==
  IInv /\ [LockNext]_allVars => IInv'
<1> SUFFICES ASSUME IInv, [LockNext]_allVars PROVE IInv'
  BY Zenon
<1>1. CASE UNCHANGED allVars
  <2>1. /\ pc' = pc /\ turns' = turns /\ store' = store
        /\ op' = op /\ call' = call /\ reply' = reply /\ first' = first /\ result' = result
    BY Zenon, <1>1 DEF allVars, vars, clerkVars, lockVars
  <2>2. LockTypeOK'
    BY Zenon, <2>1 DEF IInv, LockTypeOK, IsLockStore, GetLock, NoOp
  <2>3. ASSUME NEW c \in Client PROVE Knows(c)'
    <3>1. Untouched(c)
      BY Zenon, <2>1 DEF Untouched
    <3>2. VerOf(store) \in Nat
      BY Zenon, VersionIsNat DEF IInv
    <3>3. QED
      BY <2>1, <3>1, <3>2, Steady DEF IInv
  <2>4. QED
    BY Zenon, <2>1, <2>2, <2>3 DEF IInv, IsLockStore
<1>2. CASE LockNext
  <2>1. PICK d \in Client : LockStep(d) \/ ClerkStep(d)
    BY Zenon, <1>2 DEF LockNext
  <2>2. CASE LockStep(d)
    BY Zenon, <2>2, AcquireInv, AcquireDecides, ReleaseInv DEF LockStep
  <2>3. CASE ClerkStep(d)
    BY Zenon, <2>3, ServesGet, ServesPut, LockRetryInv, LockReturnInv DEF ClerkStep
  <2>4. QED
    BY Zenon, <2>1, <2>2, <2>3
<1>3. QED
  BY Zenon, <1>1, <1>2

\* The invariant of the lock clients (lock.go, Acquire and Release) and the server.
THEOREM LockInv == LockSpec => []IInv
BY LockInitInv, LockNextInv, PTL DEF LockSpec

\* While a client is between Acquire and Release, the key names it: a Put of another client,
\* however late or often repeated, does not take the lock from it.
THEOREM HolderKeepsLock == LockSpec => []HeldIsNamed
<1>1. IInv => HeldIsNamed
  BY Zenon DEF IInv, Knows, Stands, HeldIsNamed, Holder, HolderOf
<1>2. QED
  BY <1>1, LockInv, PTL

\* No two clients are between Acquire and Release of the lock at once, whatever ErrMaybe
\* they were told.
THEOREM OneHolder == LockSpec => []MutualExclusion
<1>1. IInv => MutualExclusion
  BY Zenon DEF IInv, Knows, Stands, MutualExclusion
<1>2. QED
  BY <1>1, LockInv, PTL

\* A client that is not in Acquire's Put, holding the lock or in Release is not named by the
\* key: nobody waits for a lock that a client has left behind.
THEOREM NobodyLeavesLock == LockSpec => []LockNotOrphaned
<1>1. IInv => LockNotOrphaned
  BY Zenon DEF IInv, Knows, Stands, LockNotOrphaned, Holder, HolderOf
<1>2. QED
  BY <1>1, LockInv, PTL

-----------------------------------------------------------------------------
(* Clients that put values to one key *)

\* The operations of OnePut, and the version and the value of its key in a map.
GetK == [op |-> "Get", key |-> k]
PutK(c, v) == [op |-> "Put", key |-> k, value |-> EntryV(c, v), version |-> v]
VerK(s) == IF k \in DOMAIN s THEN s[k].ver ELSE 0
ValK(s) == IF k \in DOMAIN s THEN s[k].val ELSE Empty
IsPutStore(s) == k \in DOMAIN s => s[k].ver \in Nat /\ s[k].ver > 0

\* Put(k, ver[c]) of c was made: while the key has the version it made, it has its value.
Made(c) == ver[c] < VerK(store) /\ (VerK(store) = ver[c] + 1 => ValK(store) = EntryV(c, ver[c]))

\* What Get returned, for a client whose Put was made.
Got(c, r) ==
  /\ r.err = "OK" /\ r.version \in Nat /\ r.version <= VerK(store)
  /\ err[c] = "OK" /\ r.version = ver[c] + 1 => r.value = EntryV(c, ver[c])

\* The Put of OnePut, and then its Get.
Putting(c) ==
  doing[c] = "put" =>
    /\ call[c] # "none" => op[c] = PutK(c, ver[c])
    /\ call[c] # "request" => k \in DOMAIN store
    /\ call[c] = "reply" =>
         reply[c].err \in {"OK", "ErrVersion"} /\ (reply[c].err = "OK" => Made(c))
    /\ call[c] = "none" =>
         /\ result[c].err \in {"OK", "ErrVersion", "ErrMaybe"}
         /\ result[c].err = "OK" => Made(c)
Reading(c) ==
  doing[c] = "get" =>
    /\ k \in DOMAIN store /\ (err[c] = "OK" => Made(c))
    /\ call[c] # "none" => op[c] = GetK
    /\ call[c] = "reply" => Got(c, reply[c])
    /\ call[c] = "none" => Got(c, result[c])

PutKnows(c) ==
  /\ ver[c] <= VerK(store) /\ (doing[c] = "idle" => call[c] = "none")
  /\ Putting(c) /\ Reading(c)

\* A reply has its three fields.
IsReply(r) == DOMAIN r = {"err", "value", "version"}

PutTypes ==
  /\ DOMAIN op = Client /\ DOMAIN reply = Client /\ DOMAIN result = Client /\ DOMAIN err = Client
  /\ call \in [Client -> {"none", "request", "reply"}]
  /\ doing \in [Client -> {"idle", "put", "get"}]
  /\ ver \in [Client -> Nat]
  /\ \A c \in Client : IsReply(reply[c])

\* The inductive invariant: what every client knows of the key still holds.
PInv == PutTypes /\ IsPutStore(store) /\ \A c \in Client : PutKnows(c)

\* The answers are replies.
LEMMA RepliesAre ==
  ASSUME NEW s, NEW args
  PROVE  IsReply(Answer(s, args)) /\ IsReply(NoReply)
BY Zenon DEF Answer, Get, Reply, NoReply, IsReply

\* Get answers with the version and the value of the key, if the map has it.
LEMMA GetOfKey ==
  ASSUME NEW s, k \in DOMAIN s
  PROVE  LET r == Answer(s, GetK)
         IN  /\ Execute(s, GetK) = s
             /\ r.err = "OK" /\ r.version = VerK(s) /\ r.value = ValK(s)
BY Zenon DEF Answer, Execute, GetK, Get, Reply, VerK, ValK

\* A Put whose version is not in the key's future is made if its version is the key's, and
\* else refused with ErrVersion.
LEMMA PutOfKey ==
  ASSUME NEW s, IsPutStore(s), NEW c, NEW v \in Nat, v <= VerK(s)
  PROVE  LET r == Answer(s, PutK(c, v))
             t == Execute(s, PutK(c, v))
         IN  /\ IsPutStore(t) /\ k \in DOMAIN t
             /\ v = VerK(s) =>
                  r.err = "OK" /\ VerK(t) = VerK(s) + 1 /\ ValK(t) = EntryV(c, v)
             /\ v # VerK(s) => r.err = "ErrVersion" /\ t = s
<1> DEFINE p == PutK(c, v)
<1>1. p.op = "Put" /\ p.key = k /\ p.value = EntryV(c, v) /\ p.version = v
  BY Zenon DEF PutK
<1>2. Answer(s, p).err = PutErr(s, p) /\ Execute(s, p) = Put(s, p)
  BY Zenon, <1>1 DEF Answer, Execute, Reply
<1>3. v = VerK(s) => PutErr(s, p) = "OK"
  BY Zenon, <1>1 DEF PutErr, VerK, IsPutStore
<1>4. v # VerK(s) => PutErr(s, p) = "ErrVersion" /\ k \in DOMAIN s
  BY <1>1 DEF PutErr, VerK, IsPutStore
<1> HIDE DEF p
<1>5. ASSUME v = VerK(s)
      PROVE  /\ IsPutStore(Put(s, p)) /\ k \in DOMAIN Put(s, p)
             /\ VerK(Put(s, p)) = VerK(s) + 1 /\ ValK(Put(s, p)) = EntryV(c, v)
  <2> DEFINE item == [val |-> EntryV(c, v), ver |-> IF k \in DOMAIN s THEN s[k].ver + 1 ELSE 1]
             t == [x \in DOMAIN s \cup {k} |-> IF x = k THEN item ELSE s[x]]
  <2>1. Put(s, p) = t
    BY Zenon, <1>1, <1>3, <1>5 DEF Put, With
  <2>2. item.val = EntryV(c, v) /\ item.ver = VerK(s) + 1 /\ item.ver \in Nat /\ item.ver > 0
    BY DEF VerK, IsPutStore
  <2>3. k \in DOMAIN t /\ t[k] = item
    BY Zenon
  <2> HIDE DEF item, t
  <2>4. QED
    BY Zenon, <2>1, <2>2, <2>3 DEF IsPutStore, VerK, ValK
<1>6. v # VerK(s) => Put(s, p) = s
  BY Zenon, <1>4 DEF Put
<1>7. QED
  BY Zenon, <1>2, <1>3, <1>4, <1>5, <1>6 DEF p

\* The version of the key is a number.
LEMMA KeyVersionIsNat ==
  ASSUME NEW s, IsPutStore(s)
  PROVE  VerK(s) \in Nat
BY Zenon DEF IsPutStore, VerK

\* The variables of c stay as they are.
Idles(c) ==
  /\ doing'[c] = doing[c] /\ call'[c] = call[c] /\ op'[c] = op[c] /\ reply'[c] = reply[c]
  /\ result'[c] = result[c] /\ ver'[c] = ver[c] /\ err'[c] = err[c]

\* A version of the key has one value.
KeyGrows ==
  /\ VerK(store) \in Nat /\ VerK(store') \in Nat /\ VerK(store) <= VerK(store')
  /\ VerK(store') = VerK(store) => ValK(store') = ValK(store)
  /\ k \in DOMAIN store => k \in DOMAIN store'

\* What was made stays made.
LEMMA MadeStays ==
  ASSUME NEW c \in Client, ver[c] \in Nat, ver'[c] = ver[c], KeyGrows, Made(c)
  PROVE  Made(c)'
BY DEF Made, KeyGrows

\* A client knows what it knew.
LEMMA PutSteady ==
  ASSUME NEW c \in Client, PutKnows(c), Idles(c), PutTypes, KeyGrows
  PROVE  PutKnows(c)'
<1>1. ver[c] \in Nat
  BY Zenon DEF PutTypes
<1>2. Made(c) => Made(c)'
  BY Zenon, <1>1, MadeStays DEF Idles
<1>3. ASSUME NEW r, Got(c, r) PROVE /\ r.err = "OK" /\ r.version \in Nat /\ r.version <= VerK(store')
                                    /\ err'[c] = "OK" /\ r.version = ver'[c] + 1 =>
                                         r.value = EntryV(c, ver'[c])
  BY <1>1, <1>3 DEF Got, Idles, KeyGrows
<1>4. Putting(c)'
  BY Zenon, <1>2 DEF PutKnows, Putting, Idles, PutK, KeyGrows
<1>5. Reading(c)'
  <2>1. SUFFICES ASSUME doing[c] = "get" PROVE Reading(c)'
    BY Zenon DEF Reading, Idles
  <2>2. k \in DOMAIN store' /\ (err'[c] = "OK" => Made(c)') /\ (call'[c] # "none" => op'[c] = GetK)
    BY Zenon, <1>2, <2>1 DEF PutKnows, Reading, Idles, KeyGrows
  <2>3. call'[c] = "reply" => Got(c, reply[c])'
    BY Zenon, <1>3, <2>1 DEF PutKnows, Reading, Idles, Got
  <2>4. call'[c] = "none" => Got(c, result[c])'
    BY Zenon, <1>3, <2>1 DEF PutKnows, Reading, Idles, Got
  <2>5. QED
    BY Zenon, <2>2, <2>3, <2>4 DEF Reading, GetK
<1>6. ver'[c] <= VerK(store') /\ (doing'[c] = "idle" => call'[c] = "none")
  BY <1>1 DEF PutKnows, Idles, KeyGrows
<1>7. QED
  BY Zenon, <1>4, <1>5, <1>6 DEF PutKnows

\* A step of d.
LEMMA PutStepOf ==
  ASSUME PInv, NEW d \in Client, PutTypes', IsPutStore(store'), KeyGrows, PutKnows(d)',
         \A c \in Client \ {d} : Idles(c)
  PROVE  PInv'
<1>1. ASSUME NEW c \in Client \ {d} PROVE PutKnows(c)'
  BY Zenon, <1>1, PutSteady DEF PInv
<1>2. QED
  BY Zenon, <1>1 DEF PInv, IsPutStore

\* A step that leaves the map alone.
LEMMA KeyStays ==
  ASSUME PInv, store' = store
  PROVE  KeyGrows /\ IsPutStore(store')
BY KeyVersionIsNat DEF PInv, KeyGrows

\* OnePut begins with its Put.
LEMMA OnePutInv ==
  ASSUME PInv, NEW d \in Client, OnePut(d)
  PROVE  PInv'
<1>1. /\ store' = store /\ reply' = reply /\ result' = result /\ ver' = ver /\ err' = err
      /\ op' = [op EXCEPT ![d] = PutK(d, ver[d])] /\ call' = [call EXCEPT ![d] = "request"]
      /\ doing' = [doing EXCEPT ![d] = "put"]
  BY Zenon DEF OnePut, PutJson, Invoke, PutK
<1>2. PutTypes'
  BY Zenon, <1>1 DEF PInv, PutTypes
<1>3. \A c \in Client \ {d} : Idles(c)
  BY Zenon, <1>1 DEF PInv, PutTypes, Idles
<1>4. op'[d] = PutK(d, ver[d]) /\ call'[d] = "request" /\ doing'[d] = "put"
  BY Zenon, <1>1 DEF PInv, PutTypes
<1>5. PutKnows(d)'
  BY Zenon, <1>1, <1>4 DEF PInv, PutKnows, Putting, Reading, PutK
<1>6. QED
  BY Zenon, <1>1, <1>2, <1>3, <1>5, KeyStays, PutStepOf

\* It remembers what the Put returned, and gets.
LEMMA HasPutInv ==
  ASSUME PInv, NEW d \in Client, HasPut(d)
  PROVE  PInv'
<1>1. /\ store' = store /\ reply' = reply /\ result' = result /\ ver' = ver
      /\ err' = [err EXCEPT ![d] = result[d].err]
      /\ op' = [op EXCEPT ![d] = GetK] /\ call' = [call EXCEPT ![d] = "request"]
      /\ doing' = [doing EXCEPT ![d] = "get"] /\ doing[d] = "put" /\ call[d] = "none"
  BY Zenon DEF HasPut, GetJson, Invoke, GetK, Back
<1>2. PutTypes'
  BY Zenon, <1>1 DEF PInv, PutTypes
<1>3. \A c \in Client \ {d} : Idles(c)
  BY Zenon, <1>1 DEF PInv, PutTypes, Idles
<1>4. op'[d] = GetK /\ call'[d] = "request" /\ doing'[d] = "get" /\ err'[d] = result[d].err
  BY Zenon, <1>1 DEF PInv, PutTypes
<1>5. k \in DOMAIN store /\ (result[d].err = "OK" => Made(d)) /\ ver[d] <= VerK(store)
  BY Zenon, <1>1 DEF PInv, PutKnows, Putting
<1>6. PutKnows(d)'
  BY Zenon, <1>1, <1>4, <1>5 DEF PutKnows, Putting, Reading, Made, GetK
<1>7. QED
  BY Zenon, <1>1, <1>2, <1>3, <1>6, KeyStays, PutStepOf

\* It puts again with the version that Get returned, or is done.
LEMMA HasGotInv ==
  ASSUME PInv, NEW d \in Client, HasGot(d)
  PROVE  PInv'
<1> DEFINE v == result[d].version
<1>1. /\ store' = store /\ reply' = reply /\ result' = result /\ err' = err
      /\ ver' = [ver EXCEPT ![d] = v] /\ doing[d] = "get" /\ call[d] = "none"
  BY Zenon DEF HasGot, PutJson, Invoke, Back, vars, clerkVars
<1>2. \/ /\ op' = [op EXCEPT ![d] = PutK(d, v)] /\ call' = [call EXCEPT ![d] = "request"]
         /\ doing' = [doing EXCEPT ![d] = "put"]
      \/ /\ op' = op /\ call' = call /\ doing' = [doing EXCEPT ![d] = "idle"]
  BY Zenon DEF HasGot, PutJson, Invoke, PutK, vars, clerkVars
<1>3. v \in Nat /\ v <= VerK(store)
  BY Zenon, <1>1 DEF PInv, PutKnows, Reading, Got
<1> HIDE DEF v
<1>4. PutTypes'
  BY Zenon, <1>1, <1>2, <1>3 DEF PInv, PutTypes
<1>5. \A c \in Client \ {d} : Idles(c)
  BY Zenon, <1>1, <1>2 DEF PInv, PutTypes, Idles
<1>6. /\ ver'[d] = v
      /\ \/ op'[d] = PutK(d, v) /\ call'[d] = "request" /\ doing'[d] = "put"
         \/ call'[d] = "none" /\ doing'[d] = "idle"
  BY Zenon, <1>1, <1>2 DEF PInv, PutTypes
<1>7. PutKnows(d)'
  BY Zenon, <1>1, <1>3, <1>6 DEF PutKnows, Putting, Reading, PutK
<1>8. QED
  BY Zenon, <1>1, <1>4, <1>5, <1>7, KeyStays, PutStepOf

\* The handler: a Put is made or refused, and a Get finds the key.
LEMMA PutServeInv ==
  ASSUME PInv, NEW d \in Client, Serve(d), UNCHANGED putVars
  PROVE  PInv'
<1> DEFINE r == Answer(store, op[d])
<1>1. /\ result' = result /\ ver' = ver /\ err' = err /\ doing' = doing /\ op' = op
      /\ call' = [call EXCEPT ![d] = "reply"] /\ call[d] = "request"
      /\ reply' = [reply EXCEPT ![d] = r] /\ store' = Execute(store, op[d])
  BY Zenon DEF Serve, putVars
<1>2. PutTypes'
  <2>1. IsReply(r)
    BY Zenon, RepliesAre
  <2> HIDE DEF r
  <2>2. QED
    BY Zenon, <1>1, <2>1 DEF PInv, PutTypes
<1> HIDE DEF r
<1>3. \A c \in Client \ {d} : Idles(c)
  BY Zenon, <1>1 DEF PInv, PutTypes, Idles
<1>4. reply'[d] = r /\ call'[d] = "reply"
  BY Zenon, <1>1 DEF PInv, PutTypes
<1>5. ver[d] \in Nat /\ ver[d] <= VerK(store) /\ IsPutStore(store) /\ VerK(store) \in Nat
  BY Zenon, KeyVersionIsNat DEF PInv, PutTypes, PutKnows
<1>6. doing[d] = "put" \/ doing[d] = "get"
  BY Zenon, <1>1 DEF PInv, PutTypes, PutKnows
<1>7. CASE doing[d] = "put"
  <2>1. op[d] = PutK(d, ver[d])
    BY Zenon, <1>1, <1>7 DEF PInv, PutKnows, Putting
  <2>2. /\ IsPutStore(store') /\ k \in DOMAIN store'
        /\ ver[d] = VerK(store) =>
             r.err = "OK" /\ VerK(store') = VerK(store) + 1 /\ ValK(store') = EntryV(d, ver[d])
        /\ ver[d] # VerK(store) => r.err = "ErrVersion" /\ store' = store
    BY <1>1, <1>5, <2>1, PutOfKey DEF r
  <2>3. KeyGrows
    BY <1>5, <2>2, KeyVersionIsNat DEF KeyGrows
  <2>4. r.err = "OK" => Made(d)'
    BY <1>1, <1>5, <2>2 DEF Made
  <2>5. PutKnows(d)'
    <3>1. Putting(d)'
      BY Zenon, <1>1, <1>4, <2>1, <2>2, <2>4 DEF Putting, PutK
    <3>2. ver'[d] <= VerK(store') /\ doing'[d] = "put"
      BY <1>1, <1>5, <1>7, <2>3 DEF KeyGrows
    <3>3. QED
      BY Zenon, <3>1, <3>2 DEF PutKnows, Reading
  <2>6. QED
    BY Zenon, <1>2, <1>3, <2>2, <2>3, <2>5, PutStepOf
<1>8. CASE doing[d] = "get"
  <2>1. op[d] = GetK /\ k \in DOMAIN store /\ (err[d] = "OK" => Made(d))
    BY Zenon, <1>1, <1>8 DEF PInv, PutKnows, Reading
  <2>2. store' = store /\ r.err = "OK" /\ r.version = VerK(store) /\ r.value = ValK(store)
    BY Zenon, <1>1, <2>1, GetOfKey DEF r
  <2>3. Got(d, r)
    BY <1>5, <2>1, <2>2 DEF Got, Made
  <2>4. PutKnows(d)'
    <3>1. Got(d, reply[d])' /\ (err'[d] = "OK" => Made(d)')
      BY Zenon, <1>1, <1>4, <2>1, <2>2, <2>3 DEF Got, Made
    <3>2. Reading(d)'
      BY Zenon, <1>1, <1>4, <2>1, <2>2, <3>1 DEF Reading, GetK
    <3>3. ver'[d] <= VerK(store') /\ doing'[d] = "get"
      BY Zenon, <1>1, <1>5, <1>8, <2>2
    <3>4. QED
      BY Zenon, <3>2, <3>3 DEF PutKnows, Putting
  <2>5. QED
    BY Zenon, <1>2, <1>3, <2>2, <2>4, KeyStays, PutStepOf
<1>9. QED
  BY Zenon, <1>6, <1>7, <1>8

\* The clerk calls again.
LEMMA PutRetryInv ==
  ASSUME PInv, NEW d \in Client, Retry(d), UNCHANGED putVars
  PROVE  PInv'
<1>1. /\ result' = result /\ ver' = ver /\ err' = err /\ doing' = doing /\ op' = op
      /\ call' = [call EXCEPT ![d] = "request"] /\ call[d] # "none"
      /\ reply' = [reply EXCEPT ![d] = NoReply] /\ store' = store
  BY Zenon DEF Retry, putVars
<1>2. PutTypes'
  BY Zenon, <1>1, RepliesAre DEF PInv, PutTypes
<1>3. \A c \in Client \ {d} : Idles(c)
  BY Zenon, <1>1 DEF PInv, PutTypes, Idles
<1>4. call'[d] = "request"
  BY Zenon, <1>1 DEF PInv, PutTypes
<1>5. PutKnows(d)'
  BY Zenon, <1>1, <1>4 DEF PInv, PutKnows, Putting, Reading, Made, PutK, GetK
<1>6. QED
  BY Zenon, <1>1, <1>2, <1>3, <1>5, KeyStays, PutStepOf

\* The operation returns.
LEMMA PutReturnInv ==
  ASSUME PInv, NEW d \in Client, Return(d), UNCHANGED putVars
  PROVE  PInv'
<1> DEFINE r == [reply[d] EXCEPT !.err = ClerkErr(d)]
<1>1. /\ result' = [result EXCEPT ![d] = r] /\ ver' = ver /\ err' = err /\ doing' = doing
      /\ call' = [call EXCEPT ![d] = "none"] /\ call[d] = "reply"
      /\ op' = [op EXCEPT ![d] = NoOp]
      /\ reply' = [reply EXCEPT ![d] = NoReply] /\ store' = store
  BY Zenon DEF Return, putVars
<1>2. PutTypes'
  BY Zenon, <1>1, RepliesAre DEF PInv, PutTypes
<1>3. \A c \in Client \ {d} : Idles(c)
  BY Zenon, <1>1 DEF PInv, PutTypes, Idles
<1>4. call'[d] = "none" /\ result'[d] = r
  BY Zenon, <1>1 DEF PInv, PutTypes
<1>5. r.err = ClerkErr(d) /\ r.value = reply[d].value /\ r.version = reply[d].version
  BY Zenon DEF PInv, PutTypes, IsReply
<1>6. ClerkErr(d) = reply[d].err \/ (reply[d].err = "ErrVersion" /\ ClerkErr(d) = "ErrMaybe")
  BY Zenon DEF ClerkErr
<1> HIDE DEF r
<1>7. Putting(d)'
  <2>1. SUFFICES ASSUME doing[d] = "put"
                 PROVE  /\ k \in DOMAIN store /\ r.err \in {"OK", "ErrVersion", "ErrMaybe"}
                        /\ r.err = "OK" => Made(d)
    BY Zenon, <1>1, <1>4 DEF Putting, Made
  <2>2. QED
    BY Zenon, <1>1, <1>5, <1>6, <2>1 DEF PInv, PutKnows, Putting
<1>8. Reading(d)'
  <2>1. SUFFICES ASSUME doing[d] = "get"
                 PROVE  k \in DOMAIN store /\ (err[d] = "OK" => Made(d)) /\ Got(d, r)
    BY Zenon, <1>1, <1>4 DEF Reading, Made, Got
  <2>2. k \in DOMAIN store /\ (err[d] = "OK" => Made(d)) /\ Got(d, reply[d]) /\ op[d] = GetK
    BY Zenon, <1>1, <2>1 DEF PInv, PutKnows, Reading
  <2>3. ClerkErr(d) = reply[d].err
    BY <2>2 DEF ClerkErr, GetK
  <2>4. QED
    BY Zenon, <1>5, <2>2, <2>3 DEF Got
<1>9. PutKnows(d)'
  BY Zenon, <1>1, <1>4, <1>7, <1>8 DEF PInv, PutKnows
<1>10. QED
  BY Zenon, <1>1, <1>2, <1>3, <1>9, KeyStays, PutStepOf

\* The invariant holds when the clients start.
LEMMA PutInitInv ==
  PutInit => PInv
BY RepliesAre DEF PutInit, Init, NoKeys, PInv, PutTypes, IsPutStore, PutKnows, Putting, Reading, VerK

\* Every step keeps it.
LEMMA PutNextInv ==
  PInv /\ [PutNext]_<<vars, putVars>> => PInv'
<1> SUFFICES ASSUME PInv, [PutNext]_<<vars, putVars>> PROVE PInv'
  BY Zenon
<1>1. CASE UNCHANGED <<vars, putVars>>
  <2>1. /\ store' = store /\ op' = op /\ call' = call /\ reply' = reply /\ result' = result
        /\ doing' = doing /\ ver' = ver /\ err' = err
    BY Zenon, <1>1 DEF vars, clerkVars, putVars
  <2>2. PutTypes' /\ IsPutStore(store')
    BY Zenon, <2>1 DEF PInv, PutTypes
  <2>3. ASSUME NEW c \in Client PROVE PutKnows(c)'
    BY Zenon, <2>1, <2>3, KeyStays, PutSteady DEF PInv, Idles
  <2>4. QED
    BY Zenon, <2>2, <2>3 DEF PInv
<1>2. CASE PutNext
  <2>1. PICK d \in Client : \/ OnePut(d) \/ HasPut(d) \/ HasGot(d)
                            \/ (Serve(d) \/ Retry(d) \/ Return(d)) /\ UNCHANGED putVars
    BY Zenon, <1>2 DEF PutNext
  <2>2. QED
    BY Zenon, <2>1, OnePutInv, HasPutInv, HasGotInv, PutServeInv, PutRetryInv, PutReturnInv
<1>3. QED
  BY Zenon, <1>1, <1>2

\* A client that put the next version of the key reads its own entry at that version, and
\* neither Put nor Get returns an error that OnePut does not expect, for any number of
\* clients and of calls.
THEOREM ClientsReadOwnPuts == PutSpec => []ReadsOwnPut
<1>1. PInv => ReadsOwnPut
  BY Zenon DEF PInv, PutKnows, Putting, Reading, Got, ReadsOwnPut, Back
<1>2. QED
  BY <1>1, PutInitInv, PutNextInv, PTL DEF PutSpec

=============================================================================
