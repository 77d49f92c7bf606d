------------------------------- MODULE KVClerk ------------------------------
(***************************************************************************)
(* kvsrv1: one key/value server, and clerks that call it over an           *)
(* unreliable network (labrpc) and repeat a call until it is answered.     *)
(*                                                                         *)
(* A clerk has one call under way at a time: labrpc's Call returns false   *)
(* when the request was dropped, so that the server never saw it, or when  *)
(* the reply was dropped, after the server had executed it.  Call does not *)
(* return before the handler has, so no request outlives its call.         *)
(***************************************************************************)
EXTENDS KVServer

CONSTANT Client

VARIABLES store,    \* the server's map
          op,       \* op[c]: the arguments of the operation c's clerk performs
          call,     \* call[c]: where its current RPC is
          reply,    \* reply[c]: what the server answered to it
          first,    \* first[c]: Put's local variable; no RPC of this operation failed yet
          result    \* result[c]: what the clerk's last operation returned

clerkVars == <<op, call, reply, first, result>>
vars == <<store, clerkVars>>

Err == {"OK", "ErrNoKey", "ErrVersion", "ErrMaybe"}
NoOp == [op |-> "None"]
NoReply == Reply("OK", Empty, 0)

Init ==
  /\ store = NoKeys
  /\ op = [c \in Client |-> NoOp]
  /\ call = [c \in Client |-> "none"]
  /\ reply = [c \in Client |-> NoReply]
  /\ first = [c \in Client |-> TRUE]
  /\ result = [c \in Client |-> NoReply]

\* The clerk enters Get or Put and makes its first RPC.
Invoke(c, args) ==
  /\ call[c] = "none"
  /\ op' = [op EXCEPT ![c] = args]
  /\ call' = [call EXCEPT ![c] = "request"]
  /\ UNCHANGED <<store, reply, first, result>>

\* The handler, in its critical section.
Serve(c) ==
  /\ call[c] = "request"
  /\ reply' = [reply EXCEPT ![c] = Answer(store, op[c])]
  /\ store' = Execute(store, op[c])
  /\ call' = [call EXCEPT ![c] = "reply"]
  /\ UNCHANGED <<op, first, result>>

ForgetsRetry(c) ==  \* mutant: a repeated Put does not know that it is one
  /\ call[c] \in {"request", "reply"}
  /\ call' = [call EXCEPT ![c] = "request"]
  /\ reply' = [reply EXCEPT ![c] = NoReply]
  /\ UNCHANGED <<store, op, first, result>>

\* The network drops the request or the reply: Call returns false, and the clerk
\* sleeps and calls again.
Retry(c) ==
  /\ call[c] \in {"request", "reply"}
  /\ call' = [call EXCEPT ![c] = "request"]
  /\ reply' = [reply EXCEPT ![c] = NoReply]
  /\ first' = [first EXCEPT ![c] = FALSE]
  /\ UNCHANGED <<store, op, result>>

TrustsRetry(c) ==  \* mutant: takes ErrVersion for the effect of its own lost Put
  IF op[c].op = "Put" /\ reply[c].err = "ErrVersion" /\ ~first[c] THEN "OK"
  ELSE reply[c].err

\* What the clerk's Get or Put returns for a reply.
ClerkErr(c) ==
  IF op[c].op = "Put" /\ reply[c].err = "ErrVersion" /\ ~first[c] THEN "ErrMaybe"
  ELSE reply[c].err

\* The reply arrives and the operation returns; its local variables are gone.
Return(c) ==
  /\ call[c] = "reply"
  /\ result' = [result EXCEPT ![c] = [reply[c] EXCEPT !.err = ClerkErr(c)]]
  /\ op' = [op EXCEPT ![c] = NoOp]
  /\ call' = [call EXCEPT ![c] = "none"]
  /\ reply' = [reply EXCEPT ![c] = NoReply]
  /\ first' = [first EXCEPT ![c] = TRUE]
  /\ UNCHANGED store

-----------------------------------------------------------------------------

\* The applications: any operation at any time.
Application(c) == \E args \in GetArgs \cup PutArgs : Invoke(c, args)

Next == \E c \in Client : Application(c) \/ Serve(c) \/ Retry(c) \/ Return(c)

Spec == Init /\ [][Next]_vars

=============================================================================
