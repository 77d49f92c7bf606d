-------------------------------- MODULE KVRaft ------------------------------
(***************************************************************************)
(* kvraft1: the replicated key/value service.  A clerk sends its operation *)
(* to one server after the other until one of them answers it as leader; a *)
(* handler submits the operation to the RSM of its server, which keeps the *)
(* promise of the module Submissions; the state machine is the versioned   *)
(* map.  The clerk differs from kvsrv1's (KVClerk, KVLinear) in where it   *)
(* sends an RPC and in taking ErrWrongLeader like a lost reply.            *)
(*                                                                         *)
(* Every RPC of a clerk is one call of Submit.  When ClientEnd.Call        *)
(* returns false the clerk goes on, and so does the handler of the RPC:    *)
(* its command may reach a log or be executed at any time later.           *)
(*                                                                         *)
(* store is the map of the servers that have executed the most commands.   *)
(***************************************************************************)
EXTENDS KVLinear, Sequences

CONSTANTS Servers,  \* how many servers there are
          MaxRPC    \* bounds the RPCs that the clerks make

ASSUME ServersAssumption == Servers \in Nat \ {0} /\ MaxRPC \in Nat

VARIABLES leader,   \* leader[c]: the server that the clerk talks to
          tries,    \* tries[c]: the RPCs of its operation so far, the last one under way
          req,      \* req[n]: the arguments of the n-th RPC, as far as there was one
          order, place, submitted,  \* the state of Submissions; what Submit returns
          answers   \* answers[i]: what DoOp returned for the i-th command executed

raftVars == <<leader, tries, req, order, place, submitted, answers>>

RSM == INSTANCE Submissions WITH Call <- 1..MaxRPC, result <- submitted

\* ck.clnt.Call, with a new RPC.
Send(c, args, server) ==
  /\ Len(req) < MaxRPC
  /\ req' = Append(req, args)
  /\ tries' = [tries EXCEPT ![c] = @ \cup {Len(req) + 1}]
  /\ leader' = [leader EXCEPT ![c] = server]
  /\ UNCHANGED <<order, place, submitted, answers>>

\* Get or Put is called, and tries the server that answered last.
InvokeRaft(c, args) == LinearInvoke(c, args) /\ Send(c, args, leader[c])

\* The request is at a server, whose handler calls Submit, which calls Start.  A handler
\* whose clerk has given up may still do so.
Submit(n) ==
  /\ n \in DOMAIN req
  /\ RSM!Submitted(n)
  /\ UNCHANGED <<linearVars, leader, tries, req, answers>>

\* DoOp, by the first server that comes to the command.
DoOp(n) ==
  /\ n \in DOMAIN req
  /\ RSM!Executed(n)
  /\ store' = Execute(store, req[n])
  /\ answers' = Append(answers, Answer(store, req[n]))
  /\ applied' = [c \in Client |-> applied[c] \/ (store' # store /\ n \in tries[c])]
  /\ seen' = [c \in Client |->
       IF Pending(c) THEN seen[c] \cup {KvState(store', op[c].key)} ELSE seen[c]]
  /\ UNCHANGED <<clerkVars, leader, tries, req>>

\* Submit of the last RPC returns OK with what DoOp returned for its command, and the reply
\* is on its way to the clerk.
Answered(c) ==
  \E n \in tries[c] :
    /\ \A m \in tries[c] : m <= n
    /\ call[c] = "request"
    /\ RSM!ReturnedOK(n)
    /\ reply' = [reply EXCEPT ![c] = answers[Len(submitted'[n].result)]]
    /\ call' = [call EXCEPT ![c] = "reply"]
    /\ UNCHANGED <<store, op, first, result, historyVars, leader, tries, req, answers>>

\* Call returns false, because the network has dropped the request or the reply or the
\* server is shut down, or the reply is ErrWrongLeader: the clerk tries the next server.
RetryRaft(c) ==
  /\ Retry(c) /\ UNCHANGED historyVars
  /\ Send(c, op[c], (leader[c] + 1) % Servers)

ReturnRaft(c) ==
  /\ LinearReturn(c)
  /\ tries' = [tries EXCEPT ![c] = {}]
  /\ UNCHANGED <<leader, req, order, place, submitted, answers>>

-----------------------------------------------------------------------------

RaftInit ==
  /\ leader = [c \in Client |-> 0]
  /\ tries = [c \in Client |-> {}]
  /\ req = <<>>
  /\ answers = <<>>
  /\ RSM!Init

\* A client passes to Put a version that the key has had: 0, or what a Get returned.
HasHad(args) == args.op = "Put" => args.version <= KvState(store, args.key).version

RaftNext ==
  \/ \E n \in 1..MaxRPC : Submit(n) \/ DoOp(n)
  \/ \E c \in Client :
       \/ \E args \in GetArgs \cup PutArgs : HasHad(args) /\ InvokeRaft(c, args)
       \/ Answered(c) \/ RetryRaft(c) \/ ReturnRaft(c)

RaftSpec == LinearInit /\ RaftInit /\ [][RaftNext]_<<linearVars, raftVars>>

=============================================================================
