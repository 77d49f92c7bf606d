-------------------------------- MODULE Group -------------------------------
(***************************************************************************)
(* tester1: the ends through which the servers of a group call each other, *)
(* and the operations with which a test connects, disconnects, partitions  *)
(* and restarts the servers.                                               *)
(*                                                                         *)
(* An instance of a server has an end to every server, itself included.  A *)
(* test runs its operations one after the other.  An operation is a list   *)
(* of steps, each the loop of Enables of one connect or disconnect; calls  *)
(* are made in between.                                                    *)
(***************************************************************************)
EXTENDS Naturals, Sequences, SequencesExt, FiniteSets

CONSTANTS N,            \* how many servers the group has
          Restarts      \* bounds the restarts of each server

ASSUME GroupAssumption == N \in Nat \ {0} /\ Restarts \in [0..N - 1 -> Nat]

Server == 0..N - 1

VARIABLES instance,    \* instance[i]: the instance that sg.srvs[i] is
          connected,   \* sg.connected
          enabled,     \* Network.enabled: <<i, k, j>> is the end of instance k of i to j
          up,          \* the servers that Network.servers has
          todo,        \* the steps of the test's operation still to be made
          parts        \* history: the parts that the test put the servers in, if they are clear

linkVars == <<connected, enabled>>
groupVars == <<instance, linkVars, up, todo, parts>>

End(i, j) == <<i, instance[i], j>>

-----------------------------------------------------------------------------
(* The steps *)

ConnectsOut(i, to) ==  \* mutant: leaves the ends to the server as they are
  /\ connected' = [connected EXCEPT ![i] = TRUE]
  /\ enabled' = enabled \cup {End(i, j) : j \in {j \in to : connected'[j]}}

connect(i, to) ==
  /\ connected' = [connected EXCEPT ![i] = TRUE]
  /\ enabled' = enabled \cup UNION {{End(i, j), End(j, i)} : j \in {j \in to : connected'[j]}}

disconnect(i, from) ==
  /\ connected' = [connected EXCEPT ![i] = FALSE]
  /\ enabled' = enabled \ UNION {{End(i, j), End(j, i)} : j \in from}

\* makeServer: a new instance, with ends of its own, which are disabled.
Make(i) == instance' = [instance EXCEPT ![i] = @ + 1]

Step ==
  LET do == Head(todo).do
      i == Head(todo).i
      with == Head(todo).with
  IN  /\ todo # <<>> /\ todo' = Tail(todo)
      /\ \/ do = "connect" /\ connect(i, with) /\ UNCHANGED <<instance, up>>
         \/ do = "disconnect" /\ disconnect(i, with) /\ UNCHANGED <<instance, up>>
         \/ do = "delete" /\ up' = up \ {i} /\ UNCHANGED <<instance, linkVars>>
         \/ do = "make" /\ Make(i) /\ UNCHANGED <<linkVars, up>>
         \/ do = "add" /\ up' = up \cup {i} /\ UNCHANGED <<instance, linkVars>>
      /\ UNCHANGED parts

-----------------------------------------------------------------------------
(* The operations of a test *)

Do(what, i, with) == [do |-> what, i |-> i, with |-> with]

ConnectAllSteps == [k \in 1..N |-> Do("connect", k - 1, Server)]

\* Partition: away from the other part, and to one's own.
Moves(part, other) ==
  LET of == SetToSortSeq(part, <)
  IN  FlattenSeq([k \in DOMAIN of |->
        <<Do("disconnect", of[k], other), Do("connect", of[k], part)>>])

Begin(steps, ps) ==
  /\ todo = <<>>
  /\ todo' = steps
  /\ parts' = ps
  /\ UNCHANGED <<instance, linkVars, up>>

\* A server that is connected to all again may connect the two parts of a partition.
ConnectOne(i) ==
  Begin(<<Do("connect", i, Server)>>, IF parts = {Server} THEN parts ELSE {})

ConnectAll == Begin(ConnectAllSteps, {Server})

DisconnectAll(i) == Begin(<<Do("disconnect", i, Server)>>, parts)

Partition(p1, p2) == Begin(Moves(p1, p2) \o Moves(p2, p1), {p1, p2})

\* The majority, and the rest of the servers with l, of an odd number of servers.
MakePartition(l) ==
  LET others == SelectSeq([k \in 1..N |-> k - 1], LAMBDA i : i # l)
      p1 == ToSet(SubSeq(others, 1, N \div 2 + 1))
  IN  Partition(p1, Server \ p1)

ShutdownServer(i) ==
  /\ i \in up
  /\ Begin(<<Do("disconnect", i, Server), Do("delete", i, {})>>, parts)

\* The tests connect all servers when they have started one (restart of raft1/test.go) or
\* all of them (StartServers).
StartServer(i) ==
  /\ i \notin up /\ instance[i] <= Restarts[i]
  /\ Begin(<<Do("make", i, {}), Do("add", i, {})>> \o ConnectAllSteps, {Server})

Operation ==
  \/ \E i \in Server :
       \/ ConnectOne(i) \/ DisconnectAll(i) \/ MakePartition(i)
       \/ ShutdownServer(i) \/ StartServer(i)
  \/ \E p \in SUBSET Server : Partition(p, Server \ p)
  \/ ConnectAll

-----------------------------------------------------------------------------

GroupInit ==
  /\ instance = [i \in Server |-> 1] /\ up = Server
  /\ connected = [i \in Server |-> TRUE]
  /\ enabled = {<<i, 1, j>> : i, j \in Server}
  /\ todo = <<>> /\ parts = {Server}

GroupNext == Operation \/ Step

GroupSpec == GroupInit /\ [][GroupNext]_groupVars

-----------------------------------------------------------------------------

\* The links are those the test asked for whenever no operation is under way: two servers
\* reach each other if both are connected and in the same part, and if not neither reaches
\* the other.
LinksAsAsked ==
  todo = <<>> /\ parts # {} =>
    {e \in enabled : e[2] = instance[e[1]]} =
      {End(e[1], e[2]) : e \in {e \in Server \X Server :
         connected[e[1]] /\ connected[e[2]] /\ \E p \in parts : {e[1], e[2]} \subseteq p}}

=============================================================================
