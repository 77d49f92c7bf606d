------------------------------ MODULE Lifecycle -----------------------------
(***************************************************************************)
(* labrpc and tester1: remote calls to a server that is shut down and      *)
(* started again.  The server's name stands for one instance after the     *)
(* other; an instance that was shut down is not stopped, its handlers go   *)
(* on and save to the persister it was given.                              *)
(*                                                                         *)
(* A call asks for one update, which its handler makes to the memory of    *)
(* the instance and saves, with all earlier ones, before it replies.  The  *)
(* calls are made by one client, which makes its end to the server with    *)
(* its first call, and which a test may disconnect and connect at any time *)
(* (tester1's Clnt).                                                       *)
(***************************************************************************)
EXTENDS Naturals

CONSTANTS Req,
          MaxInstance   \* bounds the restarts

ASSUME LifecycleAssumption == MaxInstance \in Nat \ {0}

Instance == 1..MaxInstance
Persister == 1..2 * MaxInstance
NoServer == 0

VARIABLES server,      \* Network.servers: the instance registered, or NoServer
          tester,      \* where ShutdownServer and StartServer are
          latest,      \* the last instance that was made
          memory,      \* memory[i]: the updates instance i has made
          given,       \* given[i]: the Persister of instance i
          saved,       \* Server.saved: the Persister for the next instance
          made,        \* the Persisters made so far are 1..made
          content,     \* content[p]: the updates saved in Persister p
          at,          \* a call: where processReq is
          to,          \*   the instance that readEndnameInfo found
          handler,     \*   its handler: "none", "running" or "returned"
          srvs,        \* Clnt.srvs: "all" (nil, or with the server in it) or "none" (without it)
          end          \* Clnt.ends for the server: "none", "enabled", "disabled", "deleted"

\* History: the client was made for other servers, or disconnected from all, and has not been
\* connected to the server since.
VARIABLE cutOff

serverVars == <<server, tester, latest, given, saved, made>>
callVars == <<at, to, handler>>
clntVars == <<srvs, end, cutOff>>
lifeVars == <<serverVars, clntVars, memory, content, callVars>>

-----------------------------------------------------------------------------
(* Clnt *)

allowed == srvs = "all"

EnablesEnd ==  \* mutant: makes an end without asking whether the client may have it
  /\ end = "none" /\ \E c \in Req : at[c] = "called"
  /\ end' = "enabled"
  /\ UNCHANGED <<serverVars, srvs, cutOff, memory, content, callVars>>

\* The end for the first call.
makeEnd ==
  /\ end = "none" /\ \E c \in Req : at[c] = "called"
  /\ end' = IF allowed THEN "enabled" ELSE "disabled"
  /\ UNCHANGED <<serverVars, srvs, cutOff, memory, content, callVars>>

\* Enable, for the end, if there is one.
Enable(on) == end' = IF end = "none" THEN end ELSE IF on THEN "enabled" ELSE "disabled"

\* ConnectAll, or ConnectTo with a list that the server is in.
ClntConnect == Enable(TRUE) /\ srvs' = "all" /\ cutOff' = FALSE

\* ConnectTo with a list that the server is not in: it disables no end.
ClntConnectOthers == srvs' = "none" /\ UNCHANGED <<end, cutOff>>

ClntDisconnect == Enable(FALSE) /\ UNCHANGED <<srvs, cutOff>>

ClntDisconnectAll == Enable(FALSE) /\ srvs' = "none" /\ cutOff' = TRUE

\* DeleteClient: the end, if there is one.
remove == end' = (IF end = "none" THEN end ELSE "deleted") /\ UNCHANGED <<srvs, cutOff>>

\* A client that was deleted is not used.
Clnt ==
  /\ end # "deleted"
  /\ ClntConnect \/ ClntConnectOthers \/ ClntDisconnect \/ ClntDisconnectAll \/ remove
  /\ UNCHANGED <<serverVars, memory, content, callVars>>

-----------------------------------------------------------------------------
(* ClientEnd.Call, processReq and the handler *)

Goto(c, place) == at' = [at EXCEPT ![c] = place]

\* readEndnameInfo finds an instance, and the request is not dropped.
Deliver(c) ==
  /\ at[c] = "called" /\ end = "enabled" /\ server # NoServer
  /\ to' = [to EXCEPT ![c] = server]
  /\ handler' = [handler EXCEPT ![c] = "running"]
  /\ Goto(c, "waiting")
  /\ UNCHANGED <<serverVars, clntVars, memory, content>>

\* There is no server, the end-point is disabled, or the request is dropped.
Drop(c) ==
  /\ at[c] = "called" /\ end # "none"
  /\ Goto(c, "false")
  /\ UNCHANGED <<serverVars, clntVars, memory, content, to, handler>>

\* The handler makes the update and saves it, whether or not anybody waits for it.
Handle(c) ==
  LET i == to[c] IN
  /\ handler[c] = "running"
  /\ memory' = [memory EXCEPT ![i] = @ \cup {c}]
  /\ content' = [content EXCEPT ![given[i]] = memory[i] \cup {c}]
  /\ handler' = [handler EXCEPT ![c] = "returned"]
  /\ UNCHANGED <<serverVars, clntVars, at, to>>

isServerDead(c) == end # "enabled" \/ server # to[c]

NeverStops(c) == FALSE /\ UNCHANGED lifeVars  \* mutant: waits for the handler only

\* The handler has not returned, and the instance is no longer the server.
StopWaiting(c) ==
  /\ at[c] = "waiting" /\ handler[c] # "returned" /\ isServerDead(c)
  /\ Goto(c, "false")
  /\ UNCHANGED <<serverVars, clntVars, memory, content, to, handler>>

RepliesAnyway(c) ==  \* mutant: does not look again once the handler has returned
  /\ at[c] = "waiting" /\ handler[c] = "returned"
  /\ Goto(c, "replied")
  /\ UNCHANGED <<serverVars, clntVars, memory, content, to, handler>>

\* The handler has returned, and isServerDead is asked again.
Reply(c) ==
  /\ at[c] = "waiting" /\ handler[c] = "returned"
  /\ \/ ~isServerDead(c) /\ Goto(c, "replied")
     \/ Goto(c, "false")
  /\ UNCHANGED <<serverVars, clntVars, memory, content, to, handler>>

\* The reply arrives, perhaps much later.
Receive(c) ==
  /\ at[c] = "replied"
  /\ Goto(c, "true")
  /\ UNCHANGED <<serverVars, clntVars, memory, content, to, handler>>

-----------------------------------------------------------------------------
(* ShutdownServer and StartServer *)

DeleteServer ==
  /\ tester = "up"
  /\ server' = NoServer
  /\ tester' = "deleted"
  /\ UNCHANGED <<latest, given, saved, made, clntVars, memory, content, callVars>>

\* Persister.Copy.
Copy(p) ==
  /\ made' = made + 1
  /\ content' = [content EXCEPT ![made + 1] = content[p]]
  /\ saved' = made + 1

\* shutdownServer puts a copy in the place of the instance's Persister.
CopyPersister ==
  /\ tester = "deleted"
  /\ Copy(saved)
  /\ tester' = "down"
  /\ UNCHANGED <<server, latest, given, clntVars, memory, callVars>>

StartsEmpty ==  \* mutant: the instance does not read its Persister
  /\ tester = "down" /\ latest < MaxInstance
  /\ Copy(saved)
  /\ latest' = latest + 1
  /\ given' = [given EXCEPT ![latest + 1] = made + 1]
  /\ tester' = "made"
  /\ UNCHANGED <<server, clntVars, memory, callVars>>

\* startServer copies the Persister once more and an instance is made from the copy.
MakeServer ==
  /\ tester = "down" /\ latest < MaxInstance
  /\ Copy(saved)
  /\ latest' = latest + 1
  /\ given' = [given EXCEPT ![latest + 1] = made + 1]
  /\ memory' = [memory EXCEPT ![latest + 1] = content[saved]]
  /\ tester' = "made"
  /\ UNCHANGED <<server, clntVars, callVars>>

AddServer ==
  /\ tester = "made"
  /\ server' = latest
  /\ tester' = "up"
  /\ UNCHANGED <<latest, given, saved, made, clntVars, memory, content, callVars>>

-----------------------------------------------------------------------------

LifeInit ==
  /\ server = 1 /\ latest = 1 /\ tester = "up"
  /\ srvs \in {"all", "none"} /\ end = "none" /\ cutOff = (srvs = "none")
  /\ memory = [i \in Instance |-> {}]
  /\ given = [i \in Instance |-> 1] /\ saved = 1 /\ made = 1
  /\ content = [p \in Persister |-> {}]
  /\ at = [c \in Req |-> "called"]
  /\ to = [c \in Req |-> NoServer]
  /\ handler = [c \in Req |-> "none"]

Network(c) ==
  makeEnd \/ Deliver(c) \/ Drop(c) \/ StopWaiting(c) \/ Reply(c) \/ Receive(c)
Tester == DeleteServer \/ CopyPersister \/ MakeServer \/ AddServer \/ Clnt

LifeNext == (\E c \in Req : Network(c) \/ Handle(c)) \/ Tester

LifeSpec == LifeInit /\ [][LifeNext]_lifeVars

\* The network's goroutines run on.  The handlers of a registered instance return; those of
\* one that was shut down may wait for ever for what its peers no longer send it.
LifeFairness ==
  \A c \in Req : WF_lifeVars(Network(c)) /\ WF_lifeVars(Handle(c) /\ to[c] = server)

FairLifeSpec == LifeSpec /\ LifeFairness

-----------------------------------------------------------------------------

\* What the next instance will find.
Persisted == content[saved]

\* labrpc is to avoid the "situation in which a client gets a positive reply to an Append,
\* but the server persisted the update into the old Persister": the update of a call that
\* returned true is in the Persister that the next instance is given.
AckedIsPersisted == \A c \in Req : at[c] = "true" => c \in Persisted

\* An update once persisted stays, although instances that were shut down go on saving what
\* they have in memory.
PersistedStays == [][Persisted \subseteq Persisted']_lifeVars

\* A client that was made for other servers, or that DisconnectAll has cut off, does not
\* reach the server until it is connected to it: not through the end that a later call makes,
\* and not by being connected to others.  (A client that ConnectTo connects to others only
\* keeps the end to the server that it has.)
CutOffClient == cutOff => end # "enabled"

\* A call that has reached the server returns, also when its handler is stuck in an instance
\* that was shut down.
CallsReturn == \A c \in Req : at[c] = "waiting" ~> at[c] \in {"true", "false"}

=============================================================================
