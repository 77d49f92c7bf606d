-------------------------------- MODULE Lock --------------------------------
(***************************************************************************)
(* kvsrv1/lock: a lock kept in one key of the key/value server.  Each      *)
(* client has a clerk and runs Acquire and Release on it; the statements   *)
(* between two clerk operations touch only local variables, so they are    *)
(* one step with the operation they lead to.                               *)
(***************************************************************************)
EXTENDS KVClerk, Integers

CONSTANTS l,      \* the key
          Turns   \* how often each client acquires the lock

\* lk.myID is a random string; two clients never draw the same.
ASSUME LockAssumption ==
  l \in Key /\ Client \subseteq Value /\ Empty \notin Client /\ Turns \in Nat

VARIABLES pc,     \* pc[c]: outside, the clerk operation of Acquire or Release under
                  \* way, or "held" between Acquire and Release
          turns   \* turns[c]: how often c has called Acquire

lockVars == <<pc, turns>>
allVars == <<vars, lockVars>>

GetLock == [op |-> "Get", key |-> l]

PutLock(value, version) == [op |-> "Put", key |-> l, value |-> value, version |-> version]

\* The clerk's last operation is over, and the client goes on from its result.
At(c, where) == pc[c] = where /\ call[c] = "none"
Goto(c, where) == pc' = [pc EXCEPT ![c] = where] /\ UNCHANGED turns
Operate(c, args, where) == Invoke(c, args) /\ Goto(c, where)
Finish(c, where) == Goto(c, where) /\ UNCHANGED vars

\* Get said that this client holds the lock.
Mine(c) == result[c].err = "OK" /\ result[c].value = c

Acquire(c) ==
  /\ At(c, "outside") /\ turns[c] < Turns
  /\ turns' = [turns EXCEPT ![c] = @ + 1]
  /\ pc' = [pc EXCEPT ![c] = "acquire:get"]
  /\ Invoke(c, GetLock)

\* Acquire's loop after its Get: no key yet, free, or busy.
AcquireGot(c) ==
  /\ At(c, "acquire:get")
  /\ \/ /\ result[c].err = "ErrNoKey"
        /\ Operate(c, PutLock(c, 0), "acquire:put")
     \/ /\ result[c].err = "OK" /\ result[c].value = Empty
        /\ Operate(c, PutLock(c, result[c].version), "acquire:put")
     \/ /\ result[c].err = "OK" /\ result[c].value # Empty
        /\ Operate(c, GetLock, "acquire:get")

TrustsMaybe(c) ==  \* mutant: takes ErrMaybe for OK
  /\ At(c, "acquire:put")
  /\ \/ result[c].err \in {"OK", "ErrMaybe"} /\ Finish(c, "held")
     \/ result[c].err \notin {"OK", "ErrMaybe"} /\ Operate(c, GetLock, "acquire:get")

DistrustsMaybe(c) ==  \* mutant: takes ErrMaybe for a failure
  /\ At(c, "acquire:put")
  /\ \/ result[c].err = "OK" /\ Finish(c, "held")
     \/ result[c].err # "OK" /\ Operate(c, GetLock, "acquire:get")

\* Acquire after its Put.
AcquirePut(c) ==
  /\ At(c, "acquire:put")
  /\ \/ result[c].err = "OK" /\ Finish(c, "held")
     \/ result[c].err = "ErrMaybe" /\ Operate(c, GetLock, "acquire:check")
     \/ result[c].err \notin {"OK", "ErrMaybe"} /\ Operate(c, GetLock, "acquire:get")

\* Acquire after the Get that follows ErrMaybe.
AcquireChecked(c) ==
  /\ At(c, "acquire:check")
  /\ \/ Mine(c) /\ Finish(c, "held")
     \/ ~Mine(c) /\ Operate(c, GetLock, "acquire:get")

Release(c) == At(c, "held") /\ Operate(c, GetLock, "release:get")

ReleasesAnyway(c) ==  \* mutant: does not look whose lock it is
  /\ At(c, "release:get")
  /\ Operate(c, PutLock(Empty, result[c].version), "release:put")

ReleaseGot(c) ==
  /\ At(c, "release:get")
  /\ \/ Mine(c) /\ Operate(c, PutLock(Empty, result[c].version), "release:put")
     \/ ~Mine(c) /\ Finish(c, "outside")

ReleasePut(c) ==
  /\ At(c, "release:put")
  /\ \/ result[c].err = "OK" /\ Finish(c, "outside")
     \/ result[c].err # "OK" /\ Operate(c, GetLock, "release:get")

-----------------------------------------------------------------------------

LockInit ==
  /\ Init
  /\ pc = [c \in Client |-> "outside"]
  /\ turns = [c \in Client |-> 0]

LockStep(c) ==
  \/ Acquire(c) \/ AcquireGot(c) \/ AcquirePut(c) \/ AcquireChecked(c)
  \/ Release(c) \/ ReleaseGot(c) \/ ReleasePut(c)

ClerkStep(c) == (Serve(c) \/ Retry(c) \/ Return(c)) /\ UNCHANGED lockVars

LockNext == \E c \in Client : LockStep(c) \/ ClerkStep(c)

LockSpec == LockInit /\ [][LockNext]_allVars

\* A client does not stop inside Acquire, Release or its critical section, and its
\* clerk's operations return.
LockFairness ==
  \A c \in Client :
    /\ WF_allVars(LockStep(c))
    /\ SF_allVars(Serve(c) /\ UNCHANGED lockVars)
    /\ SF_allVars(Return(c) /\ UNCHANGED lockVars)

FairLockSpec == LockSpec /\ LockFairness

-----------------------------------------------------------------------------

LockTypeOK ==
  /\ IsStore(store) /\ DOMAIN store \subseteq {l}
  /\ op \in [Client -> {NoOp, GetLock} \cup
               [op : {"Put"}, key : {l}, value : Client \cup {Empty}, version : Nat]]
  /\ call \in [Client -> {"none", "request", "reply"}]
  /\ reply \in [Client -> Replies]
  /\ first \in [Client -> BOOLEAN]
  /\ result \in [Client -> [err : Err, value : Value, version : Nat]]
  /\ pc \in [Client -> {"outside", "acquire:get", "acquire:put", "acquire:check", "held",
                        "release:get", "release:put"}]
  /\ turns \in [Client -> 0..Turns]

\* Two clients are never between Acquire and Release at once, however many replies to
\* their Puts are lost (lock_test.go, "two clients acquired lock").
MutualExclusion == \A c, d \in Client : pc[c] = "held" /\ pc[d] = "held" => c = d

Holder == IF l \in DOMAIN store THEN store[l].val ELSE Empty

\* The key names a client only while that client holds the lock, is about to find out
\* that it does, or is about to release it: no client waits for itself, and none leaves
\* the lock behind.
LockNotOrphaned ==
  \A c \in Client :
    Holder = c => pc[c] \notin {"outside", "acquire:get"}

\* Nobody takes the lock from the client that holds it: while c is between Acquire and
\* Release, the key keeps naming c.
HeldIsNamed == \A c \in Client : pc[c] = "held" => Holder = c

\* Every call of Acquire returns, and so does every call of Release, when the clients that
\* hold the lock release it.
EveryoneGetsTheLock ==
  \A c \in Client :
    /\ pc[c] = "acquire:get" ~> pc[c] = "held"
    /\ pc[c] = "held" ~> pc[c] = "outside"

=============================================================================
