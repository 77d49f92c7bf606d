---------------------------- MODULE OneClientPut ----------------------------
(***************************************************************************)
(* kvtest1: clients that race to put values to one key, the program with   *)
(* which the tests of kvsrv1 and kvraft1 load the service, and what it     *)
(* checks on the way (OnePut) and at the end (CheckPutConcurrent).         *)
(***************************************************************************)
EXTENDS KVClerk, Functions

CONSTANTS k,      \* the key
          Puts    \* how many calls of OnePut a client makes before it is told to stop

ASSUME PutsAssumption == k \in Key /\ Puts \in Nat

VARIABLES doing,   \* doing[c]: "idle" between two calls of OnePut, or its "put" or "get"
          ver,     \* ver[c]: verm[k]
          err,     \* err[c]: what the Put of OnePut returned
          Nok,     \* ClntRes
          Nmaybe

putVars == <<doing, ver, err, Nok, Nmaybe>>

EntryV(id, v) == [Id |-> id, V |-> v]

\* PutJson and GetJson begin.
PutJson(c, v) ==
  /\ Invoke(c, [op |-> "Put", key |-> k, value |-> EntryV(c, v), version |-> v])
  /\ doing' = [doing EXCEPT ![c] = "put"]
GetJson(c) ==
  /\ Invoke(c, [op |-> "Get", key |-> k])
  /\ doing' = [doing EXCEPT ![c] = "get"]

\* The clerk's operation has returned.
Back(c, from) == doing[c] = from /\ call[c] = "none"

OnePut(c) ==
  /\ Back(c, "idle") /\ Nok[c] + Nmaybe[c] < Puts
  /\ PutJson(c, ver[c])
  /\ UNCHANGED <<ver, err, Nok, Nmaybe>>

HasPut(c) ==
  /\ Back(c, "put")
  /\ err' = [err EXCEPT ![c] = result[c].err]
  /\ GetJson(c)
  /\ UNCHANGED <<ver, Nok, Nmaybe>>

\* Put again with the version that Get returned, or done.
HasGot(c) ==
  /\ Back(c, "get")
  /\ ver' = [ver EXCEPT ![c] = result[c].version]
  /\ \/ /\ err[c] \notin {"OK", "ErrMaybe"}
        /\ PutJson(c, result[c].version)
        /\ UNCHANGED <<Nok, Nmaybe>>
     \/ /\ err[c] = "OK"
        /\ Nok' = [Nok EXCEPT ![c] = @ + 1]
        /\ doing' = [doing EXCEPT ![c] = "idle"]
        /\ UNCHANGED <<vars, Nmaybe>>
     \/ /\ err[c] = "ErrMaybe"
        /\ Nmaybe' = [Nmaybe EXCEPT ![c] = @ + 1]
        /\ doing' = [doing EXCEPT ![c] = "idle"]
        /\ UNCHANGED <<vars, Nok>>
  /\ UNCHANGED err

-----------------------------------------------------------------------------

PutInit ==
  /\ Init
  /\ doing = [c \in Client |-> "idle"]
  /\ ver = [c \in Client |-> 0]
  /\ err = [c \in Client |-> "OK"]
  /\ Nok = [c \in Client |-> 0] /\ Nmaybe = [c \in Client |-> 0]

PutNext ==
  \E c \in Client :
    \/ OnePut(c) \/ HasPut(c) \/ HasGot(c)
    \/ (Serve(c) \/ Retry(c) \/ Return(c)) /\ UNCHANGED putVars

PutSpec == PutInit /\ [][PutNext]_<<vars, putVars>>

-----------------------------------------------------------------------------

Total(count) == FoldFunction(+, 0, count)

\* Between two calls of OnePut of all clients the key has had every Put that returned OK
\* and, of the others, at most those that returned ErrMaybe: the Puts that returned
\* ErrVersion were never made (CheckPutConcurrent, "Wrong number of puts").
PutsCounted ==
  (\A c \in Client : doing[c] = "idle") =>
    KvState(store, k).version \in Total(Nok)..Total(Nok) + Total(Nmaybe)

\* What a client that put the next version of the key reads back at that version is its
\* own entry, and no Put or Get returns an error that OnePut does not expect ("Wrong
\* value", "Wrong error").
ReadsOwnPut ==
  \A c \in Client :
    /\ Back(c, "put") => result[c].err \in {"OK", "ErrVersion", "ErrMaybe"}
    /\ Back(c, "get") =>
         /\ result[c].err = "OK"
         /\ err[c] = "OK" /\ result[c].version = ver[c] + 1
              => result[c].value = EntryV(c, ver[c])

=============================================================================
