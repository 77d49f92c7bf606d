\* Two clients: two turns with the lock each, or two calls of OnePut each.
SPECIFICATION ProgramSpec
CONSTANTS
  c1 = c1
  c2 = c2
  free = free
  l = l
  k = k
  Client <- TwoClients
  Key = {l, k}
  Value <- Ids
  Empty = free
  Version = {}
  Turns = 2
  Puts = 2
INVARIANT MutualExclusion
INVARIANT HeldIsNamed
INVARIANT LockNotOrphaned
INVARIANT PutsCounted
INVARIANT ReadsOwnPut
PROPERTY EveryoneGetsTheLock
\* Every client stops after its turns.
CHECK_DEADLOCK FALSE
