\* Every peer leads once, logs of two entries; the first leader is cut off from s2.
SPECIFICATION ReplicationSpec
CONSTANTS
  s1 = s1
  s2 = s2
  s3 = s3
  Server <- ThreeServers
  Command <- TwoEach
  MaxCommands = 3
  Nil = Nil
  MayTimeOut <- EachOnce
  MayReach <- S2CutOff
  MaxTerm = 3
  MaxIndex = 2
  MaxVoteCalls = 2
  MaxVoteReplies = 1
  MaxCalls = 1
  MaxReplies = 1
  MaySnapshot = {}
INVARIANT LogMatching
INVARIANT LeaderCompleteness
INVARIANT BackupProgress
INVARIANT MatchIndexIsSound
VIEW View
\* The bounds stop the instance; the system itself goes on.
CHECK_DEADLOCK FALSE
