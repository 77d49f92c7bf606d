\* One leader, logs of three entries, a late reply.
SPECIFICATION MCApplySpec
CONSTANTS
  s1 = s1
  s2 = s2
  s3 = s3
  Server <- TwoServers
  Command <- Numbered
  MaxCommands = 3
  Nil = Nil
  MayTimeOut <- OnlyS1
  MayReach <- Connected
  MaxTerm = 1
  MaxIndex = 3
  MaxVoteCalls = 1
  MaxVoteReplies = 1
  MaxCalls = 1
  MaxReplies = 2
  MaySnapshot = {s1, s2}
PROPERTY AppliesInOrder
VIEW ApplyView
\* The bounds stop the instance; the system itself goes on.
CHECK_DEADLOCK FALSE
