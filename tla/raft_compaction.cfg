\* s1 then s3 leads, s3 compacts its log and installs its snapshot in the others.
SPECIFICATION CompactionSpec
CONSTANTS
  s1 = s1
  s2 = s2
  s3 = s3
  Server <- ThreeServers
  Command <- Numbered
  MaxCommands = 3
  Nil = Nil
  MayTimeOut <- TakingTurns
  MayReach <- Connected
  MaxTerm = 2
  MaxIndex = 2
  MaxVoteCalls = 2
  MaxVoteReplies = 1
  MaxCalls = 1
  MaxReplies = 1
  MaySnapshot = {s3}
INVARIANT IndexesInRange
INVARIANT TermsAscend
INVARIANT StateMachineSafety
VIEW View
\* The bounds stop the instance; the system itself goes on.
CHECK_DEADLOCK FALSE
