\* One leader of two peers, two calls under way at once, services that snapshot.
SPECIFICATION MCApplySpec
CONSTANTS
  s1 = s1
  s2 = s2
  s3 = s3
  Server <- TwoServers
  Command <- Numbered
  MaxCommands = 2
  Nil = Nil
  MayTimeOut <- OnlyS1
  MayReach <- Connected
  MaxTerm = 1
  MaxIndex = 2
  MaxVoteCalls = 1
  MaxVoteReplies = 1
  MaxCalls = 2
  MaxReplies = 1
  MaySnapshot = {s1, s2}
INVARIANT ApplyTypeOK
INVARIANT ServicesAgree
INVARIANT ServiceNeverAhead
PROPERTY AppliesInOrderUncompacted
PROPERTY CommittedStaysUncompacted
VIEW ApplyView
\* The bounds stop the instance; the system itself goes on.
CHECK_DEADLOCK FALSE
