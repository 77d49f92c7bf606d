\* s1 and s3 contest the first of four terms and then lead in turn; peers crash at will.
SPECIFICATION CrashSpec
CONSTANTS
  s1 = s1
  s2 = s2
  s3 = s3
  Server <- ThreeServers
  Command <- Numbered
  MaxCommands = 2
  Nil = Nil
  MayTimeOut <- ContestedTurns
  MayReach <- S2CutOff
  MaxTerm = 4
  MaxIndex = 1
  MaxVoteCalls = 2
  MaxVoteReplies = 1
  MaxCalls = 1
  MaxReplies = 1
  MaySnapshot = {}
INVARIANT CommittedIsDurable
INVARIANT DiskIsCurrent
INVARIANT ElectionSafety
INVARIANT StateMachineSafety
PROPERTY VoteOncePerTerm
VIEW View
\* The bounds stop the instance; the system itself goes on.
CHECK_DEADLOCK FALSE
