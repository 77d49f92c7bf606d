\* Five shards and four groups: counts that divide evenly and that do not.
SPECIFICATION FairSpec
CONSTANTS
  NShards = 5
  Gid = {1, 2, 3, 4}
  MaxNum = 3
  MaxGids = 2
INVARIANT EvenAfterSuccess
INVARIANT JoinMovesLittle
INVARIANT LeaveMovesLittle
PROPERTY RebalanceEnds
\* MaxNum configurations are made.
CHECK_DEADLOCK FALSE
