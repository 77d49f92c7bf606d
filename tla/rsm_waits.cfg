\* One call of Submit, and a leader that stays.
SPECIFICATION FairSpec
CONSTANTS
  Server = {s1, s2}
  Call = {c1}
  None = None
  maxraftstate = 1
  MaxTerm = 1
PROPERTY SubmitReturns
\* Calls end.
CHECK_DEADLOCK FALSE
