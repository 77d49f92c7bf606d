\* Two servers, three elections, two calls of Submit, with fair callers.
SPECIFICATION CallersSpec
CONSTANTS
  c1 = c1
  c2 = c2
  s1 = s1
  s2 = s2
  Server = {s1, s2}
  Call = {c1, c2}
  None = None
  maxraftstate = 1
  MaxTerm = 3
INVARIANT ReplicasAgree
PROPERTY KeepsPromise
PROPERTY SubmitNotices
\* Calls end.
CHECK_DEADLOCK FALSE
