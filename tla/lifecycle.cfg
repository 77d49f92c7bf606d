\* Three servers, one of them restarted twice; two calls to a server restarted twice.
SPECIFICATION TestSpec
CONSTANTS
  Req = {c1, c2}
  MaxInstance = 3
  N = 3
  Restarts <- OneRestarts
INVARIANT AckedIsPersisted
INVARIANT CutOffClient
INVARIANT LinksAsAsked
PROPERTY PersistedStays
PROPERTY CallsReturn
\* The last instance is shut down.
CHECK_DEADLOCK FALSE
