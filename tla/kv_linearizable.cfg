\* Two clerks on one key: of one server, with versions of the past and of the future; of
\* two replicated servers, with four RPCs.
SPECIFICATION EitherSpec
CONSTANTS
  Client = {c1, c2}
  Key = {k1}
  Value = {x, y}
  Empty = x
  Version = {0, 1, 2}
  Servers = 2
  MaxRPC = 4
PROPERTY Linearizable
SYMMETRY ClientSymmetry
\* The clerks of kvraft1 stop after MaxRPC.
CHECK_DEADLOCK FALSE
