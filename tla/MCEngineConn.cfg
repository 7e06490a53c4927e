SPECIFICATION FairSpec
CONSTANTS
  c1 = c1
  c2 = c2
  c3 = c3
  Calls = {c1, c2, c3}
  Roles <- MCRoles
  Kinds = {"stream", "packet", "datagram", "listener"}
  Lengths = {1, 2}
  maxDataPlaneTransfer = 1
  MaxItems = 2
  Nil = Nil
  Millisecond = 3
  MaxUint64 = MaxUint64
  NoDeadline = NoDeadline
INVARIANTS
  Consistent
  BytesAreExact
PROPERTIES
  CallsReturn
CHECK_DEADLOCK FALSE
