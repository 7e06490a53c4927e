SPECIFICATION FairSpec
CONSTANTS
  Sockets = {x1, x2}
  Ops = {o1, o2}
  CreateOps = {o1}
  MaxCreates = 2
  Kinds = {"connect", "bind", "listen"}
  Nil = Nil
INVARIANTS
  Consistent
  NoSocketLeak
  AcceptIsServed
PROPERTIES
  KeepsPromise
  CloseTerminates
