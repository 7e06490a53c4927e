SPECIFICATION FairSpec
CONSTANTS
  Streams = {s1}
  Ops = {o1, o2}
  ReadOps = {o1, o2}
  WriteOps = {o1}
  Slots = {0, 1}
  Nil = Nil
  Capacities = {1, 2}
  MaxBytes = 2
INVARIANTS
  Inv
  StreamIntegrity
  NoStuckRead
  NoLostWakeup
PROPERTIES
  ClosingEnds
