SPECIFICATION FairSpec
CONSTANTS
  Sinks = {s1}
  Ops = {o1, o2}
  Receivers = {r1, r2, r3}
  capacity = 2
  MaxPackets = 4
  Nil = Nil
INVARIANTS
  Consistent
  NobodyIsForgotten
PROPERTIES
  ReceiversReturn
