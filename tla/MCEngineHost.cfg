SPECIFICATION FairSpec
CONSTANTS
  Instances = {i1}
  Clients = {w1}
  Nil = Nil
  Wrong = Wrong
  Absent = Absent
INVARIANTS
  Consistent
  TokensReachUsers
PROPERTIES
  CloseTerminates
