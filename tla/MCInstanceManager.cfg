SPECIFICATION FairSpec
CONSTANTS
  WebIds = {w1}
  AppIds = {u1}
  Objects = {1, 2}
  Requests = {1, 2}
  CloseCalls = 1
  Nil = Nil
  Unset = Unset
  Refused = Refused
CHECK_DEADLOCK FALSE
INVARIANTS
  Consistent
  SavedIsEffective
  EntriesAreAlive
PROPERTIES
  RequestsEnd
