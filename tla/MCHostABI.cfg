SPECIFICATION Spec
CONSTANTS
  Ops = {o1, o2}
  Items = {x1, x2}
  Platform = "unix"
  Nil = Nil
  Wrong = Wrong
  Absent = Absent
SYMMETRY Symmetry
CHECK_DEADLOCK FALSE
INVARIANTS
  Consistent
  NothingLost
