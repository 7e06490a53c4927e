SPECIFICATION Spec
CONSTANTS
  Cores = {k1, k2}
  Kinds = {1, 7, 8}
  PacketLengths = {1}
  StreamWires <- MCStreamWires
  BindWires <- MCBindWires
  GuestABI <- MCGuestABI
  Memory = 3
  MaxOperations = 1
  MaxRefusals = 1
  Wrong = Wrong
SYMMETRY Symmetry
INVARIANTS
  Consistent
  NothingLost
CHECK_DEADLOCK FALSE
