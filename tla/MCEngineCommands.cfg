SPECIFICATION FairSpec
CONSTANTS
  PacketCalls = {p1, p2}
  StartCalls = {a1}
  StopCalls = {b1}
  queueCapacity = 2
  maximumPacketIngressBatch = 2
  Nil = Nil
INVARIANTS
  Consistent
  BorrowHolds
PROPERTIES
  CommandsReturn
