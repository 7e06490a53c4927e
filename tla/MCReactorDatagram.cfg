SPECIFICATION FairSpec
CONSTANTS
  Sockets = {d1}
  Ops = {o1, o2}
  Nil = Nil
  udpReceiveQueueCapacity = 2
  udpSendQueueCapacity = 2
  MaxArrivals = 3
  MaxSends = 3
INVARIANTS
  Consistent
  DatagramIntegrity
  NoStuckOperation
PROPERTIES
  ClosingEnds
