SPECIFICATION FairSpec
CONSTANTS
  OperationCalls = {c1, c2}
  RPCCalls = {r1}
  Together = {{c1, c2}, {c1, r1}}
  dataPlaneCompletionBatch = 1
  None = None
INVARIANTS
  Consistent
  NothingIsAbandoned
PROPERTIES
  CallsReturn
