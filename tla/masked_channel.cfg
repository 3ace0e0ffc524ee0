SPECIFICATION Spec
CONSTANTS
  TotalSize = 3
  MaskSize = 2
  Word = 7
  DataLen = 5
  MaskTotal = 7
  Requests <- MCRequests
  MaskRequests <- MCMaskRequests
INVARIANTS
  MaskInStep
PROPERTIES
  ImplementsRecodeXor
  AllJoin
