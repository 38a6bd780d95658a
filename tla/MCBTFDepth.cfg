\* Over-deep paths through buildPathFromString; the model stops once done.
CONSTANTS
  NoType = NoType
  MaxBTFArgDepth = 5
  Types <- MCTypes
  BTF <- MCBTF
  Requests <- MCRequests
SPECIFICATION Spec
INVARIANT NoPartialWriteOnDepth
CHECK_DEADLOCK FALSE
