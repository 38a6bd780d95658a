\* One resolution per initial state; the model stops once it is done.
CONSTANTS
  NoType = NoType
  MaxBTFArgDepth = 5
  Types <- MCTypes
  BTF <- MCBTF
  Requests <- MCRequests
SPECIFICATION Spec
INVARIANTS
  TypeOK
PROPERTIES
  ImplementsPathSpec
CHECK_DEADLOCK FALSE
