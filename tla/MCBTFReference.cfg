\* The requests of testAssertEqualPath; the model stops once each is done.
CONSTANTS
  NoType = NoType
  MaxBTFArgDepth = 5
  Types <- MCTypes
  BTF <- MCBTF
  Requests <- EqualPathRequests
SPECIFICATION RefSpec
INVARIANT ReferenceAgrees
CHECK_DEADLOCK FALSE
