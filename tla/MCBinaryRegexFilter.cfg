CONSTANTS
  Nil = Nil
  Binaries <- MCBinaries
  Regex <- MCRegex
  Requests <- MCRequests
SPECIFICATION Spec
INVARIANTS FilterKeepsPromise
\* One filter is built and applied once: the final state rests.
CHECK_DEADLOCK FALSE
