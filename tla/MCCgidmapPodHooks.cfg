CONSTANTS
  Pods <- MCPods
  BadUIDs <- MCBadUIDs
  Containers <- MCContainers
  MaxChanges = 4
  MaxDrops = 1
SPECIFICATION Spec
INVARIANTS AgreesWithStore
PROPERTIES Converges
\* The API server stops changing after MaxChanges changes and the handlers
\* drain their buffer: the system then rests, which is not a deadlock.
CHECK_DEADLOCK FALSE
