SPECIFICATION Spec
CONSTANTS
  Environments0 <- MCEnvironments
  Prefixes <- MCPrefixes
  Callers = {}
  Subscribers = {}
  None = None
  MaxChanges = 2
  MaxCalls = 0
PROPERTY SnapshotImmutable
\* NewManager may fail; then nothing runs.
CHECK_DEADLOCK FALSE
