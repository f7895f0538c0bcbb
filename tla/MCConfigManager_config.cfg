SPECIFICATION Spec
CONSTANTS
  Environments0 <- MCEnvironments
  Prefixes <- MCPrefixes
  Callers = {c1}
  Subscribers = {u1}
  None = None
  MaxChanges = 2
  MaxCalls = 1
INVARIANT TypeOK
PROPERTY RestartSafe
PROPERTY Converges
PROPERTY SubscribersConverge
\* NewManager may fail; then nothing runs.
CHECK_DEADLOCK FALSE
