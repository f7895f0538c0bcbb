\* One stream, so that no goroutine races with Start.
SPECIFICATION Spec
CONSTANTS
  s1 = s1
  Events = {e1}
  Streams = {s1}
  streamOf <- MCStreamOf
  batchSize = 2
  MaxRetryAttempts = 2
INVARIANTS NoCrash
