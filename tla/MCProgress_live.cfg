\* A batch of two, so that a single event never asks for a flush; three concurrent
\* calls of the breaker.
SPECIFICATION MCSpec
CONSTANTS
  e1 = e1
  e2 = e2
  e3 = e3
  t1 = t1
  w1 = w1
  c1 = c1
  c2 = c2
  c3 = c3
  None = None
  Events = {e1, e2, e3}
  Tenants = {t1}
  Workers = {w1}
  tenantOf <- MCTenantOf
  maxBatchSize = 2
  maxTenantBuffer = 2
  JobQueueSize = 1
  Publications = {e1, e2, e3}
  Outlets = {t1}
  streamOf <- MCTenantOf
  batchSize = 2
  MaxRetryAttempts = 2
  Inlets = {"logs"}
  MaxRecords <- MCMaxRecords
  MaxStarts = 2
  MaxOpenConns = 1
  MaxOutages = 1
  Calls = {c1, c2, c3}
  MaxRequests = 2
  Interval = 1
  Timeout = 2
  ReadyToTrip <- MCReadyToTrip
  MaxGeneration = 5
  MaxCount = 4
  Work = {c1, c2}
  MaxSignals = 2
INVARIANTS TypesOK OpenWhileServed
PROPERTIES KeepsItsPromise BufferDrains EventuallyRead BreakerRecovers ShutdownCompletes BatchesFlushed
\* A process may stay down, and one that was stopped ends.
CHECK_DEADLOCK FALSE
