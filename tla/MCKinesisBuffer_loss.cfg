\* A full buffer of two events, flushed as two batches, the first of which fails.
SPECIFICATION Spec
CONSTANTS
  e1 = e1
  e2 = e2
  e3 = e3
  e4 = e4
  t1 = t1
  t2 = t2
  Events = {e1, e2, e3}
  Tenants = {t1}
  Workers = {w1}
  tenantOf <- MCTenantOf
  maxBatchSize = 1
  maxTenantBuffer = 2
  JobQueueSize = 1
INVARIANTS NoDataLoss
