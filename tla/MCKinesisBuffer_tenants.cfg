\* Two tenants: three events for one, whose buffer fills at two, and one for the
\* other; a full buffer takes two batches to flush.
SPECIFICATION Spec
CONSTANTS
  e1 = e1
  e2 = e2
  e3 = e3
  e4 = e4
  t1 = t1
  t2 = t2
  Events = {e1, e2, e3, e4}
  Tenants = {t1, t2}
  Workers = {w1}
  tenantOf <- MCTenantOf
  maxBatchSize = 1
  maxTenantBuffer = 2
  JobQueueSize = 1
SYMMETRY SymmetricEvents
INVARIANTS TypeOK SingleCustody AnswerIsTrue FinalFlush
