\* The dead letter queue has one caller, as StartRetryProcessor would be, and a
\* local buffer of one; of its three events one has a message that decodes.
SPECIFICATION DeliverySpec
CONSTANTS
  e1 = e1
  e2 = e2
  e3 = e3
  e4 = e4
  s1 = s1
  s2 = s2
  Events = {e1, e2, e3}
  Decodable = {e1}
  Callers = {p1}
  localBufferSize = 1
  maxRetries = 2
  Publications = {e1, e2, e3, e4}
  Outlets = {s1, s2}
  streamOf <- MCStreamOf
  batchSize = 2
  MaxRetryAttempts = 2
  Inlets = {"traces", "metrics"}
  MaxRecords <- MCMaxRecords
  MaxStarts = 2
  MaxOpenConns = 2
  MaxOutages = 1
SYMMETRY SymmetricEvents
INVARIANTS TypesOK Custody ExhaustedAfterRetries
INVARIANTS BatchCustody InOrder CleanStop Accounted  Duplicates
\* A crash ends the process, and it may stay down.
CHECK_DEADLOCK FALSE
