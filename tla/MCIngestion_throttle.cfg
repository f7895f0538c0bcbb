\* The bucket of the tenant holds three tokens; the two items take two each.
SPECIFICATION Spec
CONSTANTS
  Requests = {r1}
  Offers <- MCOffers
  Tenants = {"t"}
  Environment = "local"
  StreamSetups <- MCStreams
  Burst = 3
  MaxConcurrentRequests = 1
  None = None
  MaxAttempts = 1
  MaxRefills = 0
  MaxFailures = 0
INVARIANT LimiterSkipsItems
\* The request is answered in the end.
CHECK_DEADLOCK FALSE
