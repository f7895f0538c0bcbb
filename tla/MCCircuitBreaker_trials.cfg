\* The settings of TestCircuitBreakerHalfOpenState: one trial, two failures to
\* trip.  The one trial may fail.
SPECIFICATION FairSpec
CONSTANTS
  Calls = {c1, c2}
  MaxRequests = 1
  Interval = 0
  Timeout = 1
  MaxGeneration = 5
  MaxCount = 3
  TripAfter = 1
  ReadyToTrip <- ConsecutiveTrip
PROPERTIES HalfOpenSettles
