-------------------------- MODULE MCCircuitBreaker --------------------------
(* Instances of CircuitBreaker for TLC, with the default trip condition.   *)
EXTENDS CircuitBreaker

CONSTANT TripAfter   \* consecutive failures tolerated (5 in the program)

\* The default of NewCircuitBreaker.
ConsecutiveTrip(counts) == counts.ConsecutiveFailures > TripAfter
=============================================================================
