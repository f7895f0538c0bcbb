----------------------------- MODULE HealthService -----------------------------
(* PerformHealthCheck of internal/services/health_service.go: a goroutine per    *)
(* dependency checks it and sends what it found to a buffered channel, from       *)
(* which the request collects as many results as it started checks, or fewer     *)
(* if its time runs out.                                                        *)
EXTENDS Integers, Sequences, FiniteSets

CONSTANTS
  Dependencies,              \* "database", "kinesis", "connection_pool"
  HealthResultChannelBuffer,
  None

\* The channel has room for every dependency's result, so that no check waits.
HealthAssumption ==
  /\ IsFiniteSet(Dependencies) /\ HealthResultChannelBuffer \in Nat
  /\ Cardinality(Dependencies) <= HealthResultChannelBuffer
  /\ None \notin {"healthy", "unhealthy", "not_configured"}

VARIABLES
  configured,   \* the dependencies whose check is started
  check,        \* per dependency: its goroutine, "none", "sending" or "ended"
  found,        \* per dependency: what its check found
  resultsChan,  \* the channel
  collected,    \* how many results were received
  status,       \* the response's dependencies
  overall,      \* its OverallStatus
  expired,      \* the context's 10 seconds are over, or the client has gone
  answered

vars == <<configured, check, found, resultsChan, collected, status, overall, expired, answered>>

-----------------------------------------------------------------------------

\* Each check that is configured is started, the others are told at once.
Init ==
  /\ configured \in SUBSET Dependencies
  /\ check = [d \in Dependencies |-> IF d \in configured THEN "running" ELSE "none"]
  /\ found = [d \in Dependencies |-> None]
  /\ resultsChan = <<>> /\ collected = 0
  /\ status = [d \in Dependencies |-> IF d \in configured THEN None ELSE "not_configured"]
  /\ overall = "ok" /\ expired = FALSE /\ answered = FALSE

\* A ping, the description of the first named stream, or the pool's own check
\* succeeds or fails; a panic of a check is recovered and counts as a failure.
Probe(d) ==
  /\ check[d] = "running"
  /\ \E s \in {"healthy", "unhealthy"} : found' = [found EXCEPT ![d] = s]
  /\ check' = [check EXCEPT ![d] = "sending"]
  /\ UNCHANGED <<configured, resultsChan, collected, status, overall, expired, answered>>

SendResult(d) ==
  /\ check[d] = "sending" /\ Len(resultsChan) < HealthResultChannelBuffer
  /\ resultsChan' = Append(resultsChan, [dependency |-> d, status |-> found[d]])
  /\ check' = [check EXCEPT ![d] = "ended"]
  /\ UNCHANGED <<configured, found, collected, status, overall, expired, answered>>

Expected == Cardinality(configured)

ReceiveResult ==
  /\ ~answered /\ collected < Expected /\ resultsChan # <<>>
  /\ LET result == Head(resultsChan) IN
     /\ status' = [status EXCEPT ![result.dependency] = result.status]
     /\ overall' = IF result.status = "unhealthy" THEN "unhealthy" ELSE overall
  /\ resultsChan' = Tail(resultsChan)
  /\ collected' = collected + 1
  /\ UNCHANGED <<configured, check, found, expired, answered>>

Expire ==
  /\ ~expired /\ expired' = TRUE
  /\ UNCHANGED <<configured, check, found, resultsChan, collected, status, overall, answered>>

\* Mutated form: a check that was started but not heard of is left out.
TimedOut_LeftOut(d) == FALSE

\* What was configured and is not told yet is told to have timed out.
TimedOut(d) == status[d] = None

\* The select may see the end of the time although results are waiting.
GiveUp ==
  /\ ~answered /\ collected < Expected /\ expired
  /\ overall' = "unhealthy"
  /\ status' = [d \in Dependencies |-> IF TimedOut(d) THEN "unhealthy" ELSE status[d]]
  /\ answered' = TRUE
  /\ UNCHANGED <<configured, check, found, resultsChan, collected, expired>>

\* The status code is 503 if the whole is unhealthy, else 200.
Answer ==
  /\ ~answered /\ collected = Expected
  /\ answered' = TRUE
  /\ UNCHANGED <<configured, check, found, resultsChan, collected, status, overall, expired>>

Next ==
  \/ \E d \in Dependencies : Probe(d) \/ SendResult(d)
  \/ ReceiveResult \/ Expire \/ GiveUp \/ Answer

Spec == Init /\ [][Next]_vars

-----------------------------------------------------------------------------
(* Properties.                                                             *)

TypeOK ==
  /\ check \in [Dependencies -> {"none", "running", "sending", "ended"}]
  /\ Len(resultsChan) + collected = Cardinality({d \in Dependencies : check[d] = "ended"})

\* The response tells of every dependency, calls the whole unhealthy exactly if
\* it calls one of them so, and calls none healthy whose check did not find it
\* so, whichever results arrive late or never; and a check whose request gave up
\* is not left waiting for a reader.
HealthTold ==
  /\ answered =>
       /\ \A d \in Dependencies : status[d] # None /\ (status[d] = "healthy" => found[d] = "healthy")
       /\ (overall = "unhealthy") = (\E d \in Dependencies : status[d] = "unhealthy")
  /\ \A d \in Dependencies : check[d] = "sending" => Len(resultsChan) < HealthResultChannelBuffer
=============================================================================
