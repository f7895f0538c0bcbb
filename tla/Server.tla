-------------------------------- MODULE Server --------------------------------
(* The parts of a server that share no state, for their safety: the circuit     *)
(* breaker (whose names this module has as its own), the rate limiters, the     *)
(* handlers of telemetry, the health check, the answers to failing requests,    *)
(* the database monitor, the secrets manager, and the migrations of the         *)
(* database.  Steps of two of them commute, so a behaviour runs one part, its   *)
(* focus, and leaves the others as they start.  The constants are left open:    *)
(* MCServer gives them values.                                                  *)
EXTENDS CircuitBreaker

CONSTANTS
  None,
  \* of the rate limiters
  Handlers, Routes, Limiters, defaultConfig, Configs, Headers, maxIdleTime, callTime,
    Observed, MaxTime, MaxBuckets, MaxConfigs,
  \* of the handlers of telemetry
  Requests, Offers, Tenants, Environment, StreamSetups, Burst, MaxConcurrentRequests,
    MaxAttempts, MaxRefills, MaxFailures,
  \* of the health check
  Dependencies, HealthResultChannelBuffer,
  \* of the answers to failing requests
  Failing, Codes, Slots,
  \* of the database monitor
  Queriers, Ids, Processes, Tables,
  \* of the migrations
  Runners, Files, MaxRuns,
  \* of the secrets manager
  Procs, Users, ProcOf, Tools, Keys, Configurations, Commands, MaxWrites, MaxMishaps

VARIABLES
  focus,
  now, buckets, limiters, lastUsed, tenantConfigs, call, watching, credit, settings,
  streams, resilient, closed, dlq, offer, pc, at, rejected, dropped, copies, answer,
    attempts, concurrentRequests, tokens, refills, failures,
  configured, check, found, resultsChan, collected, status, overall, expired, answered,
  step, raised, err, code, pooled, pointers, sent,
  query, processes, tables, currentQueries, tableSizeCache, loop, activeQueries, stop, stopped,
  runs, stage, applied, version, statement, objects, recorded, executed,
  conf, aws, rotating, file, env, lock, cache, job, writes, mishaps, ledger

rateVars    == <<now, buckets, limiters, lastUsed, tenantConfigs, call, watching, credit, settings>>
ingestVars  == <<streams, resilient, closed, dlq, offer, pc, at, rejected, dropped, copies, answer,
                 attempts, concurrentRequests, tokens, refills, failures>>
healthVars  == <<configured, check, found, resultsChan, collected, status, overall, expired, answered>>
errorVars   == <<step, raised, err, code, pooled, pointers, sent>>
monitorVars == <<query, processes, tables, currentQueries, tableSizeCache, loop, activeQueries, stop, stopped>>
migrateVars == <<runs, stage, applied, version, statement, objects, recorded, executed>>
secretsVars == <<conf, aws, rotating, file, env, lock, cache, job, writes, mishaps, ledger>>
partVars    == <<vars, rateVars, ingestVars, healthVars, errorVars, monitorVars, migrateVars, secretsVars>>

-----------------------------------------------------------------------------
(* The parts.                                                              *)

Rate    == INSTANCE RateLimiter WITH Calls <- Handlers, Requests <- Routes
Ingest  == INSTANCE Ingestion
Health  == INSTANCE HealthService
Errors  == INSTANCE ErrorHandler WITH pc <- step, answer <- sent, Requests <- Failing
Monitor == INSTANCE DatabaseMonitor WITH Callers <- Queriers
Migrate == INSTANCE Migrations WITH pc <- stage
Secrets == INSTANCE SecretsManager WITH failures <- mishaps, MaxFailures <- MaxMishaps

\* What these parts ask of their constants.
ASSUME InstancesAssumption ==
  /\ Rate!RefillAssumption /\ Rate!ChainsAssumption /\ Ingest!IngestionAssumption /\ Health!HealthAssumption
  /\ Errors!ErrorAssumption /\ Monitor!MonitorAssumption
  /\ Migrate!MigrationsAssumption /\ Secrets!SecretsAssumption

-----------------------------------------------------------------------------
ServerInit ==
  /\ focus \in {"breaker", "rate", "ingest", "health", "errors", "monitor", "migrate", "secrets"}
  /\ Init /\ Rate!Init /\ Ingest!Init /\ Health!Init
  /\ Errors!Init /\ Monitor!Init /\ Migrate!Init /\ Secrets!Init

ServerNext ==
  \/ /\ focus = "breaker" /\ Next
     /\ UNCHANGED <<focus, rateVars, ingestVars, healthVars, errorVars, monitorVars, migrateVars, secretsVars>>
  \/ /\ focus = "rate" /\ Rate!Next
     /\ UNCHANGED <<focus, vars, ingestVars, healthVars, errorVars, monitorVars, migrateVars, secretsVars>>
  \/ /\ focus = "ingest" /\ Ingest!Next
     /\ UNCHANGED <<focus, vars, rateVars, healthVars, errorVars, monitorVars, migrateVars, secretsVars>>
  \/ /\ focus = "health" /\ Health!Next
     /\ UNCHANGED <<focus, vars, rateVars, ingestVars, errorVars, monitorVars, migrateVars, secretsVars>>
  \/ /\ focus = "errors" /\ Errors!Next
     /\ UNCHANGED <<focus, vars, rateVars, ingestVars, healthVars, monitorVars, migrateVars, secretsVars>>
  \/ /\ focus = "monitor" /\ Monitor!Next
     /\ UNCHANGED <<focus, vars, rateVars, ingestVars, healthVars, errorVars, migrateVars, secretsVars>>
  \/ /\ focus = "migrate" /\ Migrate!Next
     /\ UNCHANGED <<focus, vars, rateVars, ingestVars, healthVars, errorVars, monitorVars, secretsVars>>
  \/ /\ focus = "secrets" /\ Secrets!Next
     /\ UNCHANGED <<focus, vars, rateVars, ingestVars, healthVars, errorVars, monitorVars, migrateVars>>

ServerSpec == ServerInit /\ [][ServerNext]_<<focus, partVars>>

-----------------------------------------------------------------------------
(* Properties: those of the breaker under their own names, and these.       *)

\* The type invariants of all parts.
TypesOK ==
  /\ TypeOK /\ Rate!TypeOK /\ Ingest!TypeOK /\ Health!TypeOK
  /\ Errors!TypeOK /\ Monitor!TypeOK /\ Migrate!TypeOK /\ Secrets!TypeOK

\* No limiter admits more calls of a client than its burst and rate allow.
RateKept == Rate!RateKept

\* A client that is told it succeeded has lost nothing it was not told of, but
\* what the metric and log services only log.
SuccessIsTrue == Ingest!SuccessIsTrue

\* One attempt of a client hands an item over at most once.
OncePerAttempt == Ingest!OncePerAttempt

\* A health response tells the truth of every dependency.
HealthTold == Health!HealthTold

\* No request is answered with another one's error.
OwnError == Errors!OwnError

\* A query that has ended is not listed as running.
NothingEndedIsListed == Monitor!NothingEndedIsListed

\* A migration is recorded only when all of it was executed, in its order.
RecordedWasRun == Migrate!RecordedWasRun

\* Between its own finished commands a manager answers what its providers hold.
Coherent == Secrets!Coherent

\* The secrets file holds what was stored in it.
FileKept == Secrets!FileKept
=============================================================================
