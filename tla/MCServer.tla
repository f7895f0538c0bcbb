------------------------------- MODULE MCServer -------------------------------
(* Small instances of the parts of Server for TLC.                              *)
EXTENDS Server, SecretsSetup

CONSTANTS TripAfter, g1, g2, r1, r2, r3, api, tool

-----------------------------------------------------------------------------
(* The circuit breaker and the rate limiters.                              *)

\* The default of NewCircuitBreaker.
ConsecutiveTrip(counts) == counts.ConsecutiveFailures > TripAfter

\* Two requests of one tenant pass the router's limiter, and some the route's.
MCRoutes   == {<<"rest", "GET health", FALSE>>, <<"rest", "GET traces", FALSE>>}
MCLimiters == {<<"rest">>, <<"rest", "GET traces">>}
MCDefault  == [l \in MCLimiters |-> [rate |-> 2, burst |-> IF Len(l) = 1 THEN 2 ELSE 1]]
MCConfigs  == {[rate |-> 3, burst |-> 3]}
MCHeaders  == {[tenant |-> "t", apiKey |-> None, address |-> "a"]}
MCObserved == << <<"rest">>, <<"tenant", "t">> >>

-----------------------------------------------------------------------------
(* The handlers of telemetry, the migrations and the health check.         *)

\* A request that is buffered whole, one with an empty item, and so on; the
\* bucket of the tenant holds a token less than the two requests take.
Item(empty) == [tenant |-> "t", empty |-> empty]
Offer(path, items, sound) == [path |-> path, kind |-> "logs", items |-> items, sound |-> sound]
MCOffers ==
  {Offer("trace", <<Item(FALSE), Item(FALSE)>>, TRUE),
   Offer("trace", <<Item(TRUE), Item(FALSE)>>, TRUE),
   Offer("logs", <<Item(FALSE), Item(TRUE)>>, TRUE),
   Offer("metrics", <<Item(FALSE)>>, FALSE),
   Offer("http", <<Item(FALSE)>>, TRUE),
   Offer("http", <<Item(FALSE)>>, FALSE)}

Kinds == {"traces", "metrics", "logs"}
MCSetups ==
  {[k \in Kinds |-> "named"], [k \in Kinds |-> "unnamed"],
   [k \in Kinds |-> IF k = "logs" THEN "missing" ELSE "named"]}

\* One migration that makes a table, and one that replaces an index.
MCFiles ==
  << <<[kind |-> "create", object |-> "spans"]>>,
     <<[kind |-> "drop", object |-> "index"], [kind |-> "add", object |-> "index"]>> >>

-----------------------------------------------------------------------------
(* The secrets manager.                                                    *)

password == "CLICKHOUSE_PASSWORD"
redis    == "REDIS_PASSWORD"
MCKeys   == {password, redis}

\* A server with two goroutines beside the command line tool: both on AWS, or with
\* the tool's local environment both on the secrets file.
MCProcOf == [u \in Users |-> IF u = r3 THEN tool ELSE api]
EnvironmentOf(provider) == [provider |-> provider, settings |-> {provider}]
MCPlaces ==
  {[p \in Procs |->
      IF p = api THEN NewSecretsIntegration(place[1])
      ELSE initializeManager("", EnvironmentOf(place[2]))] :
    place \in {<<"staging", "aws">>, <<"dev", "file">>}}

Definitions == {[key |-> password, required |-> TRUE, envs |-> {}],
                [key |-> redis, required |-> TRUE, envs |-> {"production"}]}

MCCommands ==
  [u \in Users |->
     CASE u = g1 -> {GetSecret(password), CliSet(redis, "file")}
       [] u = g2 -> {SetSecret(password), CliSet(password, "env"), CliDelete(password, ""),
                     CliDelete(password, "file"), RotateSecret(password),
                     Command("refresh", <<password>>, "")}
       [] u = r3 -> {CliInit(Definitions, "staging", "aws"), CliSet(password, "file")}]

-----------------------------------------------------------------------------

\* Of a part that is out of focus one initial state will do.
MCInit ==
  /\ ServerInit
  /\ focus = "ingest" \/ (resilient /\ dlq /\ streams["logs"] = "named")
  /\ focus = "health" \/ configured = {}
  /\ focus = "secrets" \/ conf[api] = NewSecretsIntegration("dev")

MCSpec == MCInit /\ [][ServerNext]_<<focus, partVars>>
=============================================================================
