-------------------------- MODULE MCConfigManager --------------------------
(* An instance of ConfigManager.  The smallest environment that loads names *)
(* a bucket and turns tracing off; the others add a setting each, in the   *)
(* layers of two providers.                                                *)
EXTENDS ConfigManager, TLC

Minimal   == [S3_BUCKET |-> Word("bucket"), MONITORING_ENABLE_TRACING |-> Flag(FALSE)]
Versioned == Minimal @@ [APP_VERSION |-> Version("1.2.3")]
\* The port of the HTTP server: each section accepts it, the whole does not.
Clashing  == Versioned @@ [MONITORING_METRICS_PORT |-> Number(8080)]

MCEnvironments == {Minimal, Versioned, Clashing}

MCPrefixes == <<DOMAIN s3Fields \cup DOMAIN monitoringFields,
                DOMAIN appFields \cup DOMAIN httpFields>>
=============================================================================
