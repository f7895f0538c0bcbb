----------------------------- MODULE SecretsSetup -----------------------------
(* What the server (internal/config/secrets_integration.go) and the command *)
(* line tool (cmd/secrets/main.go) make of the secrets manager: which        *)
(* providers it is set up with, and which operations each command performs   *)
(* on which secrets.                                                         *)
EXTENDS Sequences, SequencesExt

\* An operation: what it does with each of its keys, in turn, at a provider.
Command(op, keys, prov) == [op |-> op, keys |-> keys, prov |-> prov]

\* Providers in order of priority; the environment is always one of them.
Priority == <<"aws", "vault", "file", "env">>
NewManager(configured) == SelectSeq(Priority, LAMBDA p : p \in configured \cup {"env"})

\* What SetSecret, DeleteSecret and RotateSecret use if no provider is named.
DefaultProvider == "aws"

-----------------------------------------------------------------------------
(* The server.                                                             *)

Deployed    == {"production", "prod", "staging"}
Development == {"local", "local-docker", "dev"}

NewSecretsIntegration(env) == NewManager(IF env \in Deployed THEN {"aws"} ELSE {"file"})

getRequiredSecretsForEnvironment(env) ==
  LET base    == <<"CLICKHOUSE_PASSWORD", "REDIS_PASSWORD">>
      signing == <<"JWT_SECRET", "AWS_ACCESS_KEY_ID", "AWS_SECRET_ACCESS_KEY">>
  IN  CASE env \in {"production", "prod"} ->
             base \o signing \o <<"TLS_CERT_FILE", "TLS_KEY_FILE", "CLICKHOUSE_USERNAME">>
        [] env = "staging" -> base \o signing \o <<"CLICKHOUSE_USERNAME">>
        [] env \in {"local", "local-docker"} -> <<>>
        [] OTHER -> base

\* The secrets that have a default for development.
generateDevDefault == {"CLICKHOUSE_PASSWORD", "REDIS_PASSWORD", "JWT_SECRET", "AWS_ACCESS_KEY_ID",
                       "AWS_SECRET_ACCESS_KEY", "CLICKHOUSE_USERNAME"}

\* Each required secret that is missing gets its default; without one, or in a
\* deployed environment, where that is an error, it is only looked for.
InitializeSecretsForEnvironment(env) ==
  LET required == getRequiredSecretsForEnvironment(env)
  IN  IF env \in Development
      THEN Command("init", SelectSeq(required, LAMBDA k : k \in generateDevDefault), DefaultProvider)
      ELSE Command("get", required, "")

ValidateRequiredSecrets(env) == Command("get", getRequiredSecretsForEnvironment(env), "")
GetSecret(k)    == Command("get", <<k>>, "")
SetSecret(k)    == Command("set", <<k>>, DefaultProvider)
RotateSecret(k) == Command("rotate", <<k>>, DefaultProvider)

-----------------------------------------------------------------------------
(* The tool.                                                               *)

\* The flag --provider overrides the provider of the environment, which must
\* have settings for it: otherwise only the environment variables are left.
initializeManager(flag, environment) ==
  LET name == IF flag # "" THEN flag ELSE environment.provider
  IN  NewManager({name} \cap environment.settings)

\* A definition is required where its list of environments says so, if it has one.
IsRequired(def, env) ==
  IF def.envs # {} THEN env \in def.envs ELSE def.required

RequiredKeys(defs, env) == SetToSeq({def.key : def \in {d \in defs : IsRequired(d, env)}})

\* set, init and import hand the flag on as it is: an empty one names no provider.
CliGet(k)               == Command("get", <<k>>, "")
CliSet(k, flag)         == Command("set", <<k>>, flag)
CliImport(keys, flag)   == Command("set", keys, flag)
CliInit(defs, env, flag) == Command("init", RequiredKeys(defs, env), flag)
CliValidate(defs, env)  == Command("get", RequiredKeys(defs, env), "")
CliExport(defs)         == Command("get", SetToSeq({d.key : d \in defs}), "")

\* delete and rotate leave an empty flag out.
CliDelete(k, flag) == Command("delete", <<k>>, IF flag # "" THEN flag ELSE DefaultProvider)
CliRotate(k, flag) == Command("rotate", <<k>>, IF flag # "" THEN flag ELSE DefaultProvider)
=============================================================================
