--------------------------- MODULE ConfigSections ---------------------------
(* The thirteen sections of internal/config, one directory each.  For each *)
(* section: the MIN_, MAX_ and DEFAULT_ constants of constants.go, and from *)
(* section.go the fields of Config with their defaults, Validate and       *)
(* FromResolver.  A key is the environment variable that sets a field.     *)
EXTENDS ConfigDecode

-----------------------------------------------------------------------------
(* grpc                                                                    *)

grpcLimits ==
  [port               |-> Limit(1, 65535, 4317),
   connection_timeout |-> Limit(1, 30 * Second, 30 * Second),
   rps                |-> Limit(1, 200000, 100),
   burst              |-> Limit(1, 1000000, 200),
   message_size       |-> 16 * Mega,
   rate_limit_off     |-> 0,
   burst_multiplier   |-> 2,
   tls_versions       |-> <<"1.2", "1.3">>]

grpcFields ==
  LET L == grpcLimits IN
  [GRPC_SERVER_PORT                |-> Field("port", L.port.default),
   GRPC_MAX_RECEIVE_SIZE           |-> Field("size", L.message_size),
   GRPC_MAX_SEND_SIZE              |-> Field("size", L.message_size),
   GRPC_MAX_CONNECTION_TIMEOUT     |-> Field("duration", L.connection_timeout.default),
   GRPC_MAX_REQUESTS_PER_SECOND    |-> Field("int", L.rps.default),
   GRPC_MAX_REQUEST_BURST_CAPACITY |-> Field("int", L.burst.default),
   GRPC_TLS_ENABLED                |-> Field("flag", FALSE),
   GRPC_TLS_CERT_FILE              |-> Field("string", ""),
   GRPC_TLS_KEY_FILE               |-> Field("string", ""),
   GRPC_TLS_CA_FILE                |-> Field("string", ""),
   GRPC_TLS_MIN_VERSION            |-> Field("tls version", L.tls_versions[1]),
   GRPC_TLS_MAX_VERSION            |-> Field("tls version", L.tls_versions[2]),
   GRPC_ENABLE_TOKEN_AUTH          |-> Field("flag", FALSE),
   GRPC_TOKEN_SECRET               |-> Field("string", "")]

\* A burst is at most multiplier times the rate, and zero when there is none.
BurstFits(rps, burst, rpsLimit, burstLimit, multiplier) ==
  /\ RangeOrAllowed(rps, rpsLimit, 0)
  /\ rps = 0 => burst = 0
  /\ rps > 0 =>
       /\ RangeFNum(burst, burstLimit)
       /\ burst <= IF rps * multiplier > burstLimit.min THEN rps * multiplier ELSE burstLimit.min

grpcValidate(c) ==
  LET L == grpcLimits IN
  /\ RangeFNum(c.GRPC_SERVER_PORT, L.port)
  /\ GT0FNum(c.GRPC_MAX_RECEIVE_SIZE) /\ GT0FNum(c.GRPC_MAX_SEND_SIZE)
  /\ RangeFNum(c.GRPC_MAX_CONNECTION_TIMEOUT, L.connection_timeout)
  /\ BurstFits(c.GRPC_MAX_REQUESTS_PER_SECOND, c.GRPC_MAX_REQUEST_BURST_CAPACITY,
               L.rps, L.burst, L.burst_multiplier)
  /\ c.GRPC_TLS_ENABLED => NotEmpty(c.GRPC_TLS_CERT_FILE) /\ NotEmpty(c.GRPC_TLS_KEY_FILE)
  /\ c.GRPC_ENABLE_TOKEN_AUTH => NotEmpty(c.GRPC_TOKEN_SECRET)

grpcFromResolver(settings) ==
  {c \in DecodePrefixInto(grpcFields, settings) : grpcValidate(c)}

-----------------------------------------------------------------------------
(* app                                                                     *)

appDefaults ==
  [name |-> "playback", version |-> "0.0.0", environment |-> "dev",
   log_level |-> "info", log_format |-> "json"]

\* The fields with the values their defaults hold now.  Some defaults are
\* pointers or slices, and loading a section may have written through them.
Current(fields, shared) ==
  [k \in DOMAIN fields |->
     IF k \in DOMAIN shared THEN [fields[k] EXCEPT !.default = shared[k]] ELSE fields[k]]

appFields ==
  LET D == appDefaults IN
  [APP_APP_NAME    |-> Field("string", D.name),
   APP_VERSION     |-> Field("version", D.version),
   APP_ENVIRONMENT |-> Field("environment", D.environment),
   APP_LOG_LEVEL   |-> Field("log level", D.log_level),
   APP_LOG_FORMAT  |-> Field("log format", D.log_format)]

\* The validator of this section checks nothing.
appValidate(c) == TRUE

\* The default version is one pointer that every load decodes into.
appFromResolver(settings, shared) ==
  {c \in DecodePrefixInto(Current(appFields, shared), settings) : appValidate(c)}

-----------------------------------------------------------------------------
(* http                                                                    *)

httpLimits ==
  [port                  |-> Limit(1024, 65535, 8080),
   timeout               |-> Limit(1 * Second, 5 * Minute, 30 * Second),
   idle_timeout_default  |-> 60 * Second,
   request_size          |-> Limit(1 * Mega, 100 * Mega, 25 * Mega),
   header_size           |-> Limit(1 * Kilo, 10 * Mega, 1 * Mega),
   rps                   |-> Limit(1, 1000000, 1000),
   burst                 |-> Limit(1, 2000000, 2000),
   burst_multiplier      |-> 10,
   jwt_expiry            |-> Limit(1 * Hour, 1 * Week, 1 * Day),
   jwt_refresh_window    |-> Limit(1 * Hour, 30 * Day, 1 * Week),
   cors_max_age          |-> Limit(0, 1 * Day, 1 * Hour),
   compression_level     |-> Limit(1, 9, 6),
   compression_threshold |-> Limit(1 * Kilo, 1 * Mega, 1 * Kilo),
   keep_alive_timeout    |-> Limit(10 * Second, 5 * Minute, 1 * Minute),
   tls_versions          |-> <<"1.2", "1.3">>,
   jwt_issuer            |-> "playback-backend",
   jwt_audience          |-> "playback-api",
   cors_origins          |-> <<"*">>,
   cors_methods          |-> <<"GET", "POST", "PUT", "DELETE", "OPTIONS", "HEAD", "PATCH">>,
   cors_headers          |-> <<"Origin", "Content-Type", "Accept", "Authorization", "X-Requested-With">>,
   cors_exposed          |-> <<"Content-Length">>]

httpFields ==
  LET L == httpLimits IN
  [HTTP_HOST                   |-> Field("string", "0.0.0.0"),
   HTTP_PORT                   |-> Field("port", L.port.default),
   HTTP_MODE                   |-> Field("http mode", "release"),
   HTTP_READ_TIMEOUT           |-> Field("duration", L.timeout.default),
   HTTP_WRITE_TIMEOUT          |-> Field("duration", L.timeout.default),
   HTTP_IDLE_TIMEOUT           |-> Field("duration", L.idle_timeout_default),
   HTTP_SHUTDOWN_TIMEOUT       |-> Field("duration", L.timeout.default),
   HTTP_MAX_REQUEST_SIZE       |-> Field("size", L.request_size.default),
   HTTP_MAX_HEADER_SIZE        |-> Field("size", L.header_size.default),
   HTTP_API_PREFIX             |-> Field("string", "/api/v1"),
   HTTP_TRUSTED_PROXIES        |-> Field("list", <<>>),
   HTTP_ENABLE_CORS            |-> Field("flag", TRUE),
   HTTP_CORS_ALLOWED_ORIGINS   |-> Field("list", L.cors_origins),
   HTTP_CORS_ALLOWED_METHODS   |-> Field("list", L.cors_methods),
   HTTP_CORS_ALLOWED_HEADERS   |-> Field("list", L.cors_headers),
   HTTP_CORS_EXPOSED_HEADERS   |-> Field("list", L.cors_exposed),
   HTTP_CORS_ALLOW_CREDENTIALS |-> Field("flag", FALSE),
   HTTP_CORS_MAX_AGE           |-> Field("duration", L.cors_max_age.default),
   HTTP_RATE_LIMIT_RPS         |-> Field("int", L.rps.default),
   HTTP_RATE_LIMIT_BURST       |-> Field("int", L.burst.default),
   HTTP_TLS_ENABLED            |-> Field("flag", FALSE),
   HTTP_TLS_CERT_FILE          |-> Field("string", ""),
   HTTP_TLS_KEY_FILE           |-> Field("string", ""),
   HTTP_TLS_CA_FILE            |-> Field("string", ""),
   HTTP_TLS_MIN_VERSION        |-> Field("tls version", L.tls_versions[1]),
   HTTP_TLS_MAX_VERSION        |-> Field("tls version", L.tls_versions[2]),
   HTTP_ENABLE_AUTH            |-> Field("flag", FALSE),
   HTTP_JWT_SECRET             |-> Field("string", ""),
   HTTP_JWT_EXPIRY             |-> Field("duration", L.jwt_expiry.default),
   HTTP_JWT_REFRESH_WINDOW     |-> Field("duration", L.jwt_refresh_window.default),
   HTTP_JWT_ISSUER             |-> Field("string", L.jwt_issuer),
   HTTP_JWT_AUDIENCE           |-> Field("string", L.jwt_audience),
   HTTP_ENABLE_PROFILING       |-> Field("flag", FALSE),
   HTTP_COMPRESSION_LEVEL      |-> Field("int", L.compression_level.default),
   HTTP_COMPRESSION_THRESHOLD  |-> Field("size", L.compression_threshold.default),
   HTTP_KEEP_ALIVE             |-> Field("flag", TRUE),
   HTTP_KEEP_ALIVE_TIMEOUT     |-> Field("duration", L.keep_alive_timeout.default),
   HTTP_ENABLE_SWAGGER         |-> Field("flag", FALSE),
   HTTP_SWAGGER_PATH           |-> Field("string", "/swagger"),
   HTTP_ENABLE_DEBUG           |-> Field("flag", FALSE)]

httpValidate(c) ==
  LET L == httpLimits IN
  /\ RangeFNum(c.HTTP_PORT, L.port)
  /\ \A k \in {"HTTP_READ_TIMEOUT", "HTTP_WRITE_TIMEOUT", "HTTP_IDLE_TIMEOUT", "HTTP_SHUTDOWN_TIMEOUT"} :
       RangeFNum(c[k], L.timeout)
  /\ RangeFNum(c.HTTP_MAX_REQUEST_SIZE, L.request_size)
  /\ RangeFNum(c.HTTP_MAX_HEADER_SIZE, L.header_size)
  /\ BurstFits(c.HTTP_RATE_LIMIT_RPS, c.HTTP_RATE_LIMIT_BURST, L.rps, L.burst, L.burst_multiplier)
  /\ c.HTTP_TLS_ENABLED => NotEmpty(c.HTTP_TLS_CERT_FILE) /\ NotEmpty(c.HTTP_TLS_KEY_FILE)
  /\ c.HTTP_ENABLE_AUTH =>
       /\ \A k \in {"HTTP_JWT_SECRET", "HTTP_JWT_ISSUER", "HTTP_JWT_AUDIENCE"} : NotEmpty(c[k])
       /\ RangeFNum(c.HTTP_JWT_EXPIRY, L.jwt_expiry)
       /\ RangeFNum(c.HTTP_JWT_REFRESH_WINDOW, L.jwt_refresh_window)
  /\ c.HTTP_ENABLE_CORS => RangeFNum(c.HTTP_CORS_MAX_AGE, L.cors_max_age)
  /\ RangeFNum(c.HTTP_COMPRESSION_LEVEL, L.compression_level)
  /\ RangeFNum(c.HTTP_COMPRESSION_THRESHOLD, L.compression_threshold)
  /\ c.HTTP_KEEP_ALIVE => RangeFNum(c.HTTP_KEEP_ALIVE_TIMEOUT, L.keep_alive_timeout)

\* So are the default lists.
httpFromResolver(settings, shared) ==
  {c \in DecodePrefixInto(Current(httpFields, shared), settings) : httpValidate(c)}

-----------------------------------------------------------------------------
(* data                                                                    *)

dataLimits ==
  [batch_size       |-> Limit(1, 100000, 1000),
   flush_interval   |-> Limit(1, 1 * Minute, 5 * Second),
   worker_count     |-> Limit(1, 1000, 4),
   queue_size       |-> Limit(100, 10000000, 10000),
   retention        |-> [min |-> 24, max |-> 10 * 365 * 24],
   retention_week   |-> 7 * 24,
   retention_month  |-> 30 * 24,
   cleanup_interval |-> Limit(1 * Hour, 1 * Week, 1 * Day)]

dataFields ==
  LET L == dataLimits IN
  [DATA_BATCH_SIZE          |-> Field("int", L.batch_size.default),
   DATA_FLUSH_INTERVAL      |-> Field("duration", L.flush_interval.default),
   DATA_WORKER_COUNT        |-> Field("int", L.worker_count.default),
   DATA_MAX_QUEUE_SIZE      |-> Field("int", L.queue_size.default),
   DATA_ENABLE_COMPRESSION  |-> Field("flag", TRUE),
   DATA_ENABLE_ASYNC        |-> Field("flag", TRUE),
   DATA_ENABLE_PARALLEL     |-> Field("flag", TRUE),
   DATA_ENABLE_VALIDATION   |-> Field("flag", TRUE),
   DATA_RETENTION_TRACES    |-> Field("duration", L.retention_week),
   DATA_RETENTION_METRICS   |-> Field("duration", L.retention_month),
   DATA_RETENTION_LOGS      |-> Field("duration", L.retention_week),
   DATA_ENABLE_AUTO_CLEANUP |-> Field("flag", TRUE),
   DATA_CLEANUP_INTERVAL    |-> Field("duration", L.cleanup_interval.default)]

dataValidate(c) ==
  LET L == dataLimits IN
  /\ RangeFNum(c.DATA_BATCH_SIZE, L.batch_size)
  /\ RangeFNum(c.DATA_FLUSH_INTERVAL, L.flush_interval)
  /\ RangeFNum(c.DATA_WORKER_COUNT, L.worker_count)
  /\ RangeFNum(c.DATA_MAX_QUEUE_SIZE, L.queue_size)
  /\ \A k \in {"DATA_RETENTION_TRACES", "DATA_RETENTION_METRICS", "DATA_RETENTION_LOGS"} :
       RangeFNum(c[k], L.retention)
  /\ c.DATA_ENABLE_AUTO_CLEANUP => RangeFNum(c.DATA_CLEANUP_INTERVAL, L.cleanup_interval)

dataFromResolver(settings) ==
  {c \in DecodePrefixInto(dataFields, settings) : dataValidate(c)}

-----------------------------------------------------------------------------
(* clickhouse                                                              *)

clickhouseLimits ==
  [max_connections         |-> Limit(1, 1000, 10),
   max_idle_connections    |-> Limit(1, 1000, 5),
   connection_timeout      |-> Limit(1 * Second, 5 * Minute, 30 * Second),
   connection_max_lifetime |-> Limit(1 * Minute, 24 * Hour, 30 * Minute)]

clickhouseFields ==
  LET L == clickhouseLimits IN
  [CLICKHOUSE_HOST                      |-> Field("string", "localhost:9000"),
   CLICKHOUSE_HTTP_HOST                 |-> Field("string", "localhost:8123"),
   CLICKHOUSE_DATABASE                  |-> Field("string", "telemetry"),
   CLICKHOUSE_USERNAME                  |-> Field("string", "default"),
   CLICKHOUSE_PASSWORD                  |-> Field("string", ""),
   CLICKHOUSE_MAX_CONNECTIONS           |-> Field("int", L.max_connections.default),
   CLICKHOUSE_MAX_IDLE_CONNECTIONS      |-> Field("int", L.max_idle_connections.default),
   CLICKHOUSE_CONNECTION_TIMEOUT        |-> Field("duration", L.connection_timeout.default),
   CLICKHOUSE_ENABLE_COMPRESSION        |-> Field("flag", TRUE),
   CLICKHOUSE_ENABLE_CONNECTION_POOLING |-> Field("flag", TRUE),
   CLICKHOUSE_CONNECTION_MAX_LIFETIME   |-> Field("duration", L.connection_max_lifetime.default),
   CLICKHOUSE_ENABLE_QUERY_LOGGING      |-> Field("flag", FALSE)]

clickhouseValidate(c) ==
  LET L == clickhouseLimits IN
  /\ \A k \in {"CLICKHOUSE_HOST", "CLICKHOUSE_HTTP_HOST", "CLICKHOUSE_DATABASE", "CLICKHOUSE_USERNAME"} :
       NotEmpty(c[k])
  /\ RangeFNum(c.CLICKHOUSE_MAX_CONNECTIONS, L.max_connections)
  /\ RangeFNum(c.CLICKHOUSE_MAX_IDLE_CONNECTIONS, L.max_idle_connections)
  /\ RangeFNum(c.CLICKHOUSE_CONNECTION_TIMEOUT, L.connection_timeout)
  /\ LTE(c.CLICKHOUSE_MAX_IDLE_CONNECTIONS, c.CLICKHOUSE_MAX_CONNECTIONS)
  /\ c.CLICKHOUSE_ENABLE_CONNECTION_POOLING =>
       RangeFNum(c.CLICKHOUSE_CONNECTION_MAX_LIFETIME, L.connection_max_lifetime)

clickhouseFromResolver(settings) ==
  {c \in DecodePrefixInto(clickhouseFields, settings) : clickhouseValidate(c)}

-----------------------------------------------------------------------------
(* redis                                                                   *)

redisLimits ==
  [max_connections         |-> Limit(1, 1000, 10),
   max_idle_connections    |-> Limit(1, 1000, 5),
   connection_timeout      |-> Limit(1 * Second, 1 * Minute, 5 * Second),
   connection_max_lifetime |-> Limit(1 * Minute, 1 * Day, 30 * Minute),
   default_ttl             |-> Limit(1 * Second, 1 * Day, 5 * Minute),
   database_index          |-> Limit(0, 15, 0)]

redisFields ==
  LET L == redisLimits IN
  [REDIS_HOST                      |-> Field("string", "localhost:6379"),
   REDIS_PASSWORD                  |-> Field("string", ""),
   REDIS_DATABASE                  |-> Field("int", L.database_index.default),
   REDIS_MAX_CONNECTIONS           |-> Field("int", L.max_connections.default),
   REDIS_MAX_IDLE_CONNECTIONS      |-> Field("int", L.max_idle_connections.default),
   REDIS_CONNECTION_TIMEOUT        |-> Field("duration", L.connection_timeout.default),
   REDIS_DEFAULT_TTL               |-> Field("duration", L.default_ttl.default),
   REDIS_ENABLE_CONNECTION_POOLING |-> Field("flag", TRUE),
   REDIS_CONNECTION_MAX_LIFETIME   |-> Field("duration", L.connection_max_lifetime.default)]

redisValidate(c) ==
  LET L == redisLimits IN
  /\ NotEmpty(c.REDIS_HOST)
  /\ RangeFNum(c.REDIS_DATABASE, L.database_index)
  /\ RangeFNum(c.REDIS_MAX_CONNECTIONS, L.max_connections)
  /\ RangeFNum(c.REDIS_MAX_IDLE_CONNECTIONS, L.max_idle_connections)
  /\ RangeFNum(c.REDIS_CONNECTION_TIMEOUT, L.connection_timeout)
  /\ RangeFNum(c.REDIS_DEFAULT_TTL, L.default_ttl)
  /\ LTE(c.REDIS_MAX_IDLE_CONNECTIONS, c.REDIS_MAX_CONNECTIONS)
  /\ c.REDIS_ENABLE_CONNECTION_POOLING => RangeFNum(c.REDIS_CONNECTION_MAX_LIFETIME, L.connection_max_lifetime)

redisFromResolver(settings) ==
  {c \in DecodePrefixInto(redisFields, settings) : redisValidate(c)}

-----------------------------------------------------------------------------
(* s3                                                                      *)

s3Fields ==
  [S3_REGION            |-> Field("region", "us-east-1"),
   S3_BUCKET            |-> Field("string", ""),
   S3_ENDPOINT_URL      |-> Field("string", ""),
   S3_ACCESS_KEY_ID     |-> Field("string", ""),
   S3_SECRET_ACCESS_KEY |-> Field("string", ""),
   S3_SESSION_TOKEN     |-> Field("string", ""),
   S3_PATH_PREFIX       |-> Field("string", ""),
   S3_FORCE_PATH_STYLE  |-> Field("flag", FALSE),
   S3_ENABLE_SSE        |-> Field("flag", TRUE)]

\* Both keys of a credential pair, or neither.
BothOrNeither(id, secret) == NotEmpty(id) <=> NotEmpty(secret)

\* The bucket has no default that passes.
s3Validate(c) ==
  /\ NotEmpty(c.S3_BUCKET)
  /\ BothOrNeither(c.S3_ACCESS_KEY_ID, c.S3_SECRET_ACCESS_KEY)

s3FromResolver(settings) ==
  {c \in DecodePrefixInto(s3Fields, settings) : s3Validate(c)}

-----------------------------------------------------------------------------
(* kinesis                                                                 *)

kinesisLimits ==
  [batch_size     |-> Limit(1, 500, 100),
   flush_interval |-> Limit(1, 1 * Minute, 5 * Second),
   retries        |-> Limit(0, 10, 3),
   retry_delay    |-> Limit(1, 1 * Minute, 1 * Second)]

kinesisFields ==
  LET L == kinesisLimits IN
  [KINESIS_REGION            |-> Field("region", "us-east-1"),
   KINESIS_ENDPOINT_URL      |-> Field("string", ""),
   KINESIS_ACCESS_KEY_ID     |-> Field("string", ""),
   KINESIS_SECRET_ACCESS_KEY |-> Field("string", ""),
   KINESIS_SESSION_TOKEN     |-> Field("string", ""),
   KINESIS_TRACES_STREAM     |-> Field("string", "telemetry-traces"),
   KINESIS_METRICS_STREAM    |-> Field("string", "telemetry-metrics"),
   KINESIS_LOGS_STREAM       |-> Field("string", "telemetry-logs"),
   KINESIS_BATCH_SIZE        |-> Field("int", L.batch_size.default),
   KINESIS_FLUSH_INTERVAL    |-> Field("duration", L.flush_interval.default),
   KINESIS_MAX_RETRIES       |-> Field("int", L.retries.default),
   KINESIS_RETRY_DELAY       |-> Field("duration", L.retry_delay.default)]

kinesisValidate(c) ==
  LET L == kinesisLimits IN
  /\ \A k \in {"KINESIS_TRACES_STREAM", "KINESIS_METRICS_STREAM", "KINESIS_LOGS_STREAM"} : NotEmpty(c[k])
  /\ RangeFNum(c.KINESIS_BATCH_SIZE, L.batch_size)
  /\ RangeFNum(c.KINESIS_FLUSH_INTERVAL, L.flush_interval)
  /\ RangeFNum(c.KINESIS_MAX_RETRIES, L.retries)
  /\ RangeFNum(c.KINESIS_RETRY_DELAY, L.retry_delay)
  /\ BothOrNeither(c.KINESIS_ACCESS_KEY_ID, c.KINESIS_SECRET_ACCESS_KEY)

kinesisFromResolver(settings) ==
  {c \in DecodePrefixInto(kinesisFields, settings) : kinesisValidate(c)}

-----------------------------------------------------------------------------
(* monitoring                                                              *)

monitoringLimits ==
  [metrics_port   |-> Limit(1024, 65535, 9090),
   sampling_rate  |-> Limit(0, 100, 10),
   flush_interval |-> Limit(1 * Second, 1 * Minute, 5 * Second)]

monitoringFields ==
  LET L == monitoringLimits IN
  [MONITORING_ENABLE_METRICS        |-> Field("flag", TRUE),
   MONITORING_METRICS_PORT          |-> Field("port", L.metrics_port.default),
   MONITORING_METRICS_PATH          |-> Field("string", "/metrics"),
   MONITORING_ENABLE_TRACING        |-> Field("flag", TRUE),
   MONITORING_TRACING_ENDPOINT      |-> Field("string", ""),
   MONITORING_ENABLE_JAEGER         |-> Field("flag", FALSE),
   MONITORING_JAEGER_SERVICE_NAME   |-> Field("string", "playback-backend"),
   MONITORING_JAEGER_SAMPLING_RATE  |-> Field("percentage", L.sampling_rate.default),
   MONITORING_JAEGER_FLUSH_INTERVAL |-> Field("duration", L.flush_interval.default),
   MONITORING_HEALTH_CHECK_PATH     |-> Field("string", "/health")]

\* Tracing is on by default, and its endpoint has no default that passes.
monitoringValidate(c) ==
  LET L == monitoringLimits IN
  /\ c.MONITORING_ENABLE_METRICS =>
       RangeFNum(c.MONITORING_METRICS_PORT, L.metrics_port) /\ NotEmpty(c.MONITORING_METRICS_PATH)
  /\ c.MONITORING_ENABLE_TRACING => NotEmpty(c.MONITORING_TRACING_ENDPOINT)
  /\ c.MONITORING_ENABLE_JAEGER =>
       /\ NotEmpty(c.MONITORING_JAEGER_SERVICE_NAME)
       /\ RangeFNum(c.MONITORING_JAEGER_SAMPLING_RATE, L.sampling_rate)
       /\ RangeFNum(c.MONITORING_JAEGER_FLUSH_INTERVAL, L.flush_interval)
  /\ NotEmpty(c.MONITORING_HEALTH_CHECK_PATH)

monitoringFromResolver(settings) ==
  {c \in DecodePrefixInto(monitoringFields, settings) : monitoringValidate(c)}

-----------------------------------------------------------------------------
(* circuitbreaker                                                          *)

circuitbreakerLimits ==
  [timeout               |-> Limit(1, 1 * Minute, 5 * Second),
   concurrent_requests   |-> Limit(1, 10000, 100),
   request_threshold     |-> Limit(1, 1000, 10),
   failure_rate          |-> Limit(0, 100, 50),
   consecutive_successes |-> Limit(1, 100, 2),
   sleep_window          |-> Limit(1 * Second, 5 * Minute, 10 * Second),
   half_open_requests    |-> Limit(1, 100, 5)]

circuitbreakerFields ==
  LET L == circuitbreakerLimits IN
  [CIRCUIT_BREAKER_ENABLED                 |-> Field("flag", TRUE),
   CIRCUIT_BREAKER_TIMEOUT                 |-> Field("duration", L.timeout.default),
   CIRCUIT_BREAKER_MAX_CONCURRENT_REQUESTS |-> Field("int", L.concurrent_requests.default),
   CIRCUIT_BREAKER_REQUEST_THRESHOLD       |-> Field("int", L.request_threshold.default),
   CIRCUIT_BREAKER_FAILURE_RATE_THRESHOLD  |-> Field("percentage", L.failure_rate.default),
   CIRCUIT_BREAKER_CONSECUTIVE_SUCCESSES   |-> Field("int", L.consecutive_successes.default),
   CIRCUIT_BREAKER_SLEEP_WINDOW            |-> Field("duration", L.sleep_window.default),
   CIRCUIT_BREAKER_HALF_OPEN_MAX_REQUESTS  |-> Field("int", L.half_open_requests.default)]

circuitbreakerValidate(c) ==
  LET L == circuitbreakerLimits IN
  /\ RangeFNum(c.CIRCUIT_BREAKER_TIMEOUT, L.timeout)
  /\ RangeFNum(c.CIRCUIT_BREAKER_MAX_CONCURRENT_REQUESTS, L.concurrent_requests)
  /\ RangeFNum(c.CIRCUIT_BREAKER_REQUEST_THRESHOLD, L.request_threshold)
  /\ RangeFNum(c.CIRCUIT_BREAKER_FAILURE_RATE_THRESHOLD, L.failure_rate)
  /\ RangeFNum(c.CIRCUIT_BREAKER_CONSECUTIVE_SUCCESSES, L.consecutive_successes)
  /\ RangeFNum(c.CIRCUIT_BREAKER_SLEEP_WINDOW, L.sleep_window)
  /\ RangeFNum(c.CIRCUIT_BREAKER_HALF_OPEN_MAX_REQUESTS, L.half_open_requests)

circuitbreakerFromResolver(settings) ==
  {c \in DecodePrefixInto(circuitbreakerFields, settings) : circuitbreakerValidate(c)}

-----------------------------------------------------------------------------
(* dlq                                                                     *)

dlqLimits ==
  [message_size          |-> Limit(1 * Kilo, 10 * Mega, 256 * Kilo),
   retention_period      |-> Limit(1 * Hour, 2 * Week, 1 * Week),
   queue_capacity        |-> Limit(100, 1000000, 10000),
   reprocessing_cooldown |-> Limit(1 * Minute, 24 * Hour, 1 * Hour),
   local_buffer_size     |-> Limit(10, 100000, 1000)]

dlqFields ==
  LET L == dlqLimits IN
  [DLQ_ENABLED               |-> Field("flag", TRUE),
   DLQ_QUEUE_NAME            |-> Field("string", "failed-events-dlq"),
   DLQ_REGION                |-> Field("region", "us-east-1"),
   DLQ_MAX_MESSAGE_SIZE      |-> Field("size", L.message_size.default),
   DLQ_RETENTION_PERIOD      |-> Field("duration", L.retention_period.default),
   DLQ_QUEUE_CAPACITY        |-> Field("int", L.queue_capacity.default),
   DLQ_LOCAL_BUFFER_SIZE     |-> Field("int", L.local_buffer_size.default),
   DLQ_ENABLE_REPROCESSING   |-> Field("flag", FALSE),
   DLQ_REPROCESSING_COOLDOWN |-> Field("duration", L.reprocessing_cooldown.default)]

dlqValidate(c) ==
  LET L == dlqLimits IN
  /\ NotEmpty(c.DLQ_QUEUE_NAME)
  /\ RangeFNum(c.DLQ_MAX_MESSAGE_SIZE, L.message_size)
  /\ RangeFNum(c.DLQ_RETENTION_PERIOD, L.retention_period)
  /\ RangeFNum(c.DLQ_QUEUE_CAPACITY, L.queue_capacity)
  /\ RangeFNum(c.DLQ_LOCAL_BUFFER_SIZE, L.local_buffer_size)
  /\ c.DLQ_ENABLE_REPROCESSING => RangeFNum(c.DLQ_REPROCESSING_COOLDOWN, L.reprocessing_cooldown)

dlqFromResolver(settings) ==
  {c \in DecodePrefixInto(dlqFields, settings) : dlqValidate(c)}

-----------------------------------------------------------------------------
(* testing                                                                 *)

testingFields == [TESTING_MOCK_EXTERNAL_SERVICES |-> Field("flag", FALSE)]

\* The validator of this section checks nothing.
testingValidate(c) == TRUE

testingFromResolver(settings) ==
  {c \in DecodePrefixInto(testingFields, settings) : testingValidate(c)}

-----------------------------------------------------------------------------
(* features                                                                *)

featuresLimits ==
  [replay_duration |-> Limit(1 * Minute, 1 * Day, 1 * Hour),
   replay_buffer   |-> Limit(1 * Kilo, 100 * Mega, 10 * Mega),
   map_refresh     |-> Limit(10 * Second, 1 * Hour, 5 * Minute),
   map_nodes       |-> Limit(10, 100000, 1000),
   map_edges       |-> Limit(10, 1000000, 10000),
   export_size     |-> Limit(1 * Mega, 1000 * Mega, 100 * Mega),
   export_formats  |-> <<"json", "csv", "parquet">>]

featuresFields ==
  LET L == featuresLimits IN
  [FEATURES_ENABLE_REPLAY        |-> Field("flag", FALSE),
   FEATURES_REPLAY_DURATION      |-> Field("duration", L.replay_duration.default),
   FEATURES_REPLAY_BUFFER_SIZE   |-> Field("size", L.replay_buffer.default),
   FEATURES_ENABLE_SYSTEM_MAP    |-> Field("flag", FALSE),
   FEATURES_MAP_REFRESH_INTERVAL |-> Field("duration", L.map_refresh.default),
   FEATURES_MAP_MAX_NODES        |-> Field("int", L.map_nodes.default),
   FEATURES_MAP_MAX_EDGES        |-> Field("int", L.map_edges.default),
   FEATURES_ENABLE_DATA_EXPORT   |-> Field("flag", FALSE),
   FEATURES_EXPORT_FORMATS       |-> Field("export formats", L.export_formats),
   FEATURES_EXPORT_MAX_SIZE      |-> Field("size", L.export_size.default)]

featuresValidate(c) ==
  LET L == featuresLimits IN
  /\ c.FEATURES_ENABLE_REPLAY =>
       /\ RangeFNum(c.FEATURES_REPLAY_DURATION, L.replay_duration)
       /\ RangeFNum(c.FEATURES_REPLAY_BUFFER_SIZE, L.replay_buffer)
  /\ c.FEATURES_ENABLE_SYSTEM_MAP =>
       /\ RangeFNum(c.FEATURES_MAP_REFRESH_INTERVAL, L.map_refresh)
       /\ RangeFNum(c.FEATURES_MAP_MAX_NODES, L.map_nodes)
       /\ RangeFNum(c.FEATURES_MAP_MAX_EDGES, L.map_edges)
  /\ c.FEATURES_ENABLE_DATA_EXPORT =>
       Len(c.FEATURES_EXPORT_FORMATS) > 0 /\ RangeFNum(c.FEATURES_EXPORT_MAX_SIZE, L.export_size)

featuresFromResolver(settings) ==
  {c \in DecodePrefixInto(featuresFields, settings) : featuresValidate(c)}
=============================================================================
