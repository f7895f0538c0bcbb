\* Three concurrent calls of the breaker, two trials allowed, trips on the second
\* failure in a row; the closed state ages its counts out.
SPECIFICATION MCSpec
CONSTANTS
  g1 = g1
  g2 = g2
  r1 = r1
  r2 = r2
  r3 = r3
  api = api
  tool = tool
  None = None
  Calls = {c1, c2, c3}
  MaxRequests = 2
  Interval = 1
  Timeout = 2
  MaxGeneration = 5
  MaxCount = 4
  TripAfter = 1
  ReadyToTrip <- ConsecutiveTrip
  Handlers = {g1, g2}
  Routes <- MCRoutes
  Limiters <- MCLimiters
  defaultConfig <- MCDefault
  Configs <- MCConfigs
  Headers <- MCHeaders
  Observed <- MCObserved
  maxIdleTime = 1
  callTime = 1
  MaxTime = 2
  MaxBuckets = 3
  MaxConfigs = 1
  Requests = {r1, r2}
  Offers <- MCOffers
  Tenants = {"t"}
  Environment = "local"
  StreamSetups <- MCSetups
  Burst = 3
  MaxConcurrentRequests = 1
  MaxAttempts = 2
  MaxRefills = 1
  MaxFailures = 1
  Dependencies = {"database", "kinesis", "connection_pool"}
  HealthResultChannelBuffer = 5
  Failing = {r1, r2, r3}
  Codes = {"NOT_FOUND", "plain"}
  Slots = 3
  Queriers = {g1, g2}
  Ids = {r1, r2}
  Processes = {"p"}
  Tables = {"spans"}
  Runners = {g1, g2}
  Files <- MCFiles
  MaxRuns = 2
  Procs = {api, tool}
  Users = {g1, g2, r3}
  ProcOf <- MCProcOf
  Tools = {tool}
  Keys <- MCKeys
  Configurations <- MCPlaces
  Commands <- MCCommands
  MaxWrites = 2
  MaxMishaps = 1
INVARIANTS TypesOK RequestsAccounted HalfOpenAdmission ClosedBelowThreshold
INVARIANTS RateKept SuccessIsTrue OncePerAttempt HealthTold OwnError NothingEndedIsListed RecordedWasRun Coherent 
PROPERTIES OnlyTrialCloses StaleResultIgnored
\* Requests are answered and migrations end: these parts stop.
CHECK_DEADLOCK FALSE
