---------------------------- MODULE ConfigManager ----------------------------
(* The configuration manager of internal/config/manager.go, with the       *)
(* environment provider it reads and watches.  Goroutines that reload run  *)
(* beside each other: NewManager's first load, the debounced reloader and  *)
(* callers of Reload.  A setting may change between any two of their       *)
(* steps.                                                                  *)
EXTENDS ConfigSections

CONSTANTS
  Environments0,  \* the environments the process may have: key to raw text
  Prefixes,       \* the providers, in order: the keys each one loads
  Callers,        \* goroutines that call Reload
  Subscribers,    \* the ids that may subscribe
  None,           \* no snapshot
  MaxChanges,     \* bound: changes of the environment
  MaxCalls        \* bound: calls of Reload by the callers

\* The settings that a layer, and a merge of layers, can map.
Settings ==
  LET keys  == UNION {DOMAIN e : e \in Environments0}
      texts == UNION {{e[k] : k \in DOMAIN e} : e \in Environments0}
  IN  UNION {[K -> texts] : K \in SUBSET keys}

ASSUME ConfigAssumption ==
  /\ Len(Prefixes) \in Nat \ {0}
  /\ None \notin Settings
  /\ MaxChanges \in Nat /\ MaxCalls \in Nat

VARIABLES
  env,       \* the environment of the process
  target,    \* auxiliary: what a new process would publish of it, or none
  shared,    \* what the pointer and the slices among the defaults hold
  ptr,       \* the published snapshot: the settings it was decoded from, or none
  lastFP,    \* the settings whose fingerprint was stored last
  reload,    \* what each reloading goroutine is doing
  events,    \* the channel of change signals holds one
  tick,      \* the debounce timer is armed
  seen,      \* per provider: what its watcher took the last fingerprint of
  phase,     \* NewManager: "loading", then "ready" or "failed"
  inFlight,  \* per subscriber: the snapshots its handler is about to be given
  latest,    \* per subscriber: the snapshot it uses, or none before it reads one
  subscribed,\* the subscribers whose handlers are registered
  changes, calls

vars == <<env, target, shared, ptr, lastFP, reload, events, tick, seen, phase, inFlight, latest,
          subscribed, changes, calls>>

NoSettings == [k \in {} |-> Word("")]
Reloaders == {"new manager", "reloader"} \cup Callers

\* The idle state of a reloading goroutine, and its first step.
Idle  == [at |-> "idle", layers |-> <<>>, plan |-> None]
Begin == [Idle EXCEPT !.at = "fetch"]

-----------------------------------------------------------------------------
(* Defaults that loading writes through.                                   *)

SharedKeys == {"APP_VERSION", "HTTP_CORS_ALLOWED_ORIGINS", "HTTP_CORS_ALLOWED_METHODS",
               "HTTP_CORS_ALLOWED_HEADERS", "HTTP_CORS_EXPOSED_HEADERS"}

Defaults == [k \in SharedKeys |->
               IF k \in DOMAIN appFields THEN appFields[k].default ELSE httpFields[k].default]

\* The value of a key afterwards: lists keep the length of the default, as the
\* part beyond it goes to a new slice.
WrittenValue(k, fields, settings, old) ==
  LET v == Decoded(fields[k].kind, settings[k]) IN
  IF k \notin Section(fields, settings) \/ v = {} THEN old
  ELSE LET new == CHOOSE x \in v : TRUE
       IN  IF fields[k].kind # "list" THEN new
           ELSE [i \in DOMAIN old |-> IF i \in DOMAIN new THEN new[i] ELSE old[i]]

\* A load writes the sections it reaches, the one it fails at included.
WrittenThrough(settings, old) ==
  LET app  == grpcFromResolver(settings) # {}
      http == app /\ appFromResolver(settings, old) # {}
  IN  [k \in SharedKeys |->
         CASE k \in DOMAIN appFields /\ app   -> WrittenValue(k, appFields, settings, old[k])
           [] k \in DOMAIN httpFields /\ http -> WrittenValue(k, httpFields, settings, old[k])
           [] OTHER -> old[k]]

-----------------------------------------------------------------------------
(* Decoding and validating a snapshot.                                     *)

\* The sections in turn; none if one of them fails.
decode(settings, defaults) ==
  [GRPCServer : grpcFromResolver(settings), APP : appFromResolver(settings, defaults),
   HTTP : httpFromResolver(settings, defaults), Data : dataFromResolver(settings),
   ClickHouse : clickhouseFromResolver(settings), Redis : redisFromResolver(settings),
   S3 : s3FromResolver(settings), Kinesis : kinesisFromResolver(settings),
   Monitoring : monitoringFromResolver(settings),
   CircuitBreaker : circuitbreakerFromResolver(settings), DLQ : dlqFromResolver(settings),
   Testing : testingFromResolver(settings), Features : featuresFromResolver(settings)]

\* Every section validated again, then ports and paths across sections.
validateAll(s) ==
  /\ grpcValidate(s.GRPCServer) /\ appValidate(s.APP) /\ httpValidate(s.HTTP)
  /\ dataValidate(s.Data) /\ clickhouseValidate(s.ClickHouse) /\ redisValidate(s.Redis)
  /\ s3Validate(s.S3) /\ kinesisValidate(s.Kinesis) /\ monitoringValidate(s.Monitoring)
  /\ circuitbreakerValidate(s.CircuitBreaker) /\ dlqValidate(s.DLQ)
  /\ testingValidate(s.Testing) /\ featuresValidate(s.Features)
  /\ AllUnique(<<s.HTTP.HTTP_PORT, s.GRPCServer.GRPC_SERVER_PORT, s.Monitoring.MONITORING_METRICS_PORT>>)
  /\ AllUnique(<<s.Monitoring.MONITORING_METRICS_PATH, s.Monitoring.MONITORING_HEALTH_CHECK_PATH>>
               \o (IF s.HTTP.HTTP_ENABLE_SWAGGER THEN <<s.HTTP.HTTP_SWAGGER_PATH>> ELSE <<>>))

\* What a reload of these settings would publish.
Loadable(settings, defaults) == \E s \in decode(settings, defaults) : validateAll(s)

\* What a reader sees now in a snapshot decoded from these settings: its
\* version and its short lists are the defaults' own memory.
SnapshotNow(settings, defaults) ==
  [k \in SharedKeys |->
     LET list == k \in Section(httpFields, settings) /\ httpFields[k].kind = "list"
         own  == CHOOSE v \in Decoded(httpFields[k].kind, settings[k]) : TRUE
     IN  IF list THEN IF Len(own) > Len(defaults[k]) THEN own ELSE defaults[k]
         ELSE defaults[k]]

-----------------------------------------------------------------------------
(* Fingerprints.                                                           *)

\* Whether a fingerprint taken of m now equals the one taken of old before.
\* Mutated form: equal maps have equal fingerprints, as with one seed for all.
SameFingerprint_FixedSeed(m, old) == m = old

\* Each call seeds its hash anew, so only the fingerprint of the empty map,
\* which hashes nothing and is zero, ever comes out again.
SameFingerprint(m, old) == m = NoSettings /\ old = NoSettings

-----------------------------------------------------------------------------
(* Reload.                                                                 *)

\* What one provider loads: the keys under its prefix.
ProviderLoad(i) == [k \in DOMAIN env \cap Prefixes[i] |-> env[k]]

\* What a process started with this environment publishes, if it loads.
Target(e) ==
  LET merged == Merge([i \in DOMAIN Prefixes |-> [k \in DOMAIN e \cap Prefixes[i] |-> e[k]]])
  IN  IF Loadable(merged, Defaults) THEN merged ELSE None

\* fetchLayers, one provider at a time.
Fetch(r) ==
  /\ reload[r].at = "fetch"
  /\ LET layers == Append(reload[r].layers, ProviderLoad(Len(reload[r].layers) + 1))
     IN  reload' = [reload EXCEPT ![r].layers = layers,
                                  ![r].at = IF Len(layers) = Len(Prefixes) THEN "plan" ELSE "fetch"]
  /\ UNCHANGED <<env, target, shared, ptr, lastFP, events, tick, seen, phase, inFlight, latest, subscribed, changes, calls>>

\* Mutated form: NewManager starts its watchers although the load failed.
Rejected_StartsAnyway(r) ==
  /\ reload' = [reload EXCEPT ![r] = Idle]
  /\ phase' = IF r = "new manager" THEN "ready" ELSE phase

\* What returning an error from Reload does: NewManager gives up.
Rejected(r) ==
  /\ reload' = [reload EXCEPT ![r] = Idle]
  /\ phase' = IF r = "new manager" THEN "failed" ELSE phase

\* Mutated form: the elision the comment describes, between two reloads of
\* one map.
Elided_FixedSeed(merged) == SameFingerprint_FixedSeed(merged, lastFP) /\ lastFP # NoSettings

\* The reload is a no-op: same fingerprint, and not the first load.
Elided(merged) == SameFingerprint(merged, lastFP) /\ lastFP # NoSettings

\* Mutated form: what decodes is accepted.
Accepted_Unvalidated(merged) == decode(merged, shared) # {}

\* The merged settings decode and validate, with the defaults as they are now.
Accepted(merged) == Loadable(merged, shared)

\* createPlan: merge, elide, decode and validate.
CreatePlan(r) ==
  /\ reload[r].at = "plan"
  /\ LET merged == Merge(reload[r].layers) IN
     \/ /\ Elided(merged)
        /\ reload' = [reload EXCEPT ![r] = Idle]
        /\ UNCHANGED <<shared, phase>>
     \/ /\ ~Elided(merged)
        /\ shared' = WrittenThrough(merged, shared)
        /\ IF Accepted(merged)
           THEN /\ reload' = [reload EXCEPT ![r].plan = merged, ![r].at = "swap"]
                /\ UNCHANGED phase
           ELSE Rejected(r)
  /\ UNCHANGED <<env, target, ptr, lastFP, events, tick, seen, inFlight, latest, subscribed, changes, calls>>

\* Go's random map order and its scheduler: a broadcast gives the snapshot to
\* the handlers in any order, each in a goroutine of its own.  Bound: one call
\* per subscriber and snapshot is under way.
Broadcast(updated) ==
  /\ \A u \in subscribed : updated \notin inFlight[u]
  /\ inFlight' = [u \in Subscribers |->
                    inFlight[u] \cup IF u \in subscribed THEN {updated} ELSE {}]

\* The swap returns the snapshot it replaced; the first one has no audience.
Swap(r) ==
  /\ reload[r].at = "swap"
  /\ ptr' = reload[r].plan
  /\ reload' = [reload EXCEPT ![r].at = IF ptr = None THEN "store" ELSE "store and notify"]
  /\ UNCHANGED <<env, target, shared, lastFP, events, tick, seen, phase, inFlight, latest, subscribed, changes, calls>>

\* The fingerprint is stored after the swap.
Store(r) ==
  /\ reload[r].at \in {"store", "store and notify"}
  /\ lastFP' = reload[r].plan
  /\ IF reload[r].at = "store" THEN UNCHANGED inFlight ELSE Broadcast(reload[r].plan)
  /\ reload' = [reload EXCEPT ![r] = Idle]
  /\ phase' = IF r = "new manager" THEN "ready" ELSE phase
  /\ UNCHANGED <<env, target, shared, ptr, events, tick, seen, latest, subscribed, changes, calls>>

\* A call of Reload from elsewhere.
CallReload(c) ==
  /\ phase = "ready" /\ reload[c] = Idle /\ calls < MaxCalls
  /\ calls' = calls + 1
  /\ reload' = [reload EXCEPT ![c] = Begin]
  /\ UNCHANGED <<env, target, shared, ptr, lastFP, events, tick, seen, phase, inFlight, latest, subscribed, changes>>

-----------------------------------------------------------------------------
(* Watching.                                                               *)

\* One poll of a provider's watcher.  The channel holds one signal; another is
\* dropped.
Watch(i) ==
  /\ phase = "ready"
  /\ ~SameFingerprint(ProviderLoad(i), seen[i])
  /\ seen' = [seen EXCEPT ![i] = ProviderLoad(i)]
  /\ events' = TRUE
  /\ UNCHANGED <<env, target, shared, ptr, lastFP, reload, tick, phase, inFlight, latest, subscribed, changes, calls>>

\* The reloader (re)arms its debounce timer.
Arm ==
  /\ phase = "ready" /\ reload["reloader"] = Idle
  /\ events /\ events' = FALSE
  /\ tick' = TRUE
  /\ UNCHANGED <<env, target, shared, ptr, lastFP, reload, seen, phase, inFlight, latest, subscribed, changes, calls>>

\* The timer fires: it is disarmed before the reload.
Tick ==
  /\ phase = "ready" /\ reload["reloader"] = Idle
  /\ tick /\ tick' = FALSE
  /\ reload' = [reload EXCEPT !["reloader"] = Begin]
  /\ UNCHANGED <<env, target, shared, ptr, lastFP, events, seen, phase, inFlight, latest, subscribed, changes, calls>>

-----------------------------------------------------------------------------
(* Subscribers.                                                            *)

\* A component takes the current snapshot, and then subscribes to the next.
ReadSnapshot(u) ==
  /\ phase = "ready" /\ latest[u] = None
  /\ latest' = [latest EXCEPT ![u] = ptr]
  /\ UNCHANGED <<env, target, shared, ptr, lastFP, reload, events, tick, seen, phase, inFlight, subscribed, changes, calls>>

Subscribe(u) ==
  /\ latest[u] # None /\ u \notin subscribed
  /\ subscribed' = subscribed \cup {u}
  /\ UNCHANGED <<env, target, shared, ptr, lastFP, reload, events, tick, seen, phase, inFlight, latest, changes, calls>>

\* A handler runs to its end.
Deliver(u) ==
  /\ \E s \in inFlight[u] :
       /\ latest' = [latest EXCEPT ![u] = s]
       /\ inFlight' = [inFlight EXCEPT ![u] = @ \ {s}]
  /\ UNCHANGED <<env, target, shared, ptr, lastFP, reload, events, tick, seen, phase, subscribed, changes, calls>>

-----------------------------------------------------------------------------
(* The process around the manager.                                         *)

\* os.Setenv or os.Unsetenv: one key at a time.
SetEnv ==
  /\ phase \in {"loading", "ready"} /\ changes < MaxChanges
  /\ \E e \in Environments0 :
       LET keys == DOMAIN e \cup DOMAIN env
           Same(k) == k \in DOMAIN e /\ k \in DOMAIN env /\ e[k] = env[k]
       IN  /\ Cardinality({k \in keys : ~Same(k)}) = 1
           /\ env' = e
           /\ target' = Target(e)
  /\ changes' = changes + 1
  /\ UNCHANGED <<shared, ptr, lastFP, reload, events, tick, seen, phase, inFlight, latest, subscribed, calls>>

-----------------------------------------------------------------------------

Init ==
  /\ env \in Environments0 /\ target = Target(env)
  /\ shared = Defaults
  /\ ptr = None /\ lastFP = NoSettings
  /\ reload = [r \in Reloaders |-> IF r = "new manager" THEN Begin ELSE Idle]
  /\ events = FALSE /\ tick = FALSE
  /\ seen = [i \in DOMAIN Prefixes |-> NoSettings]
  /\ phase = "loading"
  /\ inFlight = [u \in Subscribers |-> {}]
  /\ latest = [u \in Subscribers |-> None] /\ subscribed = {}
  /\ changes = 0 /\ calls = 0

\* One step of a goroutine inside Reload.
Step(r) == Fetch(r) \/ CreatePlan(r) \/ Swap(r) \/ Store(r)

Next ==
  \/ \E r \in Reloaders : Fetch(r) \/ CreatePlan(r) \/ Swap(r) \/ Store(r)
  \/ \E c \in Callers : CallReload(c)
  \/ \E i \in DOMAIN Prefixes : Watch(i)
  \/ Arm \/ Tick
  \/ \E u \in Subscribers : ReadSnapshot(u) \/ Subscribe(u) \/ Deliver(u)
  \/ SetEnv

\* A goroutine that can run does, and timers expire; nobody has to change the
\* environment, call Reload or subscribe.
Fairness ==
  /\ \A r \in Reloaders : WF_vars(Step(r))
  /\ \A i \in DOMAIN Prefixes : WF_vars(Watch(i))
  /\ WF_vars(Arm) /\ WF_vars(Tick)
  /\ \A u \in Subscribers : WF_vars(Deliver(u))

Spec == Init /\ [][Next]_vars /\ Fairness

-----------------------------------------------------------------------------
(* Properties.                                                             *)

\* Type invariant: a published snapshot exists once NewManager returned.
TypeOK ==
  /\ env \in Environments0
  /\ DOMAIN shared = SharedKeys
  /\ \A r \in Reloaders : reload[r].at \in {"idle", "fetch", "plan", "swap", "store", "store and notify"}
  /\ events \in BOOLEAN /\ tick \in BOOLEAN
  /\ phase \in {"loading", "ready", "failed"}
  /\ phase = "ready" => ptr # None
  /\ subscribed \subseteq Subscribers /\ \A u \in subscribed : latest[u] # None
  /\ changes \in 0 .. MaxChanges /\ calls \in 0 .. MaxCalls

\* Whatever was loaded and rejected before, and whichever reloads overlapped,
\* the settings in use are ones that a new process would accept: a restart does
\* not fail on the configuration that is running.
RestartSafe == [][ptr' # ptr => Loadable(ptr', Defaults)]_vars

\* Once the environment stays as it is, the published snapshot becomes the one
\* it describes, whatever reloads overlapped and in whatever order they swapped
\* and stored their fingerprints; unless that environment is rejected.
Converges ==
  <>[](\/ phase = "failed"
       \/ target = None
       \/ ptr = target)

\* Notifications are unordered and a subscription may miss one, yet each
\* subscriber ends up with the published snapshot: a later notification repairs
\* what an earlier one left.
SubscribersConverge ==
  <>[](\/ phase = "failed"
       \/ target = None
       \/ \A u \in subscribed : latest[u] = ptr)

\* "Snapshot is a typed, immutable collection of Config sections"
\* (manager.go:33): what a reader sees in a published snapshot never changes.
SnapshotImmutable ==
  [][ptr # None /\ ptr' = ptr => SnapshotNow(ptr, shared') = SnapshotNow(ptr, shared)]_vars
=============================================================================
