------------------------- MODULE ConfigManagerProofs -------------------------
(* Proofs about ConfigManager, for any environments, providers, callers and *)
(* subscribers.  What earlier loads wrote into the defaults decides neither *)
(* whether settings decode nor whether they validate; so what the pointer   *)
(* holds is always something that a new process would accept.               *)
EXTENDS ConfigManager, SequenceTheorems, WellFoundedInduction, TLAPS

-----------------------------------------------------------------------------
(* Loading over other defaults.                                             *)

\* The default version of the app section is a field with a kind.
LEMMA AppKinds == \A k \in DOMAIN appFields \cap SharedKeys : "kind" \in DOMAIN appFields[k]
<1>1. DOMAIN appFields = {"APP_APP_NAME", "APP_VERSION", "APP_ENVIRONMENT", "APP_LOG_LEVEL", "APP_LOG_FORMAT"}
  BY DEF appFields
<1>2. appFields["APP_VERSION"] = Field("version", appDefaults.version)
  BY DEF appFields
<1>3. \A kind, default : "kind" \in DOMAIN Field(kind, default)
  BY DEF Field
<1>4. DOMAIN appFields \cap SharedKeys = {"APP_VERSION"}
  BY <1>1 DEF SharedKeys
<1> QED BY <1>2, <1>3, <1>4

\* The default lists of the http section are fields with kinds.
LEMMA HttpKinds == \A k \in DOMAIN httpFields \cap SharedKeys : "kind" \in DOMAIN httpFields[k]
<1>1. "APP_VERSION" \notin DOMAIN httpFields
  BY DEF httpFields
<1>2. /\ httpFields["HTTP_CORS_ALLOWED_ORIGINS"] = Field("list", httpLimits.cors_origins)
      /\ httpFields["HTTP_CORS_ALLOWED_METHODS"] = Field("list", httpLimits.cors_methods)
      /\ httpFields["HTTP_CORS_ALLOWED_HEADERS"] = Field("list", httpLimits.cors_headers)
      /\ httpFields["HTTP_CORS_EXPOSED_HEADERS"] = Field("list", httpLimits.cors_exposed)
  BY DEF httpFields
<1>3. \A kind, default : "kind" \in DOMAIN Field(kind, default)
  BY DEF Field
<1> QED BY <1>1, <1>2, <1>3 DEF SharedKeys

\* The keys that Validate of the http section, and validateAll, look at.
Looked ==
  {"HTTP_PORT", "HTTP_READ_TIMEOUT", "HTTP_WRITE_TIMEOUT", "HTTP_IDLE_TIMEOUT",
   "HTTP_SHUTDOWN_TIMEOUT", "HTTP_MAX_REQUEST_SIZE", "HTTP_MAX_HEADER_SIZE", "HTTP_RATE_LIMIT_RPS",
   "HTTP_RATE_LIMIT_BURST", "HTTP_TLS_ENABLED", "HTTP_TLS_CERT_FILE", "HTTP_TLS_KEY_FILE",
   "HTTP_ENABLE_AUTH", "HTTP_JWT_SECRET", "HTTP_JWT_ISSUER", "HTTP_JWT_AUDIENCE",
   "HTTP_JWT_EXPIRY", "HTTP_JWT_REFRESH_WINDOW", "HTTP_ENABLE_CORS", "HTTP_CORS_MAX_AGE",
   "HTTP_COMPRESSION_LEVEL", "HTTP_COMPRESSION_THRESHOLD", "HTTP_KEEP_ALIVE",
   "HTTP_KEEP_ALIVE_TIMEOUT", "HTTP_ENABLE_SWAGGER", "HTTP_SWAGGER_PATH"}

\* Validate of the http section looks at none of the defaults that loading
\* writes through.
LEMMA LookedNames == Looked \subseteq DOMAIN httpFields /\ Looked \cap SharedKeys = {}
<1>1. Looked \cap SharedKeys = {}
  BY DEF Looked, SharedKeys
<1>2. Looked \subseteq DOMAIN httpFields
  BY DEF httpFields, Looked
<1> QED BY <1>1, <1>2

\* Two http sections that agree on what Validate looks at get the same verdict.
LEMMA SameVerdict ==
  ASSUME NEW c, NEW d, \A k \in Looked : c[k] = d[k]
  PROVE  httpValidate(c) <=> httpValidate(d)
<1> DEFINE RT == {"HTTP_READ_TIMEOUT", "HTTP_WRITE_TIMEOUT", "HTTP_IDLE_TIMEOUT", "HTTP_SHUTDOWN_TIMEOUT"}
           JT == {"HTTP_JWT_SECRET", "HTTP_JWT_ISSUER", "HTTP_JWT_AUDIENCE"}
<1>1. RT \subseteq Looked /\ JT \subseteq Looked
  BY DEF Looked
<1>2. /\ (\A k \in RT : c[k] = d[k]) /\ (\A k \in JT : c[k] = d[k])
  BY <1>1
<1>3. /\ c.HTTP_PORT = d.HTTP_PORT /\ c.HTTP_MAX_REQUEST_SIZE = d.HTTP_MAX_REQUEST_SIZE
      /\ c.HTTP_MAX_HEADER_SIZE = d.HTTP_MAX_HEADER_SIZE /\ c.HTTP_RATE_LIMIT_RPS = d.HTTP_RATE_LIMIT_RPS
      /\ c.HTTP_RATE_LIMIT_BURST = d.HTTP_RATE_LIMIT_BURST /\ c.HTTP_TLS_ENABLED = d.HTTP_TLS_ENABLED
      /\ c.HTTP_TLS_CERT_FILE = d.HTTP_TLS_CERT_FILE /\ c.HTTP_TLS_KEY_FILE = d.HTTP_TLS_KEY_FILE
      /\ c.HTTP_ENABLE_AUTH = d.HTTP_ENABLE_AUTH /\ c.HTTP_JWT_EXPIRY = d.HTTP_JWT_EXPIRY
      /\ c.HTTP_JWT_REFRESH_WINDOW = d.HTTP_JWT_REFRESH_WINDOW /\ c.HTTP_ENABLE_CORS = d.HTTP_ENABLE_CORS
      /\ c.HTTP_CORS_MAX_AGE = d.HTTP_CORS_MAX_AGE /\ c.HTTP_COMPRESSION_LEVEL = d.HTTP_COMPRESSION_LEVEL
      /\ c.HTTP_COMPRESSION_THRESHOLD = d.HTTP_COMPRESSION_THRESHOLD /\ c.HTTP_KEEP_ALIVE = d.HTTP_KEEP_ALIVE
      /\ c.HTTP_KEEP_ALIVE_TIMEOUT = d.HTTP_KEEP_ALIVE_TIMEOUT
  BY DEF Looked
<1> QED BY <1>2, <1>3, Zenon DEF httpValidate

\* What the shared defaults hold changes the defaults of their own fields only.
LEMMA CurrentOnly ==
  ASSUME NEW fields, NEW d, DOMAIN d = SharedKeys,
         \A k \in DOMAIN fields \cap SharedKeys : "kind" \in DOMAIN fields[k]
  PROVE  /\ DOMAIN Current(fields, d) = DOMAIN fields
         /\ \A k \in DOMAIN fields : Current(fields, d)[k].kind = fields[k].kind
         /\ \A k \in DOMAIN fields \ SharedKeys : Current(fields, d)[k] = fields[k]
<1>1. ASSUME NEW k \in DOMAIN fields \cap SharedKeys
      PROVE  Current(fields, d)[k].kind = fields[k].kind
  <2>1. "kind" \in DOMAIN fields[k]
    OBVIOUS
  <2>2. Current(fields, d)[k] = [fields[k] EXCEPT !.default = d[k]]
    BY DEF Current
  <2> QED BY <2>1, <2>2
<1> QED BY <1>1 DEF Current

\* So a section that decodes over one state of the shared defaults decodes over
\* another, and the results agree on every other field.
LEMMA DecodeOnly ==
  ASSUME NEW fields, NEW d, NEW e, NEW m, DOMAIN d = SharedKeys, DOMAIN e = SharedKeys,
         \A k \in DOMAIN fields \cap SharedKeys : "kind" \in DOMAIN fields[k],
         NEW c \in DecodePrefixInto(Current(fields, d), m)
  PROVE  \E b \in DecodePrefixInto(Current(fields, e), m) :
           \A k \in DOMAIN fields \ SharedKeys : b[k] = c[k]
<1> DEFINE F == Current(fields, d)
           G == Current(fields, e)
           P(f, k) == Decoded(f[k].kind, m[k])
           V(f, k) == LET v == CHOOSE v \in P(f, k) : TRUE
                      IN  IF f[k].kind = "list" THEN Overlay(v, f[k].default) ELSE v
           R(f) == [k \in DOMAIN f |-> IF k \in Section(f, m) THEN V(f, k) ELSE f[k].default]
<1>1. /\ DOMAIN F = DOMAIN fields /\ DOMAIN G = DOMAIN fields
      /\ \A k \in DOMAIN fields : F[k].kind = G[k].kind
      /\ \A k \in DOMAIN fields \ SharedKeys : F[k] = G[k]
  BY CurrentOnly
<1>2. \A f : DecodePrefixInto(f, m) = IF \E k \in Section(f, m) : P(f, k) = {} THEN {} ELSE {R(f)}
  BY DEF DecodePrefixInto
<1> HIDE DEF F, G
<1>3. Section(F, m) = Section(G, m) /\ Section(F, m) \subseteq DOMAIN fields
  BY <1>1 DEF Section
<1>4. \A k \in DOMAIN fields : P(F, k) = P(G, k)
  BY <1>1
<1>5. c = R(F) /\ R(G) \in DecodePrefixInto(G, m)
  BY <1>2, <1>3, <1>4 DEF F
<1>6. ASSUME NEW k \in DOMAIN fields \ SharedKeys
      PROVE  R(G)[k] = R(F)[k]
  <2>1. F[k] = G[k]
    BY <1>1
  <2> QED BY <2>1, <1>1, <1>3
<1> QED BY <1>5, <1>6 DEF G

\* Whether settings load does not depend on what earlier loads wrote into the
\* defaults that FromResolver decodes over.
THEOREM LoadableAnyway ==
  ASSUME NEW d, NEW e, NEW m, DOMAIN d = SharedKeys, DOMAIN e = SharedKeys, Loadable(m, d)
  PROVE  Loadable(m, e)
<1>1. PICK s \in decode(m, d) : validateAll(s)
  BY DEF Loadable
<1>2. s.APP \in appFromResolver(m, d) /\ s.HTTP \in httpFromResolver(m, d)
  BY DEF decode
<1>3. PICK a \in DecodePrefixInto(Current(appFields, e), m) : TRUE
  BY <1>2, AppKinds, DecodeOnly DEF appFromResolver
<1>4. PICK h \in DecodePrefixInto(Current(httpFields, e), m) :
             \A k \in DOMAIN httpFields \ SharedKeys : h[k] = s.HTTP[k]
  <2>1. s.HTTP \in DecodePrefixInto(Current(httpFields, d), m)
    BY <1>2 DEF httpFromResolver
  <2> QED BY <2>1, HttpKinds, DecodeOnly
<1>5. \A k \in Looked : h[k] = s.HTTP[k]
  BY <1>4, LookedNames
<1>6. httpValidate(s.HTTP)
  BY <1>1 DEF validateAll
<1>7. httpValidate(h)
  BY <1>5, <1>6, SameVerdict
<1> DEFINE t == [s EXCEPT !.APP = a, !.HTTP = h]
<1>8. t \in decode(m, e)
  <2>1. a \in appFromResolver(m, e) /\ h \in httpFromResolver(m, e)
    BY <1>3, <1>7 DEF appFromResolver, appValidate, httpFromResolver
  <2> QED BY <2>1 DEF decode
<1>9. /\ t.GRPCServer = s.GRPCServer /\ t.APP = a /\ t.HTTP = h /\ t.Data = s.Data
      /\ t.ClickHouse = s.ClickHouse /\ t.Redis = s.Redis /\ t.S3 = s.S3 /\ t.Kinesis = s.Kinesis
      /\ t.Monitoring = s.Monitoring /\ t.CircuitBreaker = s.CircuitBreaker /\ t.DLQ = s.DLQ
      /\ t.Testing = s.Testing /\ t.Features = s.Features
  BY DEF decode
<1>10. /\ t.HTTP.HTTP_PORT = s.HTTP.HTTP_PORT
       /\ t.HTTP.HTTP_ENABLE_SWAGGER = s.HTTP.HTTP_ENABLE_SWAGGER
       /\ t.HTTP.HTTP_SWAGGER_PATH = s.HTTP.HTTP_SWAGGER_PATH
  BY <1>5, <1>9 DEF Looked
<1> HIDE DEF t
<1>11. validateAll(t)
  BY <1>1, <1>7, <1>9, <1>10, Zenon DEF validateAll, appValidate
<1> QED BY <1>8, <1>11 DEF Loadable

-----------------------------------------------------------------------------
(* Layers and merges.                                                       *)

\* A set of naturals that is not empty has a least one.
LEMMA Least ==
  ASSUME NEW S \in SUBSET Nat, S # {}
  PROVE  \E i \in S : \A j \in S : i <= j
<1>1. PICK i \in S : ~ \E j \in S : <<j, i>> \in OpToRel(<, Nat)
  BY NatLessThanWellFounded, WFMin
<1>2. \A j \in S : ~(j < i)
  BY <1>1 DEF OpToRel
<1> QED BY <1>2

\* A set of indices that is not empty has a greatest one.
LEMMA GreatestIndex ==
  ASSUME NEW n \in Nat, NEW I \in SUBSET (1 .. n), I # {}
  PROVE  \E i \in I : \A j \in 1 .. n : j > i => j \notin I
<1> DEFINE D == {x \in Nat : n - x \in I}
<1>1. D # {} /\ D \in SUBSET Nat
  <2>1. PICK i \in I : TRUE
    OBVIOUS
  <2>2. n - i \in Nat /\ n - (n - i) = i
    OBVIOUS
  <2> QED BY <2>1, <2>2
<1> HIDE DEF D
<1>2. PICK x \in D : \A y \in D : x <= y
  BY <1>1, Least
<1> USE DEF D
<1>3. ASSUME NEW j \in 1 .. n, j > n - x, j \in I
      PROVE  FALSE
  <2>1. n - j \in Nat /\ n - (n - j) = j
    OBVIOUS
  <2>2. n - j \in D
    BY <2>1, <1>3
  <2> QED BY <2>2, <1>2, <1>3
<1> QED BY <1>2, <1>3

\* Provider.Load returns a map of settings.
LEMMA LayerOfSettings == env \in Environments0 => \A i : ProviderLoad(i) \in Settings
<1> SUFFICES ASSUME env \in Environments0, NEW i
             PROVE  ProviderLoad(i) \in Settings
  OBVIOUS
<1> DEFINE keys  == UNION {DOMAIN e : e \in Environments0}
           texts == UNION {{e[k] : k \in DOMAIN e} : e \in Environments0}
           K     == DOMAIN env \cap Prefixes[i]
<1>1. K \in SUBSET keys
  OBVIOUS
<1>2. \A k \in K : env[k] \in texts
  OBVIOUS
<1> HIDE DEF texts, keys
<1>3. ProviderLoad(i) \in [K -> texts]
  BY <1>2 DEF ProviderLoad
<1> QED BY <1>1, <1>3 DEF Settings, keys, texts

\* Merging layers gives a map of settings: the CHOOSE of the last layer that
\* has a key finds one.
LEMMA MergeOfSettings ==
  ASSUME NEW layers \in Seq(Settings)
  PROVE  Merge(layers) \in Settings
<1> DEFINE keys  == UNION {DOMAIN e : e \in Environments0}
           texts == UNION {{e[k] : k \in DOMAIN e} : e \in Environments0}
           K     == UNION {DOMAIN layers[i] : i \in DOMAIN layers}
           Latest(k, i) == k \in DOMAIN layers[i] /\ \A j \in DOMAIN layers : j > i => k \notin DOMAIN layers[j]
           Last(k) == CHOOSE i \in DOMAIN layers : Latest(k, i)
<1>1. Settings = UNION {[S -> texts] : S \in SUBSET keys}
  BY DEF Settings
<1> HIDE DEF texts, keys
<1>2. ASSUME NEW i \in DOMAIN layers
      PROVE  DOMAIN layers[i] \in SUBSET keys /\ \A k \in DOMAIN layers[i] : layers[i][k] \in texts
  <2>1. layers[i] \in Settings
    OBVIOUS
  <2>2. PICK S \in SUBSET keys : layers[i] \in [S -> texts]
    BY <2>1, <1>1
  <2> QED BY <2>2
<1>3. K \in SUBSET keys
  BY <1>2
<1>4. ASSUME NEW k \in K
      PROVE  layers[Last(k)][k] \in texts
  <2> DEFINE I == {i \in DOMAIN layers : k \in DOMAIN layers[i]}
  <2>1. Len(layers) \in Nat /\ DOMAIN layers = 1 .. Len(layers)
    OBVIOUS
  <2>2. I # {} /\ I \in SUBSET (1 .. Len(layers))
    BY <2>1
  <2>3. PICK i \in I : \A j \in 1 .. Len(layers) : j > i => j \notin I
    BY <2>1, <2>2, GreatestIndex
  <2>4. Latest(k, i) /\ i \in DOMAIN layers
    BY <2>1, <2>3
  <2>5. Last(k) \in DOMAIN layers /\ Latest(k, Last(k))
    BY <2>4
  <2> QED BY <2>5, <1>2
<1>5. Merge(layers) = [k \in K |-> layers[Last(k)][k]]
  BY DEF Merge
<1> HIDE DEF K, Last
<1>6. Merge(layers) \in [K -> texts]
  BY <1>4, <1>5
<1> QED BY <1>1, <1>3, <1>6

-----------------------------------------------------------------------------
(* The invariant.                                                           *)

\* The types of a reload, and the stages that have a plan and have swapped it.
Planned == {"swap", "store", "store and notify"}
Storing == {"store", "store and notify"}
Reloading ==
  [at : {"idle", "fetch", "plan"} \cup Planned, layers : Seq(Settings), plan : Settings \cup {None}]

\* The inductive invariant: a plan that is under way to the pointer would load
\* in a new process, and the pointer is set before its fingerprint is stored.
Inv ==
  /\ TypeOK
  /\ reload \in [Reloaders -> Reloading]
  /\ ptr \in Settings \cup {None}
  /\ inFlight \in [Subscribers -> SUBSET Settings]
  /\ latest \in [Subscribers -> Settings \cup {None}]
  /\ \A r \in Reloaders : reload[r].at \in Planned =>
       reload[r].plan \in Settings /\ Loadable(reload[r].plan, Defaults)
  /\ \A r \in Reloaders : reload[r].at \in Storing => ptr # None

\* The shared defaults at the start.
LEMMA DefaultKeys == DOMAIN Defaults = SharedKeys
BY DEF Defaults

\* A reload that has not begun, and one that has just.
LEMMA FirstStep == /\ Idle \in Reloading /\ Idle.at = "idle"
                   /\ Begin \in Reloading /\ Begin.at = "fetch"
<1>1. <<>> \in Seq(Settings)
  OBVIOUS
<1>2. Begin = [at |-> "fetch", layers |-> <<>>, plan |-> None]
  BY DEF Begin, Idle
<1> QED BY <1>1, <1>2 DEF Idle, Reloading

\* A new process satisfies the invariant.
LEMMA InitInv == Init => Inv
<1> SUFFICES ASSUME Init PROVE Inv
  OBVIOUS
<1>1. TypeOK
  <2>1. \A r \in Reloaders : reload[r].at \in {"idle", "fetch"}
    BY FirstStep DEF Init
  <2>2. 0 \in 0 .. MaxChanges /\ 0 \in 0 .. MaxCalls
    BY ConfigAssumption DEF ConfigAssumption
  <2>3. DOMAIN shared = SharedKeys
    BY DefaultKeys DEF Init
  <2> QED BY <2>1, <2>2, <2>3 DEF Init, TypeOK
<1>2. reload \in [Reloaders -> Reloading] /\ \A r \in Reloaders : reload[r].at \notin Planned \cup Storing
  BY FirstStep DEF Init, Planned, Storing
<1> QED BY <1>1, <1>2 DEF Init, Inv

\* fetchLayers keeps the invariant.
LEMMA FetchKeeps == Inv /\ (\E r \in Reloaders : Fetch(r)) => Inv'
<1> SUFFICES ASSUME Inv, NEW r \in Reloaders, Fetch(r) PROVE Inv'
  OBVIOUS
<1> DEFINE next == reload'[r]
<1>1. /\ next.at \in {"plan", "fetch"} /\ next \in Reloading
      /\ reload' = [reload EXCEPT ![r] = next]
  <2>1. reload[r] \in Reloading /\ reload \in [Reloaders -> Reloading]
    BY DEF Inv
  <2>2. ProviderLoad(Len(reload[r].layers) + 1) \in Settings
    BY LayerOfSettings DEF Inv, TypeOK
  <2>3. Append(reload[r].layers, ProviderLoad(Len(reload[r].layers) + 1)) \in Seq(Settings)
    BY <2>1, <2>2 DEF Reloading
  <2> QED BY <2>1, <2>3 DEF Fetch, Reloading
<1>2. UNCHANGED <<env, shared, ptr, events, tick, phase, inFlight, latest, subscribed, changes, calls>>
  BY DEF Fetch
<1> QED BY <1>1, <1>2 DEF Inv, TypeOK, Planned, Storing

\* createPlan keeps the invariant: what it accepts over the defaults as they are
\* now, a new process accepts over its own.
LEMMA CreatePlanKeeps == Inv /\ (\E r \in Reloaders : CreatePlan(r)) => Inv'
<1> SUFFICES ASSUME Inv, NEW r \in Reloaders, CreatePlan(r) PROVE Inv'
  OBVIOUS
<1> DEFINE merged == Merge(reload[r].layers)
           next   == reload'[r]
<1>1. reload[r] \in Reloading /\ reload \in [Reloaders -> Reloading] /\ DOMAIN shared = SharedKeys
  BY DEF Inv, TypeOK
<1>2. merged \in Settings
  BY <1>1, MergeOfSettings DEF Reloading
<1>3. Accepted(merged) => Loadable(merged, Defaults)
  BY <1>1, DefaultKeys, LoadableAnyway DEF Accepted
<1>4. DOMAIN shared' = SharedKeys
  BY <1>1 DEF CreatePlan, WrittenThrough
<1>5. /\ reload' = [reload EXCEPT ![r] = next] /\ next \in Reloading
      /\ next.at \in {"idle", "swap"}
      /\ next.at \in Planned => next.plan \in Settings /\ Loadable(next.plan, Defaults)
      /\ phase' \in {phase, "failed"}
  <2> HIDE DEF merged
  <2>1. Idle \in Reloading /\ Idle.at = "idle"
    BY DEF Idle, Reloading
  <2>2. CASE reload' = [reload EXCEPT ![r] = Idle] /\ phase' \in {phase, "failed"}
    BY <1>1, <2>1, <2>2 DEF Planned
  <2>3. CASE /\ reload' = [reload EXCEPT ![r].plan = merged, ![r].at = "swap"] /\ phase' = phase
             /\ Accepted(merged)
    BY <1>1, <1>2, <1>3, <2>3 DEF Reloading, Planned
  <2> QED BY <2>2, <2>3 DEF CreatePlan, Rejected, merged
<1>6. UNCHANGED <<env, ptr, events, tick, inFlight, latest, subscribed, changes, calls>>
  BY DEF CreatePlan
<1>7. phase' \in {"loading", "ready", "failed"} /\ (phase' = "ready" => ptr' # None)
  BY <1>5, <1>6 DEF Inv, TypeOK
<1>8. \A q \in Reloaders : q # r => reload'[q] = reload[q]
  BY <1>1, <1>5
<1>9. TypeOK'
  <2>1. \A q \in Reloaders : reload'[q].at \in {"idle", "fetch", "plan", "swap", "store", "store and notify"}
    BY <1>5, <1>8 DEF Inv, TypeOK
  <2> QED BY <1>4, <1>6, <1>7, <2>1 DEF Inv, TypeOK
<1> QED BY <1>1, <1>5, <1>6, <1>8, <1>9 DEF Inv, Storing

\* The swap of the pointer keeps the invariant.
LEMMA SwapKeeps == Inv /\ (\E r \in Reloaders : Swap(r)) => Inv'
<1> SUFFICES ASSUME Inv, NEW r \in Reloaders, Swap(r) PROVE Inv'
  OBVIOUS
<1> DEFINE next == reload'[r]
<1>1. reload[r] \in Reloading /\ reload \in [Reloaders -> Reloading]
  BY DEF Inv
<1>2. ptr' \in Settings /\ Loadable(reload[r].plan, Defaults) /\ ptr' = reload[r].plan
  BY DEF Inv, Swap, Planned
<1>3. ptr' # None
  BY <1>2, ConfigAssumption DEF ConfigAssumption
<1>4. /\ reload' = [reload EXCEPT ![r] = next] /\ next \in Reloading
      /\ next.at \in Storing /\ next.plan = reload[r].plan
  BY <1>1 DEF Swap, Reloading, Planned, Storing
<1>5. UNCHANGED <<env, shared, events, tick, phase, inFlight, latest, subscribed, changes, calls>>
  BY DEF Swap
<1>6. \A q \in Reloaders : q # r => reload'[q] = reload[q]
  BY <1>1, <1>4
<1>7. TypeOK'
  BY <1>3, <1>4, <1>5, <1>6 DEF Inv, TypeOK, Storing
<1> QED BY <1>1, <1>2, <1>3, <1>4, <1>5, <1>6, <1>7 DEF Inv

\* Storing the fingerprint and notifying keeps the invariant.
LEMMA StoreKeeps == Inv /\ (\E r \in Reloaders : Store(r)) => Inv'
<1> SUFFICES ASSUME Inv, NEW r \in Reloaders, Store(r) PROVE Inv'
  OBVIOUS
<1>1. reload \in [Reloaders -> Reloading] /\ reload[r].plan \in Settings /\ ptr # None
  BY DEF Inv, Store, Planned, Storing
<1>2. Idle \in Reloading /\ Idle.at = "idle"
  BY DEF Idle, Reloading
<1>3. reload' = [reload EXCEPT ![r] = Idle] /\ phase' \in {phase, "ready"}
  BY DEF Store
<1>4. UNCHANGED <<env, shared, ptr, events, tick, latest, subscribed, changes, calls>>
  BY DEF Store
<1>5. inFlight' \in [Subscribers -> SUBSET Settings]
  <2>1. inFlight \in [Subscribers -> SUBSET Settings]
    BY DEF Inv
  <2>2. CASE inFlight' = inFlight
    BY <2>1, <2>2
  <2>3. CASE Broadcast(reload[r].plan)
    BY <1>1, <2>1, <2>3 DEF Broadcast
  <2> QED BY <2>2, <2>3 DEF Store
<1>6. \A q \in Reloaders : q # r => reload'[q] = reload[q]
  BY <1>1, <1>3
<1>7. TypeOK'
  BY <1>1, <1>2, <1>3, <1>4, <1>6 DEF Inv, TypeOK
<1> QED BY <1>1, <1>2, <1>3, <1>4, <1>5, <1>6, <1>7 DEF Inv, Planned, Storing

\* A call of Reload keeps the invariant.
LEMMA CallReloadKeeps == Inv /\ (\E c \in Callers : CallReload(c)) => Inv'
<1> SUFFICES ASSUME Inv, NEW c \in Callers, CallReload(c) PROVE Inv'
  OBVIOUS
<1>1. Begin \in Reloading /\ Begin.at = "fetch" /\ c \in Reloaders
  BY FirstStep DEF Reloaders
<1>2. reload \in [Reloaders -> Reloading] /\ reload' = [reload EXCEPT ![c] = Begin]
  BY DEF Inv, CallReload
<1>3. calls' \in 0 .. MaxCalls
  <2>1. calls \in 0 .. MaxCalls /\ MaxCalls \in Nat
    BY ConfigAssumption DEF ConfigAssumption, Inv, TypeOK
  <2>2. calls < MaxCalls /\ calls' = calls + 1
    BY DEF CallReload
  <2> QED BY <2>1, <2>2
<1>4. UNCHANGED <<env, shared, ptr, events, tick, phase, inFlight, latest, subscribed, changes>>
  BY DEF CallReload
<1> QED BY <1>1, <1>2, <1>3, <1>4 DEF Inv, TypeOK, Planned, Storing

\* The debounce timer keeps the invariant.
LEMMA TickKeeps == Inv /\ Tick => Inv'
<1> SUFFICES ASSUME Inv, Tick PROVE Inv'
  OBVIOUS
<1>1. Begin \in Reloading /\ Begin.at = "fetch" /\ "reloader" \in Reloaders
  BY FirstStep DEF Reloaders
<1>2. reload \in [Reloaders -> Reloading] /\ reload' = [reload EXCEPT !["reloader"] = Begin]
  BY DEF Inv, Tick
<1>3. tick' = FALSE /\ UNCHANGED <<env, shared, ptr, events, phase, inFlight, latest, subscribed, changes, calls>>
  BY DEF Tick
<1> QED BY <1>1, <1>2, <1>3 DEF Inv, TypeOK, Planned, Storing

\* Polling and arming the timer keep the invariant.
LEMMA WatchingKeeps == Inv /\ ((\E i \in DOMAIN Prefixes : Watch(i)) \/ Arm) => Inv'
<1> SUFFICES ASSUME Inv, (\E i \in DOMAIN Prefixes : Watch(i)) \/ Arm PROVE Inv'
  OBVIOUS
<1>1. events' \in BOOLEAN /\ tick' \in BOOLEAN
  BY DEF Inv, TypeOK, Watch, Arm
<1>2. UNCHANGED <<env, shared, ptr, reload, phase, inFlight, latest, subscribed, changes, calls>>
  BY DEF Watch, Arm
<1> QED BY <1>1, <1>2 DEF Inv, TypeOK

\* The subscribers' reads and handlers keep the invariant.
LEMMA SubscriberKeeps ==
  Inv /\ (\E u \in Subscribers : ReadSnapshot(u) \/ Subscribe(u) \/ Deliver(u)) => Inv'
<1> SUFFICES ASSUME Inv, NEW u \in Subscribers, ReadSnapshot(u) \/ Subscribe(u) \/ Deliver(u)
             PROVE  Inv'
  OBVIOUS
<1>1. UNCHANGED <<env, shared, ptr, reload, events, tick, phase, changes, calls>>
  BY DEF ReadSnapshot, Subscribe, Deliver
<1>2. /\ inFlight' \in [Subscribers -> SUBSET Settings]
      /\ latest' \in [Subscribers -> Settings \cup {None}]
      /\ subscribed' \subseteq Subscribers /\ \A v \in subscribed' : latest'[v] # None
  <2>1. CASE ReadSnapshot(u)
    BY <2>1 DEF Inv, TypeOK, ReadSnapshot
  <2>2. CASE Subscribe(u)
    BY <2>2 DEF Inv, TypeOK, Subscribe
  <2>3. CASE Deliver(u)
    <3>1. PICK s \in inFlight[u] :
             /\ latest' = [latest EXCEPT ![u] = s]
             /\ inFlight' = [inFlight EXCEPT ![u] = inFlight[u] \ {s}]
      BY <2>3 DEF Deliver
    <3>2. s \in Settings /\ s # None /\ subscribed' = subscribed
      BY <2>3, ConfigAssumption DEF ConfigAssumption, Inv, Deliver
    <3> QED BY <3>1, <3>2 DEF Inv, TypeOK
  <2> QED BY <2>1, <2>2, <2>3
<1> QED BY <1>1, <1>2 DEF Inv, TypeOK

\* A change of the environment keeps the invariant.
LEMMA SetEnvKeeps == Inv /\ SetEnv => Inv'
<1> SUFFICES ASSUME Inv, SetEnv PROVE Inv'
  OBVIOUS
<1>1. env' \in Environments0
  BY DEF SetEnv
<1>2. changes' \in 0 .. MaxChanges
  <2>1. changes \in 0 .. MaxChanges /\ MaxChanges \in Nat
    BY ConfigAssumption DEF ConfigAssumption, Inv, TypeOK
  <2>2. changes < MaxChanges /\ changes' = changes + 1
    BY DEF SetEnv
  <2> QED BY <2>1, <2>2
<1>3. UNCHANGED <<shared, ptr, reload, events, tick, phase, inFlight, latest, subscribed, calls>>
  BY DEF SetEnv
<1> QED BY <1>1, <1>2, <1>3 DEF Inv, TypeOK

\* Every step keeps the invariant.
LEMMA NextInv == Inv /\ [Next]_vars => Inv'
<1>1. Inv /\ UNCHANGED vars => Inv'
  BY DEF vars, Inv, TypeOK
<1> QED BY <1>1, FetchKeeps, CreatePlanKeeps, SwapKeeps, StoreKeeps, CallReloadKeeps, WatchingKeeps,
           TickKeeps, SubscriberKeeps, SetEnvKeeps DEF Next

\* The invariant holds in every state that is reached.
LEMMA InvKept == Spec => []Inv
BY InitInv, NextInv, PTL DEF Spec

\* Type invariant of manager.go: once NewManager has returned, a snapshot is
\* published, and whoever subscribed holds one.
THEOREM ConfigTypes == Spec => []TypeOK
<1>1. Inv => TypeOK
  BY DEF Inv
<1> QED BY <1>1, InvKept, PTL

\* The pointer that Reload swaps only ever takes settings that NewManager of a
\* new process accepts, whatever earlier loads wrote into the defaults.
THEOREM RestartsSafely == Spec => RestartSafe
<1>1. Inv /\ [Next]_vars => [ptr' # ptr => Loadable(ptr', Defaults)]_vars
  <2> SUFFICES ASSUME Inv, Next, ptr' # ptr PROVE Loadable(ptr', Defaults)
    BY DEF vars
  <2>1. PICK r \in Reloaders : Swap(r)
    BY DEF Next, Fetch, CreatePlan, Store, CallReload, Watch, Arm, Tick, ReadSnapshot,
       Subscribe, Deliver, SetEnv
  <2> QED BY <2>1 DEF Inv, Swap, Planned
<1> QED BY <1>1, InvKept, PTL DEF Spec, RestartSafe
=============================================================================
