------------------------------ MODULE RateLimiter ------------------------------
(* The tenant rate limiters of internal/resilience/rate_limiter.go and the   *)
(* chains of them that a call passes: api/grpc/rate_limiting.go and           *)
(* api/rest/rate_limiting.go.  Each limiter keeps a token bucket per client,   *)
(* made when the client first calls and dropped when it has been idle.         *)
EXTENDS Integers, Sequences, FiniteSets

CONSTANTS
  Limiters,      \* the TenantRateLimiters of the process
  defaultConfig, \* per limiter: its rate, in tokens per unit of time, and burst
  Configs,       \* what SetTenantConfig may set
  Headers,       \* what a call may carry: tenant and API key (None if not sent), address
  Requests,      \* what is called: <<"grpc", service, large>> or <<"rest", route, large>>
  Calls,         \* goroutines that serve calls
  maxIdleTime,
  callTime,      \* a call uses a bucket within so many units of looking it up
  None,          \* no bucket, no client
  Observed,      \* the limiter and the client whose calls are counted
  MaxTime,       \* bound: units of time
  MaxBuckets,    \* bound: buckets made
  MaxConfigs     \* bound: calls of SetTenantConfig

\* A bucket that is dropped would have been full again: it was looked up more
\* than maxIdleTime ago, so used more than maxIdleTime - callTime ago.
RefillAssumption ==
  /\ maxIdleTime \in Nat /\ callTime \in 0 .. maxIdleTime
  /\ \A c \in Configs \cup {defaultConfig[l] : l \in Limiters} :
       c.rate \in Nat /\ c.burst \in Nat /\ (maxIdleTime + 1 - callTime) * c.rate >= c.burst

VARIABLES
  now,
  buckets,       \* the buckets ever made, which a call may still hold
  limiters,      \* per limiter and client: the bucket in the map
  lastUsed,      \* per limiter and client
  tenantConfigs, \* per limiter and client: the custom configuration
  call,          \* per goroutine: the client, the limiters ahead, the bucket it holds
  watching,      \* auxiliary: the counting has begun
  credit,        \* auxiliary: how many more calls the configuration allows
  settings       \* how often SetTenantConfig was called

vars == <<now, buckets, limiters, lastUsed, tenantConfigs, call, watching, credit, settings>>

-----------------------------------------------------------------------------
(* Clients and buckets.                                                    *)

\* A gRPC call is known by its tenant, else its API key, else its address, each
\* as soon as it is sent; an HTTP request must not leave it empty.
extractGRPCClientIdentifier(h) ==
  CASE h.tenant # None                     -> <<"tenant", h.tenant>>
    [] h.tenant = None /\ h.apiKey # None -> <<"api_key", h.apiKey>>
    [] OTHER                               -> <<"ip", h.address>>

extractClientIdentifier(h) ==
  LET sent(v) == IF v = "" THEN None ELSE v
  IN  extractGRPCClientIdentifier([h EXCEPT !.tenant = sent(@), !.apiKey = sent(@)])

Client(q, h) == IF q[1] = "grpc" THEN extractGRPCClientIdentifier(h) ELSE extractClientIdentifier(h)

Clients == {Client(q, h) : q \in Requests, h \in Headers}
Pairs   == Limiters \X Clients

Smaller(a, b) == IF a < b THEN a ELSE b

\* The tokens of a bucket at this time.
Tokens(b) == Smaller(b.burst, b.tokens + b.rate * (now - b.last))

\* What a bucket of this pair is made with.
Config(x) == IF tenantConfigs[x] = None THEN defaultConfig[x[1]] ELSE tenantConfigs[x]

Made(x) == limiters[x] # 0

\* Mutated form: only a new bucket counts as a use.
LastUsed_FirstOnly(x) == IF Made(x) THEN lastUsed ELSE [lastUsed EXCEPT ![x] = now]

\* getLimiter notes the use.
LastUsed(x) == [lastUsed EXCEPT ![x] = now]

-----------------------------------------------------------------------------
(* A call passes a chain of limiters, and is turned away by the first one    *)
(* that has no token left for its client.                                    *)

methodLimiter(service) == IF service \in {"trace", "metrics", "logs"} THEN service ELSE "metrics"
sizeLimiter(large)     == IF large THEN "large" ELSE "small"

ChainGRPCInterceptors(service, large) ==
  << <<"grpc">>, <<"grpc", methodLimiter(service)>>, <<"grpc", sizeLimiter(large)>> >>

\* The router's limiter, the route's own, and on the routes that ingest the one
\* for payloads of this size, which each route makes for itself.
Ingests(route) == route \in {"POST traces", "POST metrics", "POST logs"}
Queries(route) == route \in {"GET traces", "GET metrics", "GET logs"}
RestChain(route, large) ==
  << <<"rest">> >> \o (IF Ingests(route) \/ Queries(route) THEN << <<"rest", route>> >> ELSE <<>>)
                 \o (IF Ingests(route) THEN << <<"rest", route, sizeLimiter(large)>> >> ELSE <<>>)

Chain(q) == IF q[1] = "grpc" THEN ChainGRPCInterceptors(q[2], q[3]) ELSE RestChain(q[2], q[3])

\* The limiters are those of the chains, and the counted calls are those of a
\* client at one of them.
ChainsAssumption ==
  /\ \A q \in Requests : Chain(q) \in Seq(Limiters)
  /\ Observed \in Pairs /\ None \notin Configs /\ MaxTime \in Nat

Idle == [client |-> None, chain |-> <<>>, bucket |-> 0]
Ahead(g) == <<Head(call[g].chain), call[g].client>>

Arrive(g) ==
  /\ call[g] = Idle
  /\ \E h \in Headers, q \in Requests :
       call' = [call EXCEPT ![g].client = Client(q, h), ![g].chain = Chain(q)]
  /\ UNCHANGED <<now, buckets, limiters, lastUsed, tenantConfigs, watching, credit, settings>>

\* Under the mutex; the bucket is used after it was released.
getLimiter(g) ==
  /\ call[g] # Idle /\ call[g].bucket = 0
  /\ LET x == Ahead(g) IN
     /\ lastUsed' = LastUsed(x)
     /\ IF Made(x)
        THEN /\ call' = [call EXCEPT ![g].bucket = limiters[x]]
             /\ UNCHANGED <<buckets, limiters>>
        ELSE /\ Len(buckets) < MaxBuckets
             /\ LET c == Config(x) IN
                buckets' = Append(buckets, [tokens |-> c.burst, last |-> now, rate |-> c.rate, burst |-> c.burst])
             /\ limiters' = [limiters EXCEPT ![x] = Len(buckets')]
             /\ call' = [call EXCEPT ![g].bucket = Len(buckets')]
  /\ UNCHANGED <<now, tenantConfigs, watching, credit, settings>>

\* A token is taken if there is one, and stays taken although a limiter further
\* on turns the call away.  The last limiter of the chain passes the call on to
\* its handler.
Allow(g) ==
  /\ call[g].bucket # 0
  /\ LET b == buckets[call[g].bucket]
         allowed == Tokens(b) >= 1
     IN  /\ buckets' = [buckets EXCEPT ![call[g].bucket] =
                          IF allowed THEN [@ EXCEPT !.tokens = Tokens(b) - 1, !.last = now] ELSE @]
         /\ credit' = IF allowed /\ watching /\ Ahead(g) = Observed THEN credit - 1 ELSE credit
         /\ call' = [call EXCEPT ![g] =
                       IF allowed /\ Len(@.chain) > 1
                       THEN [call[g] EXCEPT !.chain = Tail(@), !.bucket = 0] ELSE Idle]
  /\ UNCHANGED <<now, limiters, lastUsed, tenantConfigs, watching, settings>>

-----------------------------------------------------------------------------
(* Configuration, cleanup and time.                                        *)

\* An existing bucket takes what it has earned so far, and the new settings.
SetTenantConfig(x) ==
  /\ settings < MaxConfigs
  /\ settings' = settings + 1
  /\ \E c \in Configs :
       /\ tenantConfigs' = [tenantConfigs EXCEPT ![x] = c]
       /\ buckets' = IF Made(x)
                     THEN [buckets EXCEPT ![limiters[x]] =
                             [tokens |-> Tokens(@), last |-> now, rate |-> c.rate, burst |-> c.burst]]
                     ELSE buckets
       /\ credit' = IF watching /\ x = Observed /\ c.burst > Config(x).burst
                    THEN credit + c.burst - Config(x).burst ELSE credit
  /\ UNCHANGED <<now, limiters, lastUsed, call, watching>>

\* Every interval, under the mutex: buckets unused for too long are dropped, and
\* with them lastUsed, which is not read again before the next use.
cleanup(l) ==
  /\ limiters' = [x \in Pairs |-> IF x[1] = l /\ now - lastUsed[x] > maxIdleTime THEN 0 ELSE limiters[x]]
  /\ UNCHANGED <<now, buckets, lastUsed, tenantConfigs, call, watching, credit, settings>>

\* A call uses its bucket within callTime.
Tick ==
  /\ now < MaxTime
  /\ \A g \in Calls : call[g].bucket # 0 => now - lastUsed[Ahead(g)] < callTime
  /\ now' = now + 1
  /\ credit' = IF watching THEN credit + Config(Observed).rate ELSE credit
  /\ UNCHANGED <<buckets, limiters, lastUsed, tenantConfigs, call, watching, settings>>

\* The counting begins at any time.
Observe ==
  /\ ~watching /\ watching' = TRUE
  /\ credit' = Config(Observed).burst
  /\ UNCHANGED <<now, buckets, limiters, lastUsed, tenantConfigs, call, settings>>

-----------------------------------------------------------------------------

Init ==
  /\ now = 0 /\ buckets = <<>>
  /\ limiters = [x \in Pairs |-> 0] /\ lastUsed = [x \in Pairs |-> 0]
  /\ tenantConfigs = [x \in Pairs |-> None]
  /\ call = [g \in Calls |-> Idle]
  /\ watching = FALSE /\ credit = 0 /\ settings = 0

Next ==
  \/ \E g \in Calls : Arrive(g) \/ getLimiter(g) \/ Allow(g)
  \/ \E x \in Pairs : SetTenantConfig(x)
  \/ \E l \in Limiters : cleanup(l)
  \/ Tick \/ Observe

Spec == Init /\ [][Next]_vars

-----------------------------------------------------------------------------
(* Properties.                                                             *)

TypeOK ==
  /\ now \in 0 .. MaxTime
  /\ \A i \in DOMAIN buckets : buckets[i].tokens \in Nat /\ buckets[i].last \in 0 .. now
  /\ \A x \in Pairs : limiters[x] \in 0 .. Len(buckets) /\ lastUsed[x] \in 0 .. now
  /\ \A g \in Calls : call[g].bucket # 0 =>
       call[g].bucket \in DOMAIN buckets /\ call[g].chain # <<>> /\ call[g].client \in Clients

\* Over any period, a limiter admits no more calls of a client than its burst
\* and its rate allow: neither goroutines that look up and use a bucket at the
\* same time, nor the cleanup, which forgets how much a client has used, nor a
\* change of its settings give it more than the new burst.
RateKept == credit >= 0
=============================================================================
