------------------------------- MODULE Ingestion -------------------------------
(* What takes telemetry in: the three Export services of internal/grpc with   *)
(* the validator of internal/validation/protobuf.go, the HTTP handlers of       *)
(* internal/handlers, and the Kinesis client they publish through               *)
(* (kinesis.go, handler.go, publisher.go, stream_manager.go).  A trace that     *)
(* came by gRPC is handed to the Kinesis buffer, of which only the answers are  *)
(* modelled here: KinesisBuffer models the rest.  A client that is refused      *)
(* sends the whole request again.                                              *)
EXTENDS Integers, Sequences, FiniteSets

CONSTANTS
  Requests,      \* requests of clients
  Offers,        \* what one may be: [path, items, sound], items of [tenant, empty]
  Tenants,
  Environment,
  StreamSetups,  \* how the streams of the three kinds may be set up
  Burst,         \* tokens a tenant's bucket holds
  MaxConcurrentRequests,
  None,          \* no answer yet
  MaxAttempts,   \* bound: how often a client sends a request
  MaxRefills,    \* bound: tokens that are earned
  MaxFailures    \* bound: calls of Kinesis and flushes of the buffer that fail

IngestionAssumption ==
  /\ Burst \in Nat /\ MaxConcurrentRequests \in Nat \ {0} /\ MaxAttempts \in Nat \ {0}
  /\ None \notin {"ok", "invalid", "exhausted", "unavailable", "error"}
  /\ \A o \in Offers :
       /\ o.path \in {"trace", "metrics", "logs", "http"}
       /\ o.items \in Seq([tenant : Tenants, empty : BOOLEAN])
       /\ o.path = "http" => Len(o.items) = 1

VARIABLES
  streams,       \* of each kind: "named", "missing" in Kinesis, or "unnamed"
  resilient,     \* the buffer and the limiter were given to the trace service
  closed,        \* the buffer was closed
  dlq,           \* there is a dead letter queue
  offer,         \* per request: what it is
  pc,            \* per request: the next step of its handler
  at,            \* per request: the item it is at
  rejected,      \* per request: the items counted as rejected
  dropped,       \* auxiliary: per request, the items whose failure was only logged
  copies,        \* auxiliary: per request and item, how often it was handed over
  answer,        \* per request: the answer to its last attempt
  attempts,      \* per request
  concurrentRequests, \* per service: the validator's counter
  tokens,        \* per tenant: in the bucket the service and the buffer share
  refills, failures

setup    == <<streams, resilient, dlq>>
handlers == <<offer, pc, at, rejected, dropped, copies, answer, attempts>>
vars == <<setup, closed, handlers, concurrentRequests, tokens, refills, failures>>

Services == {"trace", "metrics", "logs"}
Kinds    == {"traces", "metrics", "logs"}

-----------------------------------------------------------------------------
(* The Kinesis client.                                                     *)

\* Streams without a name are skipped; one that does not answer is fatal in the
\* environments that count as production.
VerifyStreams == \A k \in Kinds : streams[k] # "missing"
NewKinesisClient ==
  VerifyStreams \/ Environment \notin {"production", "prod", "live", "staging", "stage"}

\* What PutRecord may do to a record of this kind: without a name of its stream
\* GetStreamName fails and it is not called; a call that timed out may
\* have stored it.
Kind(r) == IF offer[r].path = "trace" THEN "traces"
           ELSE IF offer[r].path = "http" THEN offer[r].kind ELSE offer[r].path
Reachable(r) == streams[Kind(r)] = "named"
PutRecord(r) ==
  IF ~Reachable(r) THEN {"lost"}
  ELSE IF failures < MaxFailures THEN {"stored", "lost", "timeout"} ELSE {"stored"}

-----------------------------------------------------------------------------
(* A client sends a request, and sends it again after an error.            *)

Label(r, l) == pc' = [pc EXCEPT ![r] = l]
Items(r) == offer[r].items

\* What answers a request ends its attempt.
Reply(r, a) == Label(r, "done") /\ answer' = [answer EXCEPT ![r] = a]

FirstStep(o) == IF o.path = "http" THEN "parse" ELSE "check"

Send(r) ==
  /\ pc[r] = "idle"
  /\ \E o \in Offers :
       /\ offer' = [offer EXCEPT ![r] = o] /\ Label(r, FirstStep(o))
       /\ copies' = [copies EXCEPT ![r] = [i \in DOMAIN o.items |-> 0]]
  /\ attempts' = [attempts EXCEPT ![r] = 1]
  /\ UNCHANGED <<setup, closed, at, rejected, dropped, answer, concurrentRequests, tokens, refills, failures>>

Resend(r) ==
  /\ answer[r] \in {"unavailable", "exhausted", "error"} /\ attempts[r] < MaxAttempts
  /\ Label(r, FirstStep(offer[r]))
  /\ attempts' = [attempts EXCEPT ![r] = @ + 1]
  /\ at' = [at EXCEPT ![r] = 1]
  /\ rejected' = [rejected EXCEPT ![r] = 0]
  /\ dropped' = [dropped EXCEPT ![r] = {}]
  /\ answer' = [answer EXCEPT ![r] = None]
  /\ UNCHANGED <<setup, closed, offer, copies, concurrentRequests, tokens, refills, failures>>

-----------------------------------------------------------------------------
(* The validator of each gRPC service.                                     *)

\* The counter is read here and raised in the next step, so more requests may
\* be validated at once than it allows.  The heap may be too large at any time.
checkMemoryPressure(r) ==
  /\ pc[r] = "check"
  /\ \/ concurrentRequests[offer[r].path] < MaxConcurrentRequests /\ Label(r, "count") /\ UNCHANGED answer
     \/ Reply(r, "exhausted")
  /\ UNCHANGED <<setup, closed, offer, at, rejected, dropped, copies, attempts, concurrentRequests, tokens, refills, failures>>

CountRequest(r) ==
  /\ pc[r] = "count"
  /\ concurrentRequests' = [concurrentRequests EXCEPT ![offer[r].path] = @ + 1]
  /\ Label(r, "validate")
  /\ UNCHANGED <<setup, closed, offer, at, rejected, dropped, copies, answer, attempts, tokens, refills, failures>>

\* Not too large, and without a part that is nil or that lacks an identifier, a
\* name or a timestamp.
Valid(r) == offer[r].sound

\* A request that is not is refused before any of it is handed over.  The
\* deferred decrement comes whatever the outcome.
ValidateRequest(r) ==
  /\ pc[r] = "validate"
  /\ concurrentRequests' = [concurrentRequests EXCEPT ![offer[r].path] = @ - 1]
  /\ IF Valid(r) THEN Label(r, "item") /\ UNCHANGED answer ELSE Reply(r, "invalid")
  /\ UNCHANGED <<setup, closed, offer, at, rejected, dropped, copies, attempts, tokens, refills, failures>>

-----------------------------------------------------------------------------
(* TraceService.Export.                                                    *)

\* All items were dealt with.
Finished(r) == at[r] > Len(Items(r))
Tenant(r)   == Items(r)[at[r]].tenant

\* The event of an item without data does not pass its check.
Validate(r) == ~Items(r)[at[r]].empty

Advance(r) == at' = [at EXCEPT ![r] = @ + 1]
Copy(r, n) == copies' = [copies EXCEPT ![r][at[r]] = @ + n]

Succeed(r) ==
  /\ pc[r] = "item" /\ Finished(r)
  /\ Reply(r, "ok")
  /\ UNCHANGED <<setup, closed, offer, at, rejected, dropped, copies, attempts, concurrentRequests, tokens, refills, failures>>

\* Mutated form: an item that is skipped is not counted.
CountRejected_Throttled(r, allowed) == IF allowed THEN rejected ELSE [rejected EXCEPT ![r] = @ + 1]

\* One for the whole of a resource's spans.
CountRejected(r, allowed) == [rejected EXCEPT ![r] = @ + 1]

\* A token of the tenant, then the check of the event: either way the item is
\* skipped and counted.
AdmitItem(r) ==
  /\ pc[r] = "item" /\ ~Finished(r) /\ offer[r].path = "trace"
  /\ LET allowed == resilient => tokens[Tenant(r)] > 0 IN
     /\ tokens' = IF resilient /\ allowed THEN [tokens EXCEPT ![Tenant(r)] = @ - 1] ELSE tokens
     /\ IF allowed /\ Validate(r)
        THEN Label(r, "hand over") /\ UNCHANGED <<at, rejected>>
        ELSE Advance(r) /\ rejected' = CountRejected(r, allowed) /\ UNCHANGED pc
  /\ UNCHANGED <<setup, closed, offer, dropped, copies, answer, attempts, concurrentRequests, refills, failures>>

\* Mutated form: an item given to the dead letter queue stays in the buffer too.
Handed_Both(failed) == IF failed THEN 2 ELSE 1

\* Where BufferEvent left an item: in the buffer or the dead letter queue.
Handed(failed) == 1

\* BufferEvent takes another token from the same bucket.  If the buffer is full
\* and its flush fails, the dead letter queue gets the item and the caller an
\* error.
Buffer(r) ==
  /\ pc[r] = "hand over" /\ resilient
  /\ LET t == Tenant(r) IN
     \/ /\ closed \/ tokens[t] = 0
        /\ Reply(r, "unavailable")
        /\ UNCHANGED <<at, copies, tokens, failures>>
     \/ /\ ~closed /\ tokens[t] > 0
        /\ tokens' = [tokens EXCEPT ![t] = @ - 1]
        /\ \/ Copy(r, Handed(FALSE)) /\ Advance(r) /\ Label(r, "item") /\ UNCHANGED <<answer, failures>>
           \/ /\ dlq /\ failures < MaxFailures /\ failures' = failures + 1
              /\ Copy(r, Handed(TRUE)) /\ Reply(r, "unavailable") /\ UNCHANGED at
  /\ UNCHANGED <<setup, closed, offer, rejected, dropped, attempts, concurrentRequests, refills>>

\* Without a buffer: straight to Kinesis, else to the dead letter queue, and
\* then the client is told to come again.
PublishDirect(r) ==
  /\ pc[r] = "hand over" /\ ~resilient
  /\ \E out \in PutRecord(r) :
       /\ Copy(r, (IF out = "lost" THEN 0 ELSE 1) + (IF out # "stored" /\ dlq THEN 1 ELSE 0))
       /\ failures' = IF out = "stored" \/ ~Reachable(r) THEN failures ELSE failures + 1
       /\ IF out = "stored" THEN Advance(r) /\ Label(r, "item") /\ UNCHANGED answer
                            ELSE Reply(r, "unavailable") /\ UNCHANGED at
  /\ UNCHANGED <<setup, closed, offer, rejected, dropped, attempts, concurrentRequests, tokens, refills>>

-----------------------------------------------------------------------------
(* MetricsService.Export, LogsService.Export and the HTTP handlers.        *)

\* An error is only logged.
Dropped(r, out) == IF out = "stored" THEN dropped ELSE [dropped EXCEPT ![r] = @ \cup {at[r]}]

\* HandleTelemetryEvent refuses an empty item and publishes any other; then the
\* services go on to the next item.
HandleTelemetryEvent(r) ==
  /\ pc[r] = "item" /\ ~Finished(r) /\ offer[r].path \in {"metrics", "logs"}
  /\ \E out \in IF Validate(r) THEN PutRecord(r) ELSE {"lost"} :
       /\ Copy(r, IF out = "lost" THEN 0 ELSE 1)
       /\ dropped' = Dropped(r, out)
       /\ failures' = IF out # "stored" /\ Validate(r) /\ Reachable(r) THEN failures + 1 ELSE failures
  /\ Advance(r)
  /\ UNCHANGED <<setup, closed, offer, pc, rejected, answer, attempts, concurrentRequests, tokens, refills>>

\* The content type and the JSON are checked.
HandleIngestion(r) ==
  /\ pc[r] = "parse"
  /\ IF offer[r].sound THEN Label(r, "publish") /\ UNCHANGED answer ELSE Reply(r, "invalid")
  /\ UNCHANGED <<setup, closed, offer, at, rejected, dropped, copies, attempts, concurrentRequests, tokens, refills, failures>>

\* What a client is told of the outcome of publishing its body.
Outcome(out) == IF out = "stored" THEN "ok" ELSE "error"

\* The body is one record, published within 10 seconds.
ProcessTelemetryData(r) ==
  /\ pc[r] = "publish"
  /\ \E out \in PutRecord(r) :
       /\ Copy(r, IF out = "lost" THEN 0 ELSE 1)
       /\ Reply(r, Outcome(out))
       /\ failures' = IF out = "stored" \/ ~Reachable(r) THEN failures ELSE failures + 1
  /\ UNCHANGED <<setup, closed, offer, at, rejected, dropped, attempts, concurrentRequests, tokens, refills>>

-----------------------------------------------------------------------------

\* A token is earned.
Refill(t) ==
  /\ tokens[t] < Burst /\ refills < MaxRefills
  /\ tokens' = [tokens EXCEPT ![t] = @ + 1]
  /\ refills' = refills + 1
  /\ UNCHANGED <<setup, closed, handlers, concurrentRequests, failures>>

\* Requests that outlast the shutdown of the servers find the buffer closed.
CloseBuffer ==
  /\ ~closed /\ closed' = TRUE
  /\ UNCHANGED <<setup, handlers, concurrentRequests, tokens, refills, failures>>

Init ==
  /\ streams \in StreamSetups /\ NewKinesisClient
  /\ resilient \in BOOLEAN /\ dlq \in BOOLEAN /\ closed = FALSE
  /\ offer = [r \in Requests |-> None] /\ pc = [r \in Requests |-> "idle"]
  /\ at = [r \in Requests |-> 1] /\ rejected = [r \in Requests |-> 0]
  /\ dropped = [r \in Requests |-> {}] /\ copies = [r \in Requests |-> <<>>]
  /\ answer = [r \in Requests |-> None] /\ attempts = [r \in Requests |-> 0]
  /\ concurrentRequests = [s \in Services |-> 0]
  /\ tokens = [t \in Tenants |-> Burst] /\ refills = 0 /\ failures = 0

Handle(r) ==
  \/ checkMemoryPressure(r) \/ CountRequest(r) \/ ValidateRequest(r) \/ Succeed(r)
  \/ AdmitItem(r) \/ Buffer(r) \/ PublishDirect(r) \/ HandleTelemetryEvent(r)
  \/ HandleIngestion(r) \/ ProcessTelemetryData(r)

Next ==
  \/ \E r \in Requests : Send(r) \/ Resend(r) \/ Handle(r)
  \/ \E t \in Tenants : Refill(t)
  \/ CloseBuffer

Spec == Init /\ [][Next]_vars

-----------------------------------------------------------------------------
(* Properties.                                                             *)

\* The types of the variables, and that each validator counts exactly the
\* requests it has not finished with: a request that is refused, at any of its
\* checks, gives back its place (ValidateTraceRequest's deferred decrement).
TypeOK ==
  /\ streams \in StreamSetups
  /\ answer \in [Requests -> {None, "ok", "invalid", "exhausted", "unavailable", "error"}]
  /\ attempts \in [Requests -> 0 .. MaxAttempts]
  /\ tokens \in [Tenants -> 0 .. Burst]
  /\ \A s \in Services :
       concurrentRequests[s] = Cardinality({r \in Requests : pc[r] = "validate" /\ offer[r].path = s})

\* A client that is told it succeeded can rely on it: each of its items was
\* handed over, or is in the count of rejected items of the answer, or failed
\* in one of the two services that only log it; by trace and HTTP nothing is
\* lost without a word.
SuccessIsTrue ==
  \A r \in Requests : answer[r] = "ok" =>
    LET missing == {i \in DOMAIN Items(r) : copies[r][i] = 0}
    IN  /\ offer[r].path = "http" => missing = {}
        /\ offer[r].path = "trace" => Cardinality(missing) <= rejected[r]
        /\ offer[r].path \in {"metrics", "logs"} => missing \subseteq dropped[r]

\* A request that is sent again after it failed half-way delivers an item at
\* most once more each time: no single attempt buffers an item twice.
OncePerAttempt ==
  resilient => \A r \in Requests : \A i \in DOMAIN copies[r] : copies[r][i] <= attempts[r]

\* Expected to fail: rate limiting skips items of a request and never fails the
\* whole of it, which only a buffer that is closed or full may do.
LimiterSkipsItems ==
  \A r \in Requests : answer[r] = "unavailable" => closed \/ failures > 0 \/ ~resilient
=============================================================================
