------------------------------ MODULE ErrorHandler ------------------------------
(* How the HTTP API answers a request that fails: the pooled errors of          *)
(* pkg/errors/response.go, the middleware of pkg/errors/middleware.go, and      *)
(* around it the recovery of api/rest/logging.go.  What is pooled passes from   *)
(* one request to another.                                                      *)
EXTENDS Integers, FiniteSets

CONSTANTS
  Requests,
  Codes,    \* errors a handler may abort with; "plain" is one that is no *Error
  None,
  Slots     \* bound: errors in memory at once

\* What makes the count of the pool's pointers one.
ErrorAssumption == IsFiniteSet(Requests)

VARIABLES
  pc,       \* per request: the next step of its goroutine
  raised,   \* auxiliary: per request, what its handler aborted with
  err,      \* per request: the error that c.Errors refers to
  code,     \* per error in memory: its code
  pooled,   \* the errors in errorPool
  pointers, \* how many pointers to slices logFieldPool holds
  answer    \* per request: the status and the code it was sent

vars == <<pc, raised, err, code, pooled, pointers, answer>>

Errors == 1 .. Slots

-----------------------------------------------------------------------------
(* Errors and their statuses.                                              *)

getHTTPStatus(c) ==
  CASE c \in {"BAD_REQUEST", "VALIDATION_FAILED"} -> 400
    [] c = "NOT_FOUND" -> 404
    [] c \in {"SERVICE_UNAVAILABLE", "CIRCUIT_BREAKER_OPEN"} -> 503
    [] c = "UNAUTHORIZED" -> 401
    [] c = "FORBIDDEN" -> 403
    [] c = "CONFLICT" -> 409
    [] c = "RATE_LIMITED" -> 429
    [] c = "REQUEST_TOO_LARGE" -> 413
    [] c = "UNSUPPORTED_MEDIA_TYPE" -> 415
    [] c = "TIMEOUT" -> 408
    [] OTHER -> 500

\* An error that is not an API error is answered as an internal one.
AsAPIError(c) == IF c = "plain" THEN "INTERNAL_SERVER_ERROR" ELSE c

\* The errors that a request, or the pool, can still reach.
InUse == {err[r] : r \in {q \in Requests : pc[q] \notin {"serve", "done"}}} \cup pooled

\* New takes an error from the pool, any of them, or memory nobody uses, and
\* resets it.  A pool keeps what is put into it per processor, so it may also be
\* made anew while another one is free.
New(r, c) ==
  \E e \in pooled \cup (Errors \ InUse) :
    /\ err' = [err EXCEPT ![r] = e]
    /\ code' = [code EXCEPT ![e] = c]
    /\ pooled' = pooled \ {e}

Goto(r, l) == pc' = [pc EXCEPT ![r] = l]

\* A handler aborts with an error of its own, or leaves a plain one.
Abort(r) ==
  /\ pc[r] = "serve"
  /\ \E c \in Codes : New(r, AsAPIError(c)) /\ raised' = [raised EXCEPT ![r] = AsAPIError(c)]
  /\ Goto(r, "log")
  /\ UNCHANGED <<pointers, answer>>

-----------------------------------------------------------------------------
(* The middleware, after the handler returned.                             *)

\* logError needs a slice: a new one, as the pool makes it, or one that it holds.
\* What it holds are the pointers put there, and asserting that one is a slice
\* panics.
GetFields(r) ==
  /\ pc[r] = "log"
  /\ \/ Goto(r, "put fields") /\ UNCHANGED pointers
     \/ pointers > 0 /\ pointers' = pointers - 1 /\ Goto(r, "recover")
  /\ UNCHANGED <<raised, err, code, pooled, answer>>

PutFields(r) ==
  /\ pc[r] = "put fields"
  /\ pointers' = pointers + 1
  /\ Goto(r, "respond")
  /\ UNCHANGED <<raised, err, code, pooled, answer>>

Send(r, status, c) == answer' = [answer EXCEPT ![r] = [status |-> status, code |-> c]]

\* Mutated form: the error is given back before the response was sent.
After_ReleaseFirst(l) == [respond |-> "release", release |-> "send", send |-> "done"][l]

\* The order of the middleware's last steps.
After(l) == [respond |-> "send", send |-> "release", release |-> "done"][l]

\* The response shares the error's details, and takes its status when it is sent.
Respond(r) ==
  /\ pc[r] = "respond"
  /\ Goto(r, After("respond"))
  /\ UNCHANGED <<raised, err, code, pooled, pointers, answer>>

SendResponse(r) ==
  /\ pc[r] = "send"
  /\ Send(r, getHTTPStatus(code[err[r]]), code[err[r]])
  /\ Goto(r, After("send"))
  /\ UNCHANGED <<raised, err, code, pooled, pointers>>

Release(r) ==
  /\ pc[r] = "release"
  /\ pooled' = pooled \cup {err[r]}
  /\ Goto(r, After("release"))
  /\ UNCHANGED <<raised, err, code, pointers, answer>>

\* customRecoveryHandler: a panic is answered with a bare 500, and its error is
\* not released.
Recover(r) ==
  /\ pc[r] = "recover"
  /\ Send(r, 500, None)
  /\ Goto(r, "done")
  /\ UNCHANGED <<raised, err, code, pooled, pointers>>

\* A garbage collection empties the pools.
Collect ==
  /\ pooled' = {} /\ pointers' = 0
  /\ UNCHANGED <<pc, raised, err, code, answer>>

-----------------------------------------------------------------------------

Init ==
  /\ pc = [r \in Requests |-> "serve"] /\ raised = [r \in Requests |-> None]
  /\ err = [r \in Requests |-> 0]
  /\ code = [e \in Errors |-> None] /\ pooled = {}
  /\ pointers = 0
  /\ answer = [r \in Requests |-> None]

Middleware(r) ==
  \/ GetFields(r) \/ PutFields(r) \/ Respond(r) \/ SendResponse(r) \/ Release(r)
  \/ Recover(r)

Next ==
  \/ \E r \in Requests : Abort(r) \/ Middleware(r)
  \/ Collect

Spec == Init /\ [][Next]_vars

-----------------------------------------------------------------------------
(* Properties.                                                             *)

TypeOK ==
  /\ err \in [Requests -> {0} \cup Errors]
  /\ pooled \subseteq Errors
  /\ pointers \in 0 .. Cardinality(Requests)

\* A request is never answered with the error of another one: although errors
\* are reused at once, none is in the pool before its own response was sent.
OwnError ==
  \A r \in Requests : answer[r] # None /\ answer[r].code # None =>
    answer[r] = [status |-> getHTTPStatus(raised[r]), code |-> raised[r]]

\* Expected to fail: a request that a handler aborts with an error is answered
\* with the status and the code of that error.
AnsweredAsRaised ==
  \A r \in Requests : answer[r] # None => answer[r].code = raised[r]
=============================================================================
