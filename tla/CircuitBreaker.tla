--------------------------- MODULE CircuitBreaker ---------------------------
(***************************************************************************)
(* The circuit breaker of internal/resilience/circuit_breaker.go.  Every   *)
(* operation of the breaker runs under cb.mutex, so each is one atomic     *)
(* action; what interleaves are the calls that Execute lets through, which *)
(* run outside the mutex and report back in any order, possibly after the  *)
(* breaker has moved to another generation.                                *)
(*                                                                         *)
(* Time is a countdown: cb.expiry holds the ticks left until the instant   *)
(* the code stores in the field of that name.                              *)
(***************************************************************************)
EXTENDS Integers, FiniteSets

CONSTANTS
  Calls,           \* goroutines that can be inside Execute at the same time
  MaxRequests,     \* Settings.MaxRequests, after the default of line 83
  Interval,        \* Settings.Interval in ticks; 0: counts are never aged out
  Timeout,         \* Settings.Timeout in ticks, after the default of line 91
  ReadyToTrip(_),  \* Settings.ReadyToTrip
  MaxGeneration,   \* bound: no call or poll starts once it is reached
  MaxCount         \* bound: calls admitted in one generation

ASSUME BreakerAssumption ==
  /\ IsFiniteSet(Calls)
  /\ MaxRequests \in Nat \ {0}
  /\ Interval \in Nat
  /\ Timeout \in Nat \ {0}
  /\ MaxGeneration \in Nat
  /\ MaxCount \in Nat

VARIABLES
  cb,        \* the fields cb.mutex guards
  admitted   \* the generation beforeRequest gave to a running call

vars == <<cb, admitted>>

-----------------------------------------------------------------------------
StateClosed   == "closed"
StateOpen     == "open"
StateHalfOpen == "half-open"

CircuitBreakerState == {StateClosed, StateOpen, StateHalfOpen}

\* Generations start at 1: a call whose entry is 0 is not inside Execute.
NotRunning == 0

\* The zero time.Time lies before every instant; a real expiry that has
\* passed is Passed, whatever its distance.
Zero   == -2
Passed == -1

Counts == [Requests : Nat, TotalSuccesses : Nat, TotalFailures : Nat,
           ConsecutiveSuccesses : Nat, ConsecutiveFailures : Nat]

NoCounts == [Requests |-> 0, TotalSuccesses |-> 0, TotalFailures |-> 0,
             ConsecutiveSuccesses |-> 0, ConsecutiveFailures |-> 0]

Breaker == [state : CircuitBreakerState, generation : Nat,
            counts : Counts, expiry : Int]

\* cb.expiry.Before(now), strict.
Before(expiry) == expiry < 0

-----------------------------------------------------------------------------
(* The unexported methods, as functions of the breaker they change.        *)

\* The deadline a state starts with: the closed state has one only if there
\* is an interval, the half-open state has none.
Lifetime(state) ==
  CASE state = StateClosed -> IF Interval = 0 THEN Zero ELSE Interval
    [] state = StateOpen -> Timeout
    [] state = StateHalfOpen -> Zero

toNewGeneration(b) ==
  [b EXCEPT !.generation = @ + 1, !.counts = NoCounts, !.expiry = Lifetime(b.state)]

setState(b, state) ==
  IF b.state = state THEN b ELSE toNewGeneration([b EXCEPT !.state = state])

\* Reading the state moves it on when its deadline has passed.
currentState(b) ==
  CASE b.state = StateClosed /\ b.expiry # Zero /\ Before(b.expiry) -> toNewGeneration(b)
    [] b.state = StateOpen /\ Before(b.expiry) -> setState(b, StateHalfOpen)
    [] OTHER -> b

CountSuccess(counts) ==
  [counts EXCEPT !.TotalSuccesses = @ + 1,
                 !.ConsecutiveSuccesses = @ + 1,
                 !.ConsecutiveFailures = 0]

\* Mutated form: takes one success off the streak instead of clearing it.
CountFailure_Decrements(counts) ==
  [counts EXCEPT !.TotalFailures = @ + 1,
                 !.ConsecutiveFailures = @ + 1,
                 !.ConsecutiveSuccesses = @ - 1]

CountFailure(counts) ==
  [counts EXCEPT !.TotalFailures = @ + 1,
                 !.ConsecutiveFailures = @ + 1,
                 !.ConsecutiveSuccesses = 0]

\* Mutated form: a successful trial does not close the breaker.
onSuccess_StaysHalfOpen(b) == [b EXCEPT !.counts = CountSuccess(@)]

onSuccess(b) ==
  LET counted == [b EXCEPT !.counts = CountSuccess(@)] IN
  IF b.state = StateHalfOpen THEN setState(counted, StateClosed) ELSE counted

\* Mutated form: the trip condition sees the counts before this failure.
onFailure_StaleCounts(b) ==
  LET counted == [b EXCEPT !.counts = CountFailure(@)] IN
  IF ReadyToTrip(b.counts) THEN setState(counted, StateOpen) ELSE counted

onFailure(b) ==
  LET counted == [b EXCEPT !.counts = CountFailure(@)] IN
  IF ReadyToTrip(counted.counts) THEN setState(counted, StateOpen) ELSE counted

\* Mutated form: admits one trial too many.
Admits_OneMore(b) ==
  \/ b.state = StateClosed
  \/ b.state = StateHalfOpen /\ b.counts.Requests <= MaxRequests

\* The two early returns of beforeRequest, negated.
Admits(b) ==
  \/ b.state = StateClosed
  \/ b.state = StateHalfOpen /\ b.counts.Requests < MaxRequests

-----------------------------------------------------------------------------
Init ==
  /\ cb = toNewGeneration([state |-> StateClosed, generation |-> 0,
                           counts |-> NoCounts, expiry |-> Zero])
  /\ admitted = [c \in Calls |-> NotRunning]

\* Calls in flight that belong to the current generation.
Current == {c \in Calls : admitted[c] = cb.generation}

\* One tick of the clock.
Tick ==
  /\ cb' = [cb EXCEPT !.expiry = IF @ > Passed THEN @ - 1 ELSE @]
  /\ UNCHANGED admitted

\* Execute, up to the call of req: it is let through, or refused with
\* ErrCircuitBreakerOpen or ErrTooManyRequests.
beforeRequest(c) ==
  LET now == currentState(cb) IN
  /\ admitted[c] = NotRunning
  /\ cb.generation < MaxGeneration
  /\ now.counts.Requests < MaxCount
  /\ \/ /\ Admits(now)
        /\ cb' = [now EXCEPT !.counts.Requests = @ + 1]
        /\ admitted' = [admitted EXCEPT ![c] = now.generation]
     \/ /\ ~Admits(now)
        /\ cb' = now
        /\ UNCHANGED admitted

\* Mutated form: the result counts whatever the generation of the call.
afterRequest_AnyGeneration(c, success) ==
  LET now == currentState(cb) IN
  /\ admitted[c] # NotRunning
  /\ cb' = IF success THEN onSuccess(now) ELSE onFailure(now)
  /\ admitted' = [admitted EXCEPT ![c] = NotRunning]

\* Execute, after req: it returned nil, or it returned an error or panicked
\* (success is FALSE).  A result of an older generation is dropped.
afterRequest(c, success) ==
  LET now == currentState(cb) IN
  /\ admitted[c] # NotRunning
  /\ cb' = CASE now.generation # admitted[c] -> now
             [] now.generation = admitted[c] /\ success -> onSuccess(now)
             [] now.generation = admitted[c] /\ ~success -> onFailure(now)
  /\ admitted' = [admitted EXCEPT ![c] = NotRunning]

\* State(): a read that may move the breaker on.
State ==
  /\ cb.generation < MaxGeneration
  /\ cb' = currentState(cb)
  /\ UNCHANGED admitted

Next ==
  \/ Tick
  \/ State
  \/ \E c \in Calls : beforeRequest(c)
  \/ \E c \in Calls, success \in BOOLEAN : afterRequest(c, success)

Spec == Init /\ [][Next]_vars

(* Traffic keeps arriving, every admitted call returns (the calls made      *)
(* through the breaker carry a deadline or end with their connection), and *)
(* time passes.  Nothing is assumed of the results.                        *)
Fairness ==
  /\ WF_vars(Tick)
  /\ \A c \in Calls : WF_vars(beforeRequest(c))
  /\ \A c \in Calls : WF_vars(\E success \in BOOLEAN : afterRequest(c, success))

FairSpec == Spec /\ Fairness

-----------------------------------------------------------------------------
(* Properties.                                                             *)

\* Types of the breaker's fields and of the generation each call carries.
TypeOK ==
  /\ cb \in Breaker
  /\ admitted \in [Calls -> Nat]

\* Every request counted in this generation has succeeded, has failed, or is
\* a call still in flight: no result of an older generation is ever counted,
\* none of this one is lost, and none is counted twice.
RequestsAccounted ==
  cb.counts.Requests =
    cb.counts.TotalSuccesses + cb.counts.TotalFailures + Cardinality(Current)

\* A recovering service sees at most MaxRequests trial calls between two
\* visits to another state, however many older calls still run; and none of
\* the trials counted so far has succeeded, for the first success closes.
HalfOpenAdmission ==
  cb.state = StateHalfOpen =>
    /\ cb.counts.Requests <= MaxRequests
    /\ Cardinality(Current) <= MaxRequests
    /\ cb.counts.TotalSuccesses = 0

\* With a trip condition that only a failure can make true, a closed breaker
\* never rests in a state where the condition holds.
ClosedBelowThreshold ==
  cb.state = StateClosed => ~ReadyToTrip(cb.counts)

\* Only a trial call of this half-open period closes the breaker: the answer
\* of a call admitted before the trip cannot.
OnlyTrialCloses ==
  [][cb.state = StateHalfOpen /\ cb'.state = StateClosed =>
       \E c \in Calls : c \in Current /\ admitted'[c] = NotRunning]_vars

\* The answer of a call of an older generation leaves no trace: the breaker
\* is as it was, or as a mere read of its state would have left it.
StaleResultIgnored ==
  [][\A c \in Calls :
       admitted[c] \notin {NotRunning, cb.generation} /\ admitted'[c] = NotRunning
         => cb' \in {cb, currentState(cb)}]_vars

\* Under traffic, an open breaker gets to try the service again.
OpenIsTemporary ==
  cb.state = StateOpen ~>
    (cb.state = StateHalfOpen \/ cb.generation >= MaxGeneration)

\* internal/config/circuitbreaker/doc.go:36 says of the half-open state "Any
\* failure -> transition back to OPEN", and a success closes: so, under traffic
\* whose calls return, a half-open breaker decides one way or the other.
HalfOpenSettles ==
  cb.state = StateHalfOpen ~>
    (cb.state # StateHalfOpen \/ cb.generation >= MaxGeneration)
=============================================================================
