------------------------ MODULE CircuitBreakerProofs ------------------------
(***************************************************************************)
(* Proofs about CircuitBreaker, for every set of calls, every setting and  *)
(* every trip condition.                                                   *)
(***************************************************************************)
EXTENDS CircuitBreaker, FiniteSetTheorems, TLAPS

\* The calls whose answer breaker b would count.
InFlight(b, a) == {c \in Calls : a[c] = b.generation}

\* A breaker and the generations its calls carry fit together: no call is
\* ahead of the breaker, so a generation that starts has no call in flight,
\* and every counted request is answered or in flight.
Consistent(b, a) ==
  /\ b \in Breaker
  /\ b.generation > 0
  /\ \A c \in Calls : a[c] <= b.generation
  /\ b.counts.Requests =
       b.counts.TotalSuccesses + b.counts.TotalFailures + Cardinality(InFlight(b, a))

\* The inductive invariant.
IInv ==
  /\ admitted \in [Calls -> Nat]
  /\ Consistent(cb, admitted)

-----------------------------------------------------------------------------
(* What the methods of the breaker do to a well-typed breaker.             *)

\* toNewGeneration takes the next generation and clears the counts.
LEMMA NewGeneration ==
  ASSUME NEW b \in Breaker
  PROVE  /\ toNewGeneration(b) \in Breaker
         /\ toNewGeneration(b).state = b.state
         /\ toNewGeneration(b).generation = b.generation + 1
         /\ toNewGeneration(b).counts = NoCounts
<1>1. Lifetime(b.state) \in Int
  BY BreakerAssumption DEF Breaker, Lifetime, Zero, CircuitBreakerState
<1>2. NoCounts \in Counts
  BY DEF NoCounts, Counts
<1>3. b.generation + 1 \in Nat
  BY DEF Breaker
<1> QED
  BY <1>1, <1>2, <1>3 DEF toNewGeneration, Breaker

\* setState does nothing, or starts the next generation in the new state.
LEMMA SetState ==
  ASSUME NEW b \in Breaker, NEW s \in CircuitBreakerState
  PROVE  /\ setState(b, s) \in Breaker
         /\ setState(b, s).state = s
         /\ \/ setState(b, s) = b
            \/ /\ b.state # s
               /\ setState(b, s).generation = b.generation + 1
               /\ setState(b, s).counts = NoCounts
<1>1. CASE b.state = s
  BY <1>1 DEF setState
<1>2. CASE b.state # s
  <2> DEFINE m == [b EXCEPT !.state = s]
  <2>1. m \in Breaker /\ m.state = s /\ m.generation = b.generation
    BY DEF Breaker
  <2>2. setState(b, s) = toNewGeneration(m)
    BY <1>2 DEF setState
  <2> HIDE DEF m
  <2> QED BY <1>2, <2>1, <2>2, NewGeneration
<1> QED BY <1>1, <1>2

\* currentState does nothing, or starts the next generation.
LEMMA CurrentState ==
  ASSUME NEW b \in Breaker
  PROVE  /\ currentState(b) \in Breaker
         /\ \/ currentState(b) = b
            \/ /\ currentState(b).generation = b.generation + 1
               /\ currentState(b).counts = NoCounts
               /\ \/ b.state = StateClosed /\ currentState(b).state = StateClosed
                  \/ b.state = StateOpen /\ currentState(b).state = StateHalfOpen
<1>1. CASE b.state = StateClosed /\ b.expiry # Zero /\ Before(b.expiry)
  <2>1. currentState(b) = toNewGeneration(b)
    BY <1>1 DEF currentState, StateClosed, StateOpen
  <2> QED BY <1>1, <2>1, NewGeneration
<1>2. CASE b.state = StateOpen /\ Before(b.expiry)
  <2>1. currentState(b) = setState(b, StateHalfOpen)
    BY <1>2 DEF currentState, StateClosed, StateOpen
  <2>2. StateHalfOpen \in CircuitBreakerState /\ StateHalfOpen # StateOpen
    BY DEF CircuitBreakerState, StateHalfOpen, StateOpen
  <2>3. setState(b, StateHalfOpen) # b
    BY <1>2, <2>2, SetState
  <2> QED BY <1>2, <2>1, <2>2, <2>3, SetState
<1>3. CASE /\ ~(b.state = StateClosed /\ b.expiry # Zero /\ Before(b.expiry))
           /\ ~(b.state = StateOpen /\ Before(b.expiry))
  BY <1>3 DEF currentState
<1> QED BY <1>1, <1>2, <1>3

-----------------------------------------------------------------------------
(* The two ways a breaker changes keep it consistent with its calls.       *)

\* A generation that no call carries yet starts consistent.
LEMMA FreshGeneration ==
  ASSUME NEW b \in Breaker, NEW n \in Breaker, NEW a \in [Calls -> Nat],
         \A c \in Calls : a[c] <= b.generation,
         n.generation = b.generation + 1, n.counts = NoCounts
  PROVE  Consistent(n, a)
<1>1. b.generation \in Nat
  BY DEF Breaker
<1>2. \A c \in Calls : a[c] \in Nat /\ a[c] <= n.generation /\ a[c] # n.generation
  BY <1>1
<1>3. InFlight(n, a) = {}
  BY <1>2 DEF InFlight
<1>4. Cardinality(InFlight(n, a)) = 0
  BY <1>3, FS_EmptySet
<1> QED
  BY <1>1, <1>2, <1>4 DEF Consistent, NoCounts

LEMMA CurrentStateConsistent ==
  ASSUME NEW b, NEW a \in [Calls -> Nat], Consistent(b, a)
  PROVE  Consistent(currentState(b), a)
<1>1. b \in Breaker /\ \A c \in Calls : a[c] <= b.generation
  BY DEF Consistent
<1> QED
  BY <1>1, CurrentState, FreshGeneration

LEMMA SetStateConsistent ==
  ASSUME NEW b, NEW a \in [Calls -> Nat], Consistent(b, a),
         NEW s \in CircuitBreakerState
  PROVE  Consistent(setState(b, s), a)
<1>1. b \in Breaker /\ \A c \in Calls : a[c] <= b.generation
  BY DEF Consistent
<1> QED
  BY <1>1, SetState, FreshGeneration

\* Counting the answer of a call in flight, and letting go of the call.
LEMMA AnswerConsistent ==
  ASSUME NEW b, NEW a \in [Calls -> Nat], Consistent(b, a),
         NEW c \in InFlight(b, a), NEW counts \in Counts,
         counts.Requests = b.counts.Requests,
         counts.TotalSuccesses + counts.TotalFailures =
           b.counts.TotalSuccesses + b.counts.TotalFailures + 1
  PROVE  Consistent([b EXCEPT !.counts = counts], [a EXCEPT ![c] = NotRunning])
<1> DEFINE n == [b EXCEPT !.counts = counts]
           r == [a EXCEPT ![c] = NotRunning]
<1>1. /\ b \in Breaker /\ b.generation \in Nat /\ b.generation > 0
      /\ c \in Calls /\ a[c] = b.generation
  BY DEF Consistent, InFlight, Breaker
<1>2. n \in Breaker /\ n.generation = b.generation /\ n.counts = counts
  BY <1>1 DEF Breaker
<1>3. \A d \in Calls : r[d] = IF d = c THEN 0 ELSE a[d]
  BY DEF NotRunning
<1> HIDE DEF n, r
<1>4. InFlight(n, r) = InFlight(b, a) \ {c}
  BY <1>1, <1>2, <1>3 DEF InFlight
<1>5. IsFiniteSet(InFlight(b, a))
  BY BreakerAssumption, FS_Subset DEF InFlight
<1>6. /\ Cardinality(InFlight(b, a)) \in Nat
      /\ Cardinality(InFlight(n, r)) = Cardinality(InFlight(b, a)) - 1
  BY <1>4, <1>5, FS_RemoveElement, FS_CardinalityType
<1>7. \A d \in Calls : r[d] <= n.generation
  BY <1>1, <1>2, <1>3 DEF Consistent
<1>8. n.counts.Requests =
        n.counts.TotalSuccesses + n.counts.TotalFailures + Cardinality(InFlight(n, r))
  <2>1. /\ b.counts.Requests \in Nat /\ b.counts.TotalSuccesses \in Nat
        /\ b.counts.TotalFailures \in Nat
        /\ counts.TotalSuccesses \in Nat /\ counts.TotalFailures \in Nat
    BY <1>1 DEF Breaker, Counts
  <2>2. b.counts.Requests = b.counts.TotalSuccesses + b.counts.TotalFailures
                              + Cardinality(InFlight(b, a))
    BY DEF Consistent
  <2> QED
    BY <1>2, <1>6, <2>1, <2>2
<1>9. Consistent(n, r)
  BY <1>1, <1>2, <1>7, <1>8 DEF Consistent
<1> QED
  BY <1>9 DEF n, r

\* Letting a new call in.
LEMMA AdmissionConsistent ==
  ASSUME NEW b, NEW a \in [Calls -> Nat], Consistent(b, a),
         NEW c \in Calls, a[c] = NotRunning
  PROVE  Consistent([b EXCEPT !.counts.Requests = @ + 1], [a EXCEPT ![c] = b.generation])
<1> DEFINE n == [b EXCEPT !.counts.Requests = @ + 1]
           r == [a EXCEPT ![c] = b.generation]
<1>1. b \in Breaker /\ b.generation \in Nat /\ b.generation > 0
  BY DEF Consistent, Breaker
<1>2. /\ b.counts \in Counts /\ b.counts.Requests \in Nat
      /\ b.counts.TotalSuccesses \in Nat /\ b.counts.TotalFailures \in Nat
  BY <1>1 DEF Breaker, Counts
<1>3. n = [b EXCEPT !.counts = [b.counts EXCEPT !.Requests = b.counts.Requests + 1]]
  OBVIOUS
<1>4. [b.counts EXCEPT !.Requests = b.counts.Requests + 1] \in Counts
  BY <1>2 DEF Counts
<1>5. /\ n \in Breaker /\ n.generation = b.generation
      /\ n.counts.Requests = b.counts.Requests + 1
      /\ n.counts.TotalSuccesses = b.counts.TotalSuccesses
      /\ n.counts.TotalFailures = b.counts.TotalFailures
  BY <1>1, <1>2, <1>3, <1>4 DEF Breaker, Counts
<1>6. \A d \in Calls : r[d] = IF d = c THEN b.generation ELSE a[d]
  OBVIOUS
<1> HIDE DEF n, r
<1>7. InFlight(n, r) = InFlight(b, a) \cup {c} /\ c \notin InFlight(b, a)
  BY <1>1, <1>5, <1>6 DEF InFlight, NotRunning
<1>8. IsFiniteSet(InFlight(b, a))
  BY BreakerAssumption, FS_Subset DEF InFlight
<1>9. /\ Cardinality(InFlight(b, a)) \in Nat
      /\ Cardinality(InFlight(n, r)) = Cardinality(InFlight(b, a)) + 1
  BY <1>7, <1>8, FS_AddElement, FS_CardinalityType
<1>10. \A d \in Calls : r[d] <= n.generation
  BY <1>1, <1>5, <1>6 DEF Consistent
<1>11. b.counts.Requests = b.counts.TotalSuccesses + b.counts.TotalFailures
                              + Cardinality(InFlight(b, a))
  BY DEF Consistent
<1>12. Consistent(n, r)
  BY <1>1, <1>2, <1>5, <1>9, <1>10, <1>11 DEF Consistent
<1> QED
  BY <1>12 DEF n, r

\* Counting an answer: one more success or one more failure, typed counts.
LEMMA Counting ==
  ASSUME NEW counts \in Counts
  PROVE  \A after \in {CountSuccess(counts), CountFailure(counts)} :
           /\ after \in Counts
           /\ after.Requests = counts.Requests
           /\ after.TotalSuccesses + after.TotalFailures =
                counts.TotalSuccesses + counts.TotalFailures + 1
<1>1. /\ counts.TotalSuccesses \in Nat /\ counts.TotalSuccesses + 1 \in Nat
      /\ counts.TotalFailures \in Nat /\ counts.TotalFailures + 1 \in Nat
      /\ counts.ConsecutiveSuccesses + 1 \in Nat /\ counts.ConsecutiveFailures + 1 \in Nat
  BY DEF Counts
<1>2. /\ CountSuccess(counts) \in Counts
      /\ CountSuccess(counts).Requests = counts.Requests
      /\ CountSuccess(counts).TotalSuccesses = counts.TotalSuccesses + 1
      /\ CountSuccess(counts).TotalFailures = counts.TotalFailures
  BY <1>1 DEF CountSuccess, Counts
<1>3. /\ CountFailure(counts) \in Counts
      /\ CountFailure(counts).Requests = counts.Requests
      /\ CountFailure(counts).TotalSuccesses = counts.TotalSuccesses
      /\ CountFailure(counts).TotalFailures = counts.TotalFailures + 1
  BY <1>1 DEF CountFailure, Counts
<1> QED
  BY <1>1, <1>2, <1>3

LEMMA SuccessConsistent ==
  ASSUME NEW b, NEW a \in [Calls -> Nat], Consistent(b, a), NEW c \in InFlight(b, a)
  PROVE  Consistent(onSuccess(b), [a EXCEPT ![c] = NotRunning])
<1> DEFINE counted == [b EXCEPT !.counts = CountSuccess(b.counts)]
<1>1. b.counts \in Counts
  BY DEF Consistent, Breaker
<1>2. /\ CountSuccess(b.counts) \in Counts
      /\ CountSuccess(b.counts).Requests = b.counts.Requests
      /\ CountSuccess(b.counts).TotalSuccesses + CountSuccess(b.counts).TotalFailures =
           b.counts.TotalSuccesses + b.counts.TotalFailures + 1
  BY <1>1, Counting
<1>3. Consistent(counted, [a EXCEPT ![c] = NotRunning])
  BY <1>2, AnswerConsistent
<1>4. [a EXCEPT ![c] = NotRunning] \in [Calls -> Nat]
  BY DEF NotRunning
<1>5. onSuccess(b) = counted \/ onSuccess(b) = setState(counted, StateClosed)
  BY DEF onSuccess
<1> HIDE DEF counted
<1>6. StateClosed \in CircuitBreakerState
  BY DEF CircuitBreakerState
<1>7. Consistent(setState(counted, StateClosed), [a EXCEPT ![c] = NotRunning])
  BY <1>3, <1>4, <1>6, SetStateConsistent
<1> QED
  BY <1>3, <1>5, <1>7

LEMMA FailureConsistent ==
  ASSUME NEW b, NEW a \in [Calls -> Nat], Consistent(b, a), NEW c \in InFlight(b, a)
  PROVE  Consistent(onFailure(b), [a EXCEPT ![c] = NotRunning])
<1> DEFINE counted == [b EXCEPT !.counts = CountFailure(b.counts)]
<1>1. b.counts \in Counts
  BY DEF Consistent, Breaker
<1>2. /\ CountFailure(b.counts) \in Counts
      /\ CountFailure(b.counts).Requests = b.counts.Requests
      /\ CountFailure(b.counts).TotalSuccesses + CountFailure(b.counts).TotalFailures =
           b.counts.TotalSuccesses + b.counts.TotalFailures + 1
  BY <1>1, Counting
<1>3. Consistent(counted, [a EXCEPT ![c] = NotRunning])
  BY <1>2, AnswerConsistent
<1>4. [a EXCEPT ![c] = NotRunning] \in [Calls -> Nat]
  BY DEF NotRunning
<1>5. onFailure(b) = counted \/ onFailure(b) = setState(counted, StateOpen)
  BY DEF onFailure
<1> HIDE DEF counted
<1>6. StateOpen \in CircuitBreakerState
  BY DEF CircuitBreakerState
<1>7. Consistent(setState(counted, StateOpen), [a EXCEPT ![c] = NotRunning])
  BY <1>3, <1>4, <1>6, SetStateConsistent
<1> QED
  BY <1>3, <1>5, <1>7

-----------------------------------------------------------------------------
(* The inductive invariant.                                                *)

LEMMA InitIInv == Init => IInv
<1> SUFFICES ASSUME Init PROVE IInv
  OBVIOUS
<1> DEFINE b == [state |-> StateClosed, generation |-> 0, counts |-> NoCounts, expiry |-> Zero]
<1>1. b \in Breaker /\ b.generation = 0
  BY DEF Breaker, CircuitBreakerState, Counts, NoCounts, Zero
<1>2. cb = toNewGeneration(b) /\ admitted = [c \in Calls |-> NotRunning]
  BY DEF Init
<1> HIDE DEF b
<1>3. admitted \in [Calls -> Nat] /\ \A c \in Calls : admitted[c] <= b.generation
  BY <1>1, <1>2 DEF NotRunning
<1> QED
  BY <1>1, <1>2, <1>3, NewGeneration, FreshGeneration DEF IInv

LEMMA NextIInv == IInv /\ [Next]_vars => IInv'
<1> SUFFICES ASSUME IInv, [Next]_vars PROVE IInv'
  OBVIOUS
<1> DEFINE now == currentState(cb)
<1>1. /\ admitted \in [Calls -> Nat]
      /\ Consistent(cb, admitted)
      /\ Consistent(now, admitted)
  BY CurrentStateConsistent DEF IInv
<1> SUFFICES admitted' \in [Calls -> Nat] /\ Consistent(cb', admitted')
  BY DEF IInv, Consistent, InFlight
<1>2. CASE Tick
  <2>1. /\ cb' \in Breaker /\ cb'.generation = cb.generation /\ cb'.counts = cb.counts
        /\ admitted' = admitted
    BY <1>1, <1>2 DEF Tick, Consistent, Breaker, Passed
  <2>2. InFlight(cb', admitted') = InFlight(cb, admitted)
    BY <2>1 DEF InFlight
  <2> QED
    BY <1>1, <2>1, <2>2 DEF Consistent
<1>3. CASE State
  BY <1>1, <1>3 DEF State
<1>4. ASSUME NEW c \in Calls, beforeRequest(c)
      PROVE  admitted' \in [Calls -> Nat] /\ Consistent(cb', admitted')
  <2>1. CASE cb' = now /\ UNCHANGED admitted
    BY <1>1, <2>1
  <2>2. CASE /\ cb' = [now EXCEPT !.counts.Requests = @ + 1]
             /\ admitted' = [admitted EXCEPT ![c] = now.generation]
    <3>1. admitted[c] = NotRunning
      BY <1>4 DEF beforeRequest
    <3>2. now.generation \in Nat
      BY <1>1 DEF Consistent, Breaker
    <3> HIDE DEF now
    <3> QED
      BY <1>1, <2>2, <3>1, <3>2, AdmissionConsistent
  <2> QED
    BY <1>4, <2>1, <2>2 DEF beforeRequest
<1>5. ASSUME NEW c \in Calls, NEW success \in BOOLEAN, afterRequest(c, success)
      PROVE  admitted' \in [Calls -> Nat] /\ Consistent(cb', admitted')
  <2>1. /\ admitted[c] # NotRunning
        /\ admitted' = [admitted EXCEPT ![c] = NotRunning]
        /\ admitted' \in [Calls -> Nat]
    BY <1>1, <1>5 DEF afterRequest, NotRunning
  <2>2. CASE now.generation # admitted[c]
    <3>1. cb' = now
      BY <1>5, <2>2 DEF afterRequest
    <3>2. InFlight(now, admitted') = InFlight(now, admitted)
      <4>1. now.generation \in Nat /\ now.generation > 0
        BY <1>1 DEF Consistent, Breaker
      <4> HIDE DEF now
      <4> QED BY <1>1, <2>1, <2>2, <4>1 DEF InFlight, NotRunning
    <3>3. \A d \in Calls : admitted'[d] <= now.generation
      <4>1. now.generation \in Nat /\ \A d \in Calls : admitted[d] <= now.generation
        BY <1>1 DEF Consistent, Breaker
      <4> HIDE DEF now
      <4> QED BY <1>1, <2>1, <4>1 DEF NotRunning
    <3> HIDE DEF now
    <3> QED
      BY <1>1, <2>1, <3>1, <3>2, <3>3 DEF Consistent
  <2>3. CASE now.generation = admitted[c]
    <3>1. cb' = onSuccess(now) \/ cb' = onFailure(now)
      BY <1>5, <2>3 DEF afterRequest
    <3>2. c \in InFlight(now, admitted)
      BY <2>3 DEF InFlight
    <3> HIDE DEF now
    <3>3. /\ Consistent(onSuccess(now), [admitted EXCEPT ![c] = NotRunning])
          /\ Consistent(onFailure(now), [admitted EXCEPT ![c] = NotRunning])
      BY <1>1, <3>2, SuccessConsistent, FailureConsistent
    <3> QED
      BY <2>1, <3>1, <3>3
  <2> QED
    BY <2>2, <2>3
<1>6. CASE UNCHANGED vars
  BY <1>1, <1>6 DEF vars
<1> QED
  BY <1>2, <1>3, <1>4, <1>5, <1>6 DEF Next

THEOREM Invariance == Spec => []IInv
  BY InitIInv, NextIInv, PTL DEF Spec

\* The breaker's fields and the calls' generations keep their types.
THEOREM TypeCorrect == Spec => []TypeOK
<1>1. IInv => TypeOK
  BY DEF IInv, Consistent, TypeOK
<1> QED
  BY <1>1, Invariance, PTL

\* A request of this generation is a success, a failure, or in flight: late
\* results are dropped, and no result is lost or counted twice.
THEOREM Accounting == Spec => []RequestsAccounted
<1>1. IInv => RequestsAccounted
  BY DEF IInv, Consistent, InFlight, RequestsAccounted, Current
<1> QED
  BY <1>1, Invariance, PTL

-----------------------------------------------------------------------------
(* The half-open state.                                                    *)

\* Strengthening of HalfOpenAdmission that a step preserves.
HalfOpen(b) ==
  b.state = StateHalfOpen =>
    b.counts.Requests <= MaxRequests /\ b.counts.TotalSuccesses = 0

LEMMA StatesDiffer ==
  /\ StateHalfOpen # StateClosed /\ StateHalfOpen # StateOpen /\ StateClosed # StateOpen
  /\ CircuitBreakerState = {StateClosed, StateOpen, StateHalfOpen}
BY DEF StateClosed, StateOpen, StateHalfOpen, CircuitBreakerState

\* A generation that starts has no trial yet.
LEMMA HalfOpenFresh ==
  ASSUME NEW b, b.counts = NoCounts
  PROVE  HalfOpen(b)
BY BreakerAssumption DEF HalfOpen, NoCounts

LEMMA HalfOpenCurrentState ==
  ASSUME NEW b \in Breaker, HalfOpen(b)
  PROVE  HalfOpen(currentState(b))
BY CurrentState, HalfOpenFresh

\* An answer that leaves the breaker half-open is a failure of a trial.
LEMMA HalfOpenAnswer ==
  ASSUME NEW b \in Breaker, HalfOpen(b)
  PROVE  HalfOpen(onSuccess(b)) /\ HalfOpen(onFailure(b))
<1>1. b.counts \in Counts
  BY DEF Breaker
<1>2. HalfOpen(onSuccess(b))
  <2> DEFINE n == [b EXCEPT !.counts = CountSuccess(b.counts)]
  <2>1. CountSuccess(b.counts) \in Counts
    BY <1>1, Counting
  <2>2. n \in Breaker /\ n.state = b.state
    BY <2>1 DEF Breaker
  <2>3. CASE b.state = StateHalfOpen
    <3>1. onSuccess(b) = setState(n, StateClosed)
      BY <2>3 DEF onSuccess
    <3> HIDE DEF n
    <3>2. setState(n, StateClosed).state = StateClosed
      BY <2>2, SetState, StatesDiffer
    <3> QED
      BY <3>1, <3>2, StatesDiffer DEF HalfOpen
  <2>4. CASE b.state # StateHalfOpen
    <3>1. onSuccess(b) = n
      BY <2>4 DEF onSuccess
    <3> HIDE DEF n
    <3> QED
      BY <2>2, <2>4, <3>1 DEF HalfOpen
  <2> QED
    BY <2>3, <2>4
<1>3. HalfOpen(onFailure(b))
  <2> DEFINE n == [b EXCEPT !.counts = CountFailure(b.counts)]
  <2>1. /\ CountFailure(b.counts) \in Counts
        /\ CountFailure(b.counts).Requests = b.counts.Requests
        /\ CountFailure(b.counts).TotalSuccesses = b.counts.TotalSuccesses
    BY <1>1, Counting DEF CountFailure, Counts
  <2>2. n \in Breaker /\ n.state = b.state /\ n.counts = CountFailure(b.counts)
    BY <2>1 DEF Breaker
  <2>3. HalfOpen(n)
    BY <2>1, <2>2 DEF HalfOpen
  <2>4. onFailure(b) = n \/ onFailure(b) = setState(n, StateOpen)
    BY DEF onFailure
  <2> HIDE DEF n
  <2>5. setState(n, StateOpen).state = StateOpen
    BY <2>2, SetState, StatesDiffer
  <2> QED
    BY <2>3, <2>4, <2>5, StatesDiffer DEF HalfOpen
<1> QED
  BY <1>2, <1>3

\* No more than MaxRequests trials reach a recovering service, whatever the
\* calls admitted before it failed still do.
THEOREM HalfOpenBound == Spec => []HalfOpenAdmission
<1>1. Init => HalfOpen(cb)
  <2> SUFFICES ASSUME Init PROVE HalfOpen(cb)
    OBVIOUS
  <2> DEFINE b == [state |-> StateClosed, generation |-> 0, counts |-> NoCounts, expiry |-> Zero]
  <2>1. b \in Breaker
    BY DEF Breaker, CircuitBreakerState, Counts, NoCounts, Zero
  <2>2. cb = toNewGeneration(b)
    BY DEF Init
  <2> HIDE DEF b
  <2> QED
    BY <2>1, <2>2, NewGeneration, HalfOpenFresh
<1>2. IInv /\ HalfOpen(cb) /\ [Next]_vars => HalfOpen(cb)'
  <2> SUFFICES ASSUME IInv, HalfOpen(cb), [Next]_vars PROVE HalfOpen(cb')
    BY DEF HalfOpen
  <2> DEFINE now == currentState(cb)
  <2>1. cb \in Breaker /\ now \in Breaker /\ HalfOpen(now)
    BY CurrentState, HalfOpenCurrentState DEF IInv, Consistent
  <2>2. CASE Tick
    <3>1. cb'.state = cb.state /\ cb'.counts = cb.counts
      BY <2>1, <2>2 DEF Tick, Breaker
    <3> QED
      BY <3>1 DEF HalfOpen
  <2>3. CASE State
    BY <2>1, <2>3 DEF State
  <2>4. ASSUME NEW c \in Calls, beforeRequest(c) PROVE HalfOpen(cb')
    <3>1. CASE cb' = now
      BY <2>1, <3>1
    <3>2. CASE Admits(now) /\ cb' = [now EXCEPT !.counts.Requests = @ + 1]
      <4>1. /\ Admits(now) /\ now \in Breaker /\ HalfOpen(now)
            /\ now.counts.Requests \in Nat
        BY <2>1, <3>2 DEF Breaker, Counts
      <4> HIDE DEF now
      <4>2. /\ cb'.state = now.state
            /\ cb'.counts.Requests = now.counts.Requests + 1
            /\ cb'.counts.TotalSuccesses = now.counts.TotalSuccesses
        BY <3>2, <4>1 DEF Breaker, Counts
      <4> QED
        BY <4>1, <4>2, StatesDiffer, BreakerAssumption DEF HalfOpen, Admits
    <3> QED
      BY <2>4, <3>1, <3>2 DEF beforeRequest
  <2>5. ASSUME NEW c \in Calls, NEW success \in BOOLEAN, afterRequest(c, success)
        PROVE  HalfOpen(cb')
    <3>1. cb' = now \/ cb' = onSuccess(now) \/ cb' = onFailure(now)
      BY <2>5 DEF afterRequest
    <3> HIDE DEF now
    <3> QED
      BY <2>1, <3>1, HalfOpenAnswer
  <2>6. CASE UNCHANGED vars
    BY <2>6 DEF vars
  <2> QED
    BY <2>2, <2>3, <2>4, <2>5, <2>6 DEF Next
<1>3. IInv /\ HalfOpen(cb) => HalfOpenAdmission
  <2> SUFFICES ASSUME IInv, HalfOpen(cb), cb.state = StateHalfOpen
               PROVE  /\ cb.counts.Requests <= MaxRequests
                      /\ Cardinality(Current) <= MaxRequests
                      /\ cb.counts.TotalSuccesses = 0
    BY DEF HalfOpenAdmission
  <2>1. /\ cb.counts.Requests \in Nat /\ cb.counts.TotalSuccesses \in Nat
        /\ cb.counts.TotalFailures \in Nat
    BY DEF IInv, Consistent, Breaker, Counts
  <2>2. IsFiniteSet(Current)
    BY BreakerAssumption, FS_Subset DEF Current
  <2>3. Cardinality(Current) \in Nat
    BY <2>2, FS_CardinalityType
  <2>4. cb.counts.Requests =
          cb.counts.TotalSuccesses + cb.counts.TotalFailures + Cardinality(Current)
    BY DEF IInv, Consistent, InFlight, Current
  <2> QED
    BY <2>1, <2>3, <2>4, BreakerAssumption DEF HalfOpen
<1> QED
  BY <1>1, <1>2, <1>3, Invariance, PTL DEF Spec

-----------------------------------------------------------------------------
(* What an answer may do.                                                  *)

\* The answer of a call of an older generation changes nothing.
THEOREM StaleResults == Spec => StaleResultIgnored
<1>1. IInv /\ [Next]_vars =>
        [\A c \in Calls :
           admitted[c] \notin {NotRunning, cb.generation} /\ admitted'[c] = NotRunning
             => cb' \in {cb, currentState(cb)}]_vars
  <2> SUFFICES ASSUME IInv, Next, NEW c \in Calls,
                      admitted[c] # NotRunning, admitted[c] # cb.generation,
                      admitted'[c] = NotRunning
               PROVE  cb' = currentState(cb)
    OBVIOUS
  <2> DEFINE now == currentState(cb)
  <2>1. /\ admitted \in [Calls -> Nat] /\ cb \in Breaker /\ cb.generation \in Nat
        /\ cb.generation > 0 /\ \A d \in Calls : admitted[d] <= cb.generation
    BY DEF IInv, Consistent, Breaker
  <2>2. now.generation \in {cb.generation, cb.generation + 1}
    BY <2>1, CurrentState
  <2>3. admitted[c] \in Nat /\ now.generation # admitted[c] /\ now.generation # NotRunning
    BY <2>1, <2>2 DEF NotRunning
  <2>4. ~Tick /\ ~State
    BY DEF Tick, State
  <2>5. ASSUME NEW d \in Calls, beforeRequest(d) PROVE FALSE
    <3>1. admitted[d] = NotRunning /\ d # c
      BY <2>5 DEF beforeRequest
    <3>2. admitted'[c] = admitted[c]
      BY <2>1, <2>5, <3>1 DEF beforeRequest
    <3> QED
      BY <3>2
  <2>6. ASSUME NEW d \in Calls, NEW success \in BOOLEAN, afterRequest(d, success)
        PROVE  cb' = now
    <3>1. d = c
      BY <2>1, <2>6 DEF afterRequest
    <3> QED
      BY <2>3, <2>6, <3>1 DEF afterRequest
  <2> QED
    BY <2>4, <2>5, <2>6 DEF Next
<1> QED
  BY <1>1, Invariance, PTL DEF Spec, StaleResultIgnored

\* Only the answer of a trial of this half-open period closes the breaker.
THEOREM TrialsClose == Spec => OnlyTrialCloses
<1>1. IInv /\ [Next]_vars =>
        [cb.state = StateHalfOpen /\ cb'.state = StateClosed =>
           \E c \in Calls : c \in Current /\ admitted'[c] = NotRunning]_vars
  <2> SUFFICES ASSUME IInv, Next, cb.state = StateHalfOpen, cb'.state = StateClosed
               PROVE  \E c \in Calls : c \in Current /\ admitted'[c] = NotRunning
    OBVIOUS
  <2> DEFINE now == currentState(cb)
  <2>1. admitted \in [Calls -> Nat] /\ cb \in Breaker
    BY DEF IInv, Consistent
  <2>2. now = cb
    BY <2>1, CurrentState, StatesDiffer
  <2>3. ~Tick
    BY <2>1, StatesDiffer DEF Tick, Breaker
  <2>4. ~State
    BY <2>2, StatesDiffer DEF State
  <2>5. ASSUME NEW d \in Calls, beforeRequest(d) PROVE FALSE
    <3>1. cb' = cb \/ cb' = [cb EXCEPT !.counts.Requests = @ + 1]
      BY <2>2, <2>5 DEF beforeRequest
    <3>2. cb'.state = cb.state
      BY <2>1, <3>1 DEF Breaker
    <3> QED
      BY <3>2, StatesDiffer
  <2>6. ASSUME NEW d \in Calls, NEW success \in BOOLEAN, afterRequest(d, success)
        PROVE  d \in Current /\ admitted'[d] = NotRunning
    <3>1. admitted'[d] = NotRunning
      BY <2>1, <2>6 DEF afterRequest
    <3>2. cb' # cb
      BY StatesDiffer
    <3>3. cb.generation = admitted[d]
      BY <2>2, <2>6, <3>2 DEF afterRequest
    <3> QED
      BY <3>1, <3>3 DEF Current
  <2> QED
    BY <2>3, <2>4, <2>5, <2>6 DEF Next
<1> QED
  BY <1>1, Invariance, PTL DEF Spec, OnlyTrialCloses

-----------------------------------------------------------------------------
(* The closed breaker, for trip conditions that only a failure makes true. *)

\* Fresh counts do not meet the condition, and neither admitting a request nor a
\* success makes it true: so it is with a threshold on ConsecutiveFailures, and
\* not with one on the ratio of failures to Requests.
TripsOnFailure ==
  /\ ~ReadyToTrip(NoCounts)
  /\ \A counts \in Counts : ~ReadyToTrip(counts) =>
       /\ ~ReadyToTrip([counts EXCEPT !.Requests = @ + 1])
       /\ ~ReadyToTrip(CountSuccess(counts))

\* A closed breaker whose condition does not hold.
Untripped(b) == b.state = StateClosed => ~ReadyToTrip(b.counts)

\* Moving to a state, and reading the state, leave a breaker that is closed
\* untripped: the counts are its own, or cleared.
LEMMA StateUntripped ==
  ASSUME TripsOnFailure, NEW b \in Breaker, Untripped(b)
  PROVE  Untripped(currentState(b))
BY CurrentState DEF Untripped, TripsOnFailure

\* A success leaves it untripped, also the one that closes it.
LEMMA SuccessUntripped ==
  ASSUME TripsOnFailure, NEW b \in Breaker, Untripped(b)
  PROVE  Untripped(onSuccess(b))
<1> DEFINE counted == [b EXCEPT !.counts = CountSuccess(b.counts)]
<1>1. b.counts \in Counts /\ CountSuccess(b.counts) \in Counts
  BY Counting DEF Breaker
<1>2. /\ counted \in Breaker /\ counted.state = b.state
      /\ counted.counts = CountSuccess(b.counts)
  BY <1>1 DEF Breaker
<1>3. onSuccess(b) = IF b.state = StateHalfOpen THEN setState(counted, StateClosed) ELSE counted
  BY DEF onSuccess
<1> HIDE DEF counted
<1>4. CASE b.state = StateHalfOpen
  <2>1. setState(counted, StateClosed).counts = NoCounts
    BY <1>2, <1>4, SetState, StatesDiffer DEF CircuitBreakerState
  <2> QED BY <1>3, <1>4, <2>1 DEF Untripped, TripsOnFailure
<1>5. CASE b.state # StateHalfOpen
  BY <1>1, <1>2, <1>3, <1>5 DEF Untripped, TripsOnFailure
<1> QED BY <1>4, <1>5

\* A failure that makes the condition true opens the breaker.
LEMMA FailureUntripped ==
  ASSUME NEW b \in Breaker
  PROVE  Untripped(onFailure(b))
<1> DEFINE counted == [b EXCEPT !.counts = CountFailure(b.counts)]
<1>1. b.counts \in Counts /\ CountFailure(b.counts) \in Counts
  BY Counting DEF Breaker
<1>2. counted \in Breaker
  BY <1>1 DEF Breaker
<1>3. onFailure(b) = IF ReadyToTrip(counted.counts) THEN setState(counted, StateOpen) ELSE counted
  <2>1. counted.counts = CountFailure(b.counts)
    BY <1>1 DEF Breaker
  <2> QED BY <2>1 DEF onFailure
<1> HIDE DEF counted
<1>4. CASE ReadyToTrip(counted.counts)
  <2>1. setState(counted, StateOpen).state = StateOpen
    BY <1>2, SetState DEF CircuitBreakerState
  <2> QED BY <1>3, <1>4, <2>1, StatesDiffer DEF Untripped
<1>5. CASE ~ReadyToTrip(counted.counts)
  BY <1>3, <1>5 DEF Untripped
<1> QED BY <1>4, <1>5

\* A closed breaker never rests where its trip condition holds, whatever calls
\* of older generations report and however the closed period is renewed.
THEOREM BelowThreshold ==
  ASSUME TripsOnFailure
  PROVE  Spec => []ClosedBelowThreshold
<1>1. Init => ClosedBelowThreshold
  <2> DEFINE b == [state |-> StateClosed, generation |-> 0, counts |-> NoCounts, expiry |-> Zero]
  <2>1. b \in Breaker
    BY DEF Breaker, CircuitBreakerState, Counts, NoCounts, Zero
  <2> HIDE DEF b
  <2>2. toNewGeneration(b).counts = NoCounts
    BY <2>1, NewGeneration
  <2> QED BY <2>2 DEF Init, ClosedBelowThreshold, TripsOnFailure, b
<1>2. IInv /\ ClosedBelowThreshold /\ [Next]_vars => ClosedBelowThreshold'
  <2> SUFFICES ASSUME IInv, Untripped(cb), [Next]_vars PROVE Untripped(cb')
    BY DEF ClosedBelowThreshold, Untripped
  <2> DEFINE now == currentState(cb)
  <2>1. cb \in Breaker /\ now \in Breaker /\ Untripped(now)
    BY StateUntripped, CurrentState DEF IInv, Consistent
  <2>2. CASE Tick
    BY <2>1, <2>2 DEF Tick, Breaker, Untripped
  <2>3. CASE State
    BY <2>1, <2>3 DEF State
  <2>4. ASSUME NEW c \in Calls, beforeRequest(c) PROVE Untripped(cb')
    <3>1. cb' = now \/ cb' = [now EXCEPT !.counts.Requests = @ + 1]
      BY <2>4 DEF beforeRequest
    <3> HIDE DEF now
    <3>2. CASE cb' = [now EXCEPT !.counts.Requests = @ + 1]
      <4>1. cb'.state = now.state /\ cb'.counts = [now.counts EXCEPT !.Requests = @ + 1]
        BY <2>1, <3>2 DEF Breaker
      <4> QED BY <2>1, <4>1 DEF Untripped, TripsOnFailure, Breaker
    <3> QED BY <2>1, <3>1, <3>2
  <2>5. ASSUME NEW c \in Calls, NEW success \in BOOLEAN, afterRequest(c, success)
        PROVE  Untripped(cb')
    <3>1. cb' \in {now, onSuccess(now), onFailure(now)}
      BY <2>5 DEF afterRequest
    <3> HIDE DEF now
    <3> QED BY <2>1, <3>1, SuccessUntripped, FailureUntripped
  <2>6. CASE UNCHANGED vars
    BY <2>6 DEF vars, Untripped
  <2> QED BY <2>2, <2>3, <2>4, <2>5, <2>6 DEF Next
<1> QED
  BY <1>1, <1>2, Invariance, PTL DEF Spec
=============================================================================
