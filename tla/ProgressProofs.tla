----------------------------- MODULE ProgressProofs -----------------------------
(* Proofs about the parts of Progress and about the whole, for every choice of   *)
(* its constants: the Kinesis buffer first, then the start and stop of a         *)
(* process, then the parts together.                                             *)
EXTENDS Progress, PipelineProofs

\* The request of e has put it into the buffer.
Entered(e) == pc[e] \in {"added", "submit"} \/ answer[e] = "ok"

\* Where a request stands tells whether its event is in the system, and only
\* a request that is flushing holds events.
RequestInv ==
  \A e \in Events :
    /\ pc[e] # "done" => answer[e] = "none"
    /\ Entered(e) => ~Nowhere(e)
    /\ ~Entered(e) /\ answer[e] # "flushFailed" => Nowhere(e)
    /\ answer[e] = "flushFailed" => e \in dlq
    /\ held[e] # {} => pc[e] = "flushing"

\* Between two rounds of flushAll nothing is left of the last one; the final
\* round still has every tenant before it whose buffer holds an owed event.
FinalInv ==
  /\ loop \in {"final", "stopped"} => closed
  /\ ~closed => owed = {}
  /\ \A e \in owed : answer[e] = "ok"
  /\ loop \in {"waiting", "stopped"} =>
       toScan = {} /\ toFlush = {} /\ \A t \in Tenants : held[t] = {}
  /\ loop \in {"final", "stopped"} =>
       \A e \in owed, t \in Tenants : e \in buffer[t] => t \in toScan \cup toFlush

\* The inductive invariant.
IInv == TypeOK /\ SingleCustody /\ RequestInv /\ FinalInv
-----------------------------------------------------------------------------
(* What an action does to the hands an event is in.                        *)

\* Flushers are what their name says, and tell requests from the rest.
LEMMA FlusherKinds ==
  /\ Events \subseteq Flushers /\ Workers \subseteq Flushers /\ Tenants \subseteq Flushers
  /\ \A e \in Events : e \notin Workers /\ e \notin Tenants
  /\ \A w \in Workers : w \notin Tenants
  /\ \A e \in Events : tenantOf[e] \in Tenants
BY BufferAssumption DEF Flushers

\* An action that leaves buffers, flushes and settled events alone.
LEMMA Unmoved ==
  ASSUME SingleCustody, UNCHANGED <<buffer, held, fateVars>>
  PROVE  /\ SingleCustody'
         /\ \A x \in Events : Nowhere(x)' <=> Nowhere(x)
BY DEF SingleCustody, Nowhere, Settled, fateVars

\* An event that was nowhere enters the buffer of its tenant.
LEMMA Appended ==
  ASSUME TypeOK, SingleCustody, NEW e \in Events, Nowhere(e), Append_(e),
         UNCHANGED <<held, fateVars>>
  PROVE  /\ SingleCustody'
         /\ ~Nowhere(e)'
         /\ \A x \in Events : x # e => (Nowhere(x)' <=> Nowhere(x))
<1>1. /\ tenantOf[e] \in Tenants
      /\ buffer'[tenantOf[e]] = buffer[tenantOf[e]] \cup {e}
      /\ \A t \in Tenants : t # tenantOf[e] => buffer'[t] = buffer[t]
      /\ held' = held /\ published' = published /\ dlq' = dlq /\ abandoned' = abandoned
  BY FlusherKinds DEF TypeOK, Append_, fateVars
<1>2. \A t \in Tenants : \A x : x \in buffer'[t] <=> x \in buffer[t] \/ (x = e /\ t = tenantOf[e])
  BY <1>1
<1>3. SingleCustody'
  BY <1>1, <1>2 DEF SingleCustody, Nowhere, Settled
<1>4. ~Nowhere(e)'
  BY <1>1 DEF Nowhere
<1>5. \A x \in Events : x # e => (Nowhere(x)' <=> Nowhere(x))
  BY <1>1, <1>2 DEF Nowhere, Settled
<1> QED
  BY <1>3, <1>4, <1>5

\* A flush that holds nothing takes everything out of a buffer.
LEMMA Taken ==
  ASSUME TypeOK, SingleCustody, NEW f \in Flushers, NEW t \in Tenants,
         held[f] = {}, getEvents(f, t), UNCHANGED fateVars
  PROVE  /\ SingleCustody'
         /\ \A x \in Events : Nowhere(x)' <=> Nowhere(x)
<1>1. /\ buffer'[t] = {} /\ held'[f] = buffer[t]
      /\ \A u \in Tenants : u # t => buffer'[u] = buffer[u]
      /\ \A g \in Flushers : g # f => held'[g] = held[g]
      /\ published' = published /\ dlq' = dlq /\ abandoned' = abandoned
  BY DEF TypeOK, getEvents, fateVars
<1>2. SingleCustody'
  <2>1. (\A u \in Tenants : \A e \in buffer[u] : tenantOf[e] = u)'
    BY <1>1 DEF SingleCustody
  <2>2. (\A g \in Flushers, u \in Tenants : held[g] \cap buffer[u] = {})'
    BY <1>1 DEF SingleCustody
  <2>3. (\A g, h \in Flushers : g # h => held[g] \cap held[h] = {})'
    BY <1>1 DEF SingleCustody
  <2>4. (\A u \in Tenants : buffer[u] \cap Settled = {})'
    BY <1>1 DEF SingleCustody, Settled
  <2>5. (\A g \in Flushers : held[g] \cap Settled = {})'
    BY <1>1 DEF SingleCustody, Settled
  <2> QED
    BY <2>1, <2>2, <2>3, <2>4, <2>5 DEF SingleCustody
<1>3. \A x \in Events : Nowhere(x)' <=> Nowhere(x)
  BY <1>1 DEF Nowhere, Settled
<1> QED
  BY <1>2, <1>3

\* A flush settles events it holds, some or all of them.
LEMMA Flushed ==
  ASSUME TypeOK, SingleCustody, NEW f \in Flushers, ProcessBatch(f)
  PROVE  /\ SingleCustody'
         /\ \A x \in Events : Nowhere(x)' <=> Nowhere(x)
         /\ Settled' = Settled \cup (held[f] \ held'[f])
<1>1. /\ buffer' = buffer
      /\ \A g \in Flushers : g # f => held'[g] = held[g]
  BY DEF TypeOK, ProcessBatch, BatchSent, BatchFailed
<1>2. /\ held'[f] \subseteq held[f]
      /\ Settled' = Settled \cup (held[f] \ held'[f])
  <2>1. CASE BatchSent(f)
    BY <2>1 DEF TypeOK, BatchSent, Batches, Settled
  <2>2. CASE BatchFailed(f)
    BY <2>2 DEF TypeOK, BatchFailed, Batches, Settled
  <2> QED
    BY <2>1, <2>2 DEF ProcessBatch
<1>3. SingleCustody'
  <2>1. (\A t \in Tenants : \A e \in buffer[t] : tenantOf[e] = t)'
    BY <1>1 DEF SingleCustody
  <2>2. (\A g \in Flushers, t \in Tenants : held[g] \cap buffer[t] = {})'
    BY <1>1, <1>2 DEF SingleCustody
  <2>3. (\A g, h \in Flushers : g # h => held[g] \cap held[h] = {})'
    BY <1>1, <1>2 DEF SingleCustody
  <2>4. (\A t \in Tenants : buffer[t] \cap Settled = {})'
    BY <1>1, <1>2 DEF SingleCustody
  <2>5. (\A g \in Flushers : held[g] \cap Settled = {})'
    BY <1>1, <1>2 DEF SingleCustody
  <2> QED
    BY <2>1, <2>2, <2>3, <2>4, <2>5 DEF SingleCustody
<1>4. \A x \in Events : Nowhere(x)' <=> Nowhere(x)
  BY <1>1, <1>2 DEF Nowhere
<1> QED
  BY <1>2, <1>3, <1>4

\* An event that was nowhere goes to the dead letter queue.
LEMMA DeadLettered ==
  ASSUME SingleCustody, NEW e \in Events, Nowhere(e), dlq' = dlq \cup {e},
         UNCHANGED <<buffer, held, published, abandoned>>
  PROVE  /\ SingleCustody'
         /\ \A x \in Events : x # e => (Nowhere(x)' <=> Nowhere(x))
<1>1. SingleCustody'
  BY DEF SingleCustody, Nowhere, Settled
<1>2. \A x \in Events : x # e => (Nowhere(x)' <=> Nowhere(x))
  BY DEF Nowhere, Settled
<1> QED
  BY <1>1, <1>2
-----------------------------------------------------------------------------
(* Every action preserves each part of the invariant.                      *)

LEMMA InitIInv == Init => IInv
<1> SUFFICES ASSUME Init PROVE IInv
  OBVIOUS
<1>1. TypeOK
  <2>1. <<>> \in Seq(Tenants) /\ Len(<<>>) = 0 /\ 0 <= JobQueueSize
    BY BufferAssumption
  <2>2. jobs \in Seq(Tenants) /\ Len(jobs) <= JobQueueSize
    BY <2>1 DEF Init
  <2> QED
    BY <2>2 DEF Init, TypeOK, PCs, Answers
<1>2. SingleCustody
  BY DEF Init, SingleCustody, Settled
<1>3. RequestInv
  BY FlusherKinds DEF Init, RequestInv, Entered, Nowhere, Settled
<1>4. FinalInv
  BY FlusherKinds DEF Init, FinalInv
<1> QED
  BY <1>1, <1>2, <1>3, <1>4 DEF IInv

LEMMA TypeStep == TypeOK /\ [Next]_vars => TypeOK'
<1> SUFFICES ASSUME TypeOK, [Next]_vars PROVE TypeOK'
  OBVIOUS
<1> USE DEF requestVars, loopVars, fateVars, closeVars
<1>1. ASSUME NEW e \in Events, Request(e) PROVE TypeOK'
  <2>1. CASE Arrive(e)
    BY <2>1 DEF TypeOK, Arrive, Return, Goto, PCs, Answers
  <2>2. CASE addEvent(e)
    BY <2>2, FlusherKinds DEF TypeOK, addEvent, Append_, Return, Goto, PCs, Answers
  <2>3. CASE FlushInRequest(e)
    BY <2>3, FlusherKinds DEF TypeOK, FlushInRequest, getEvents, Goto, PCs
  <2>4. CASE FlushFailed(e)
    BY <2>4 DEF TypeOK, FlushFailed, Return, PCs, Answers
  <2>5. CASE Added(e)
    BY <2>5 DEF TypeOK, Added, Goto, Return, PCs, Answers
  <2>6. CASE submitFlushJob(e)
    <3>1. jobs' \in Seq(Tenants) /\ Len(jobs') <= JobQueueSize
      BY <2>6, FlusherKinds, BufferAssumption DEF TypeOK, submitFlushJob
    <3>2. pc' \in [Events -> PCs] /\ answer' \in [Events -> Answers]
      BY <2>6 DEF TypeOK, submitFlushJob, Return, PCs, Answers
    <3> QED
      BY <2>6, <3>1, <3>2 DEF TypeOK, submitFlushJob
  <2> QED
    BY <1>1, <2>1, <2>2, <2>3, <2>4, <2>5, <2>6 DEF Request
<1>2. ASSUME NEW f \in Flushers, ProcessBatch(f) PROVE TypeOK'
  <2>1. pc' \in [Events -> PCs] /\ answer' \in [Events -> Answers]
    BY <1>2 DEF TypeOK, ProcessBatch, BatchSent, BatchFailed, Goto, PCs
  <2>2. held' \in [Flushers -> SUBSET Events]
    BY <1>2 DEF TypeOK, ProcessBatch, BatchSent, BatchFailed, Batches
  <2>3. published' \subseteq Events /\ dlq' \subseteq Events /\ abandoned' \subseteq Events
    BY <1>2 DEF TypeOK, ProcessBatch, BatchSent, BatchFailed, Batches
  <2> QED
    BY <1>2, <2>1, <2>2, <2>3 DEF TypeOK, ProcessBatch, BatchSent, BatchFailed
<1>3. ASSUME NEW w \in Workers, TakeJob(w) PROVE TypeOK'
  <2>1. jobs' \in Seq(Tenants) /\ Len(jobs') <= JobQueueSize /\ Head(jobs) \in Tenants
    BY <1>3, BufferAssumption DEF TypeOK, TakeJob
  <2> QED
    BY <1>3, <2>1, FlusherKinds DEF TypeOK, TakeJob, getEvents
<1>4. ASSUME NEW w \in Workers, StopWorker(w) PROVE TypeOK'
  BY <1>4 DEF TypeOK, StopWorker
<1>5. CASE StartFlushAll
  BY <1>5 DEF TypeOK, StartFlushAll
<1>6. ASSUME NEW t \in Tenants, ScanTenant(t) PROVE TypeOK'
  BY <1>6 DEF TypeOK, ScanTenant
<1>7. ASSUME NEW t \in Tenants, FlushTenant(t) PROVE TypeOK'
  BY <1>7, FlusherKinds DEF TypeOK, FlushTenant, getEvents
<1>8. CASE EndFlushAll
  BY <1>8 DEF TypeOK, EndFlushAll
<1>9. CASE Close
  BY <1>9 DEF TypeOK, Close
<1>10. CASE Quiet \/ UNCHANGED vars
  BY <1>10 DEF TypeOK, Quiet, vars
<1> QED
  BY <1>1, <1>2, <1>3, <1>4, <1>5, <1>6, <1>7, <1>8, <1>9, <1>10 DEF Next
\* Whoever moves events, each is in one pair of hands, and requests know which.
LEMMA CustodyStep == IInv /\ [Next]_vars => SingleCustody' /\ RequestInv'
<1> SUFFICES ASSUME IInv, [Next]_vars PROVE SingleCustody' /\ RequestInv'
  OBVIOUS
<1> USE FlusherKinds DEF requestVars, loopVars, fateVars, closeVars
<1>t. TypeOK /\ SingleCustody /\ RequestInv
  BY DEF IInv
<1>1. ASSUME NEW e \in Events, Request(e) PROVE SingleCustody' /\ RequestInv'
  <2>1. CASE Arrive(e)
    <3>1. SingleCustody' /\ \A x \in Events : Nowhere(x)' <=> Nowhere(x)
      BY <1>t, <2>1, Unmoved DEF Arrive
    <3>2. RequestInv'
      BY <1>t, <2>1, <3>1 DEF TypeOK, RequestInv, Entered, Arrive, Return, Goto
    <3> QED
      BY <3>1, <3>2
  <2>2. CASE addEvent(e)
    <3>1. CASE Append_(e) /\ Goto(e, "added")
      <4>1. Nowhere(e)
        BY <1>t, <2>2 DEF RequestInv, Entered, addEvent
      <4>2. /\ SingleCustody' /\ ~Nowhere(e)'
            /\ \A x \in Events : x # e => (Nowhere(x)' <=> Nowhere(x))
        BY <1>t, <2>2, <3>1, <4>1, Appended DEF addEvent
      <4>3. RequestInv'
        BY <1>t, <2>2, <3>1, <4>2 DEF TypeOK, RequestInv, Entered, addEvent, Goto
      <4> QED
        BY <4>2, <4>3
    <3>2. CASE /\ UNCHANGED buffer
               /\ \/ pc[e] = "add" /\ Goto(e, "full")
                  \/ pc[e] = "flushed" /\ Return(e, "refused")
      <4>1. SingleCustody' /\ \A x \in Events : Nowhere(x)' <=> Nowhere(x)
        BY <1>t, <2>2, <3>2, Unmoved DEF addEvent
      <4>2. RequestInv'
        BY <1>t, <2>2, <3>2, <4>1 DEF TypeOK, RequestInv, Entered, addEvent, Return, Goto
      <4> QED
        BY <4>1, <4>2
    <3> QED
      BY <2>2, <3>1, <3>2 DEF addEvent
  <2>3. CASE FlushInRequest(e)
    <3>1. held[e] = {}
      BY <1>t, <2>3 DEF RequestInv, FlushInRequest
    <3>2. SingleCustody' /\ \A x \in Events : Nowhere(x)' <=> Nowhere(x)
      BY <1>t, <2>3, <3>1, Taken DEF FlushInRequest
    <3>3. RequestInv'
      BY <1>t, <2>3, <3>2 DEF TypeOK, RequestInv, Entered, FlushInRequest, getEvents, Goto
    <3> QED
      BY <3>2, <3>3
  <2>4. CASE FlushFailed(e)
    <3>1. Nowhere(e)
      BY <1>t, <2>4 DEF RequestInv, Entered, FlushFailed
    <3>2. /\ SingleCustody'
          /\ \A x \in Events : x # e => (Nowhere(x)' <=> Nowhere(x))
      BY <1>t, <2>4, <3>1, DeadLettered DEF FlushFailed
    <3>3. RequestInv'
      BY <1>t, <2>4, <3>2 DEF TypeOK, RequestInv, Entered, FlushFailed, Return
    <3> QED
      BY <3>2, <3>3
  <2>5. CASE Added(e)
    <3>1. SingleCustody' /\ \A x \in Events : Nowhere(x)' <=> Nowhere(x)
      BY <1>t, <2>5, Unmoved DEF Added
    <3>2. RequestInv'
      BY <1>t, <2>5, <3>1 DEF TypeOK, RequestInv, Entered, Added, Return, Goto
    <3> QED
      BY <3>1, <3>2
  <2>6. CASE submitFlushJob(e)
    <3>1. SingleCustody' /\ \A x \in Events : Nowhere(x)' <=> Nowhere(x)
      BY <1>t, <2>6, Unmoved DEF submitFlushJob
    <3>2. RequestInv'
      BY <1>t, <2>6, <3>1 DEF TypeOK, RequestInv, Entered, submitFlushJob, Return
    <3> QED
      BY <3>1, <3>2
  <2> QED
    BY <1>1, <2>1, <2>2, <2>3, <2>4, <2>5, <2>6 DEF Request
<1>2. ASSUME NEW f \in Flushers, ProcessBatch(f) PROVE SingleCustody' /\ RequestInv'
  <2>1. SingleCustody' /\ \A x \in Events : Nowhere(x)' <=> Nowhere(x)
    BY <1>t, <1>2, Flushed
  <2>2. dlq \subseteq dlq' /\ answer' = answer
    BY <1>2 DEF ProcessBatch, BatchSent, BatchFailed, Goto
  <2>3. f \in Events => pc[f] = "flushing"
    BY <1>t, <1>2 DEF RequestInv, ProcessBatch, BatchSent, BatchFailed
  <2>4. \A x \in Events :
          \/ pc'[x] = pc[x] /\ (held'[x] # {} => held[x] # {})
          \/ x = f /\ pc'[x] \in {"flushed", "failed"} /\ held'[x] = {}
    <3>1. CASE BatchSent(f)
      BY <1>t, <3>1 DEF TypeOK, BatchSent, Goto
    <3>2. CASE BatchFailed(f)
      BY <1>t, <3>2 DEF TypeOK, BatchFailed, Goto
    <3> QED
      BY <1>2, <3>1, <3>2 DEF ProcessBatch
  <2>5. RequestInv'
    BY <1>t, <2>1, <2>2, <2>3, <2>4 DEF RequestInv, Entered
  <2> QED
    BY <2>1, <2>5
<1>3. ASSUME NEW w \in Workers, TakeJob(w) PROVE SingleCustody' /\ RequestInv'
  <2>1. Head(jobs) \in Tenants
    BY <1>t, <1>3 DEF TypeOK, TakeJob
  <2>2. SingleCustody' /\ \A x \in Events : Nowhere(x)' <=> Nowhere(x)
    BY <1>t, <1>3, <2>1, Taken DEF TakeJob
  <2>3. \A x \in Events : held'[x] = held[x]
    BY <1>t, <1>3 DEF TypeOK, TakeJob, getEvents
  <2>4. RequestInv'
    BY <1>t, <1>3, <2>2, <2>3 DEF RequestInv, Entered, TakeJob
  <2> QED
    BY <2>2, <2>4
<1>4. ASSUME NEW t \in Tenants, FlushTenant(t) PROVE SingleCustody' /\ RequestInv'
  <2>1. SingleCustody' /\ \A x \in Events : Nowhere(x)' <=> Nowhere(x)
    BY <1>t, <1>4, Taken DEF FlushTenant
  <2>2. \A x \in Events : held'[x] = held[x]
    BY <1>t, <1>4 DEF TypeOK, FlushTenant, getEvents
  <2>3. RequestInv'
    BY <1>t, <1>4, <2>1, <2>2 DEF RequestInv, Entered, FlushTenant
  <2> QED
    BY <2>1, <2>3
<1>5. ASSUME UNCHANGED <<requestVars, buffer, held, fateVars>>
      PROVE  SingleCustody' /\ RequestInv'
  <2>1. SingleCustody' /\ \A x \in Events : Nowhere(x)' <=> Nowhere(x)
    BY <1>t, <1>5, Unmoved
  <2>2. RequestInv'
    BY <1>t, <1>5, <2>1 DEF RequestInv, Entered
  <2> QED
    BY <2>1, <2>2
<1>6. ASSUME NEW w \in Workers, StopWorker(w) PROVE SingleCustody' /\ RequestInv'
  BY <1>5, <1>6 DEF StopWorker
<1>7. ASSUME NEW t \in Tenants, ScanTenant(t) PROVE SingleCustody' /\ RequestInv'
  BY <1>5, <1>7 DEF ScanTenant
<1>8. CASE StartFlushAll \/ EndFlushAll \/ Close \/ Quiet \/ UNCHANGED vars
  BY <1>5, <1>8 DEF StartFlushAll, EndFlushAll, Close, Quiet, vars
<1> QED
  BY <1>1, <1>2, <1>3, <1>4, <1>6, <1>7, <1>8 DEF Next
\* Owed events only leave their buffers, and a round ends with nothing to do.
LEMMA FinalStep == IInv /\ [Next]_vars => FinalInv'
<1> SUFFICES ASSUME IInv, [Next]_vars PROVE FinalInv'
  OBVIOUS
<1> USE FlusherKinds DEF requestVars, loopVars, fateVars, closeVars
<1>t. TypeOK /\ SingleCustody /\ RequestInv /\ FinalInv
  BY DEF IInv
\* Enough for the actions of other goroutines than the flush loop.
<1>r. ASSUME UNCHANGED loopVars, UNCHANGED closeVars,
             \A e \in owed : answer'[e] = "ok",
             \A e \in owed, t \in Tenants : e \in buffer'[t] => e \in buffer[t],
             \A t \in Tenants : held'[t] = {} \/ held[t] # {}
      PROVE  FinalInv'
  BY <1>t, <1>r DEF FinalInv
<1>1. ASSUME NEW e \in Events, Request(e) PROVE FinalInv'
  <2>1. UNCHANGED loopVars /\ UNCHANGED closeVars
    BY <1>1 DEF Request, Arrive, addEvent, FlushInRequest, FlushFailed, Added, submitFlushJob
  <2>2. e \notin owed
    BY <1>t, <1>1 DEF RequestInv, FinalInv, Request, Arrive, addEvent, FlushInRequest,
                      FlushFailed, Added, submitFlushJob
  <2>3. \A x \in owed : answer'[x] = "ok"
    <3>1. \A x \in Events : x # e => answer'[x] = answer[x]
      BY <1>t, <1>1 DEF TypeOK, Request, Arrive, addEvent, FlushInRequest, FlushFailed, Added,
                        submitFlushJob, Goto, Return
    <3> QED
      BY <1>t, <2>2, <3>1 DEF TypeOK, FinalInv
  <2>4. \A x \in owed, t \in Tenants : x \in buffer'[t] => x \in buffer[t]
    <3>1. CASE addEvent(e)
      BY <1>t, <2>2, <3>1 DEF TypeOK, addEvent, Append_
    <3>2. CASE FlushInRequest(e)
      BY <1>t, <3>2 DEF TypeOK, FlushInRequest, getEvents
    <3> QED
      BY <1>1, <3>1, <3>2 DEF Request, Arrive, FlushFailed, Added, submitFlushJob
  <2>5. \A t \in Tenants : held'[t] = held[t]
    BY <1>t, <1>1 DEF TypeOK, Request, Arrive, addEvent, FlushInRequest, FlushFailed, Added,
                      submitFlushJob, getEvents
  <2> QED
    BY <1>r, <2>1, <2>3, <2>4, <2>5
<1>2. ASSUME NEW f \in Flushers, ProcessBatch(f) PROVE FinalInv'
  <2>1. /\ UNCHANGED loopVars /\ UNCHANGED closeVars
        /\ answer' = answer /\ buffer' = buffer
    BY <1>2 DEF ProcessBatch, BatchSent, BatchFailed, Goto
  <2>2. \A t \in Tenants : held'[t] = {} \/ held[t] # {}
    BY <1>t, <1>2 DEF TypeOK, ProcessBatch, BatchSent, BatchFailed
  <2>3. \A x \in owed : answer'[x] = "ok"
    BY <1>t, <2>1 DEF FinalInv
  <2> QED
    BY <1>r, <2>1, <2>2, <2>3
<1>3. ASSUME NEW w \in Workers, TakeJob(w) PROVE FinalInv'
  <2>1. \A x \in owed, t \in Tenants : x \in buffer'[t] => x \in buffer[t]
    BY <1>t, <1>3 DEF TypeOK, TakeJob, getEvents
  <2>2. \A t \in Tenants : held'[t] = held[t]
    BY <1>t, <1>3 DEF TypeOK, TakeJob, getEvents
  <2>3. \A x \in owed : answer'[x] = "ok"
    BY <1>t, <1>3 DEF FinalInv, TakeJob
  <2> QED
    BY <1>r, <1>3, <2>1, <2>2, <2>3 DEF TakeJob
<1>4. ASSUME NEW w \in Workers, StopWorker(w) PROVE FinalInv'
  BY <1>t, <1>4 DEF FinalInv, StopWorker
<1>5. CASE StartFlushAll
  BY <1>t, <1>5 DEF FinalInv, StartFlushAll
<1>6. ASSUME NEW t \in Tenants, ScanTenant(t) PROVE FinalInv'
  <2>1. loop \in {"flushing", "final"}
    BY <1>t, <1>6 DEF TypeOK, FinalInv, ScanTenant
  <2>2. \A x \in owed, u \in Tenants :
          x \in buffer'[u] /\ u \in toScan \cup toFlush => u \in toScan' \cup toFlush'
    BY <1>6 DEF ScanTenant, hasData
  <2>3. loop' = loop /\ buffer' = buffer /\ held' = held /\ answer' = answer /\ UNCHANGED closeVars
    BY <1>6 DEF ScanTenant
  <2> QED
    BY <1>t, <2>1, <2>2, <2>3 DEF FinalInv
<1>7. ASSUME NEW t \in Tenants, FlushTenant(t) PROVE FinalInv'
  <2>1. loop \in {"flushing", "final"}
    BY <1>t, <1>7 DEF TypeOK, FinalInv, FlushTenant
  <2>2. /\ loop' = loop /\ toScan' = toScan /\ toFlush' = toFlush \ {t}
        /\ answer' = answer /\ UNCHANGED closeVars
    BY <1>7 DEF FlushTenant
  <2>3. /\ buffer'[t] = {}
        /\ \A u \in Tenants : u # t => buffer'[u] = buffer[u]
    BY <1>t, <1>7 DEF TypeOK, FlushTenant, getEvents
  <2> QED
    BY <1>t, <2>1, <2>2, <2>3 DEF FinalInv
<1>8. CASE EndFlushAll
  BY <1>t, <1>8 DEF TypeOK, FinalInv, EndFlushAll
<1>9. CASE Close
  <2>1. loop \in {"waiting", "flushing"}
    BY <1>t, <1>9 DEF TypeOK, FinalInv, Close
  <2> QED
    BY <1>t, <1>9, <2>1 DEF FinalInv, Close
<1>10. CASE Quiet \/ UNCHANGED vars
  BY <1>t, <1>10 DEF FinalInv, Quiet, vars
<1> QED
  BY <1>1, <1>2, <1>3, <1>4, <1>5, <1>6, <1>7, <1>8, <1>9, <1>10 DEF Next

-----------------------------------------------------------------------------
(* The theorems.                                                           *)

\* The inductive invariant holds, whatever the settings of the buffer, the
\* number of workers and the order in which requests, workers, the flush loop
\* and Close take their steps.
THEOREM Invariance == Spec => []IInv
<1>1. IInv /\ [Next]_vars => IInv'
  BY TypeStep, CustodyStep, FinalStep DEF IInv
<1> QED
  BY <1>1, InitIInv, PTL DEF Spec

\* The variables of the buffer keep their types, and the job channel its bound.
THEOREM TypeCorrect == Spec => []TypeOK
<1>1. IInv => TypeOK
  BY DEF IInv
<1> QED
  BY <1>1, Invariance, PTL

\* However many requests, workers and rounds of the flush loop drain a buffer
\* at once, an event is with one of them only.
THEOREM Custody == Spec => []SingleCustody
<1>1. IInv => SingleCustody
  BY DEF IInv
<1> QED
  BY <1>1, Invariance, PTL

\* What BufferEvent answers is what happened to the event.
THEOREM Answered == Spec => []AnswerIsTrue
<1>1. IInv => AnswerIsTrue
  <2> SUFFICES ASSUME IInv, NEW e \in Events
               PROVE  /\ answer[e] = "ok" => e \in InBuffer \cup InFlush \cup Settled
                      /\ answer[e] = "refused" =>
                           e \notin InBuffer \cup InFlush \cup Settled
                      /\ answer[e] = "flushFailed" => e \in dlq
    BY DEF AnswerIsTrue
  <2>1. Nowhere(e) <=> e \notin InBuffer \cup InFlush \cup Settled
    BY DEF Nowhere, InBuffer, InFlush
  <2>2. /\ answer[e] = "ok" => ~Nowhere(e)
        /\ answer[e] = "refused" => Nowhere(e)
        /\ answer[e] = "flushFailed" => e \in dlq
    BY DEF IInv, RequestInv, Entered
  <2> QED
    BY <2>1, <2>2
<1> QED
  BY <1>1, Invariance, PTL

\* Close leaves nothing in a buffer that was acknowledged before it.
THEOREM Drained == Spec => []FinalFlush
<1>1. IInv => FinalFlush
  BY DEF IInv, FinalInv, FinalFlush, InBuffer
<1> QED
  BY <1>1, Invariance, PTL
-----------------------------------------------------------------------------
(* The buffer implements EventJourney.                                     *)

LEMMA SamePlace ==
  ASSUME \A x \in Events : Nowhere(x)' <=> Nowhere(x), Settled' = Settled
  PROVE  Place' = Place
BY DEF Place

\* Each step of the buffer is one of an EventJourney, or changes neither where
\* an event is nor what a request was told.
LEMMA JourneyStep == IInv /\ [Next]_vars => [Journey!Next]_<<Place, answer>>
<1> SUFFICES ASSUME IInv, [Next]_vars PROVE [Journey!Next]_<<Place, answer>>
  OBVIOUS
<1> USE FlusherKinds DEF requestVars, loopVars, fateVars, closeVars
<1>t. TypeOK /\ SingleCustody /\ RequestInv
  BY DEF IInv
<1>r. ASSUME NEW e \in Events, pc[e] # "done", Place[e] = "outside", Place' = Place,
             Return(e, "refused")
      PROVE  Journey!Next
  <2>1. Journey!Refuse(e)
    BY <1>t, <1>r DEF TypeOK, RequestInv, Return, Journey!Refuse, Journey!Reply
  <2> QED
    BY <2>1 DEF Journey!Next
<1>k. ASSUME NEW e \in Events, pc[e] # "done", Place[e] # "outside", Place' = Place,
             Return(e, "ok")
      PROVE  Journey!Next
  <2>1. Journey!Acknowledge(e)
    BY <1>t, <1>k DEF TypeOK, RequestInv, Return, Journey!Acknowledge, Journey!Reply
  <2> QED
    BY <2>1 DEF Journey!Next
<1>s. ASSUME UNCHANGED <<buffer, held, fateVars>> PROVE Place' = Place
  <2>1. \A x \in Events : Nowhere(x)' <=> Nowhere(x)
    BY <1>t, <1>s, Unmoved
  <2>2. Settled' = Settled
    BY <1>s DEF Settled
  <2> QED
    BY <2>1, <2>2, SamePlace
<1>p. ASSUME NEW e \in Events
      PROVE  /\ Place[e] = "outside" <=> Nowhere(e)
             /\ Place[e] = "inside" <=> ~Nowhere(e) /\ e \notin Settled
  BY DEF Place
<1>1. ASSUME NEW e \in Events, Request(e) PROVE [Journey!Next]_<<Place, answer>>
  <2>1. CASE Arrive(e)
    <3>1. Place' = Place
      BY <1>s, <2>1 DEF Arrive
    <3>2. Place[e] = "outside"
      BY <1>t, <1>p, <2>1 DEF RequestInv, Entered, Arrive
    <3> QED
      BY <1>r, <2>1, <3>1, <3>2 DEF Arrive, Goto
  <2>2. CASE addEvent(e)
    <3>1. Nowhere(e) /\ answer[e] = "none"
      BY <1>t, <2>2 DEF RequestInv, Entered, addEvent
    <3>2. CASE Append_(e) /\ Goto(e, "added")
      <4>1. /\ ~Nowhere(e)'
            /\ \A x \in Events : x # e => (Nowhere(x)' <=> Nowhere(x))
        BY <1>t, <2>2, <3>1, <3>2, Appended DEF addEvent
      <4>2. Settled' = Settled /\ e \notin Settled
        BY <2>2, <3>1 DEF Nowhere, Settled, addEvent
      <4>3. Place' = [Place EXCEPT ![e] = "inside"]
        BY <4>1, <4>2 DEF Place
      <4>4. Journey!Enter(e)
        BY <1>p, <3>1, <3>2, <4>3 DEF Journey!Enter, Goto
      <4> QED
        BY <4>4 DEF Journey!Next
    <3>3. CASE /\ UNCHANGED buffer
               /\ \/ pc[e] = "add" /\ Goto(e, "full")
                  \/ pc[e] = "flushed" /\ Return(e, "refused")
      <4>1. Place' = Place
        BY <1>s, <2>2, <3>3 DEF addEvent
      <4> QED
        BY <1>p, <1>r, <3>1, <3>3, <4>1 DEF Goto
    <3> QED
      BY <2>2, <3>2, <3>3 DEF addEvent
  <2>3. CASE FlushInRequest(e)
    <3>1. held[e] = {}
      BY <1>t, <2>3 DEF RequestInv, FlushInRequest
    <3>2. \A x \in Events : Nowhere(x)' <=> Nowhere(x)
      BY <1>t, <2>3, <3>1, Taken DEF FlushInRequest
    <3>3. Settled' = Settled
      BY <2>3 DEF FlushInRequest, Settled
    <3> QED
      BY <2>3, <3>2, <3>3, SamePlace DEF FlushInRequest, Goto
  <2>4. CASE FlushFailed(e)
    <3>1. Nowhere(e) /\ answer[e] = "none"
      BY <1>t, <2>4 DEF RequestInv, Entered, FlushFailed
    <3>2. \A x \in Events : x # e => (Nowhere(x)' <=> Nowhere(x))
      BY <1>t, <2>4, <3>1, DeadLettered DEF FlushFailed
    <3>3. Settled' = Settled \cup {e}
      BY <2>4 DEF FlushFailed, Settled
    <3>4. ~Nowhere(e)'
      BY <3>3 DEF Nowhere
    <3>5. Place' = [Place EXCEPT ![e] = "settled"]
      BY <3>2, <3>3, <3>4 DEF Place
    <3>6. Journey!DeadLetter(e)
      BY <1>p, <2>4, <3>1, <3>5 DEF FlushFailed, Return, Journey!DeadLetter, Journey!Reply
    <3> QED
      BY <3>6 DEF Journey!Next
  <2>5. CASE Added(e)
    <3>1. Place' = Place
      BY <1>s, <2>5 DEF Added
    <3>2. Place[e] # "outside"
      BY <1>t, <1>p, <2>5 DEF RequestInv, Entered, Added
    <3> QED
      BY <1>k, <2>5, <3>1, <3>2 DEF Added, Goto
  <2>6. CASE submitFlushJob(e)
    <3>1. Place' = Place
      BY <1>s, <2>6 DEF submitFlushJob
    <3>2. Place[e] # "outside"
      BY <1>t, <1>p, <2>6 DEF RequestInv, Entered, submitFlushJob
    <3> QED
      BY <1>k, <2>6, <3>1, <3>2 DEF submitFlushJob
  <2> QED
    BY <1>1, <2>1, <2>2, <2>3, <2>4, <2>5, <2>6 DEF Request
<1>2. ASSUME NEW f \in Flushers, ProcessBatch(f) PROVE [Journey!Next]_<<Place, answer>>
  <2> DEFINE es == held[f] \ held'[f]
  <2>1. /\ \A x \in Events : Nowhere(x)' <=> Nowhere(x)
        /\ Settled' = Settled \cup es
    BY <1>t, <1>2, Flushed
  <2>2. es \in SUBSET Events /\ es \subseteq held[f]
    BY <1>t DEF TypeOK
  <2>3. \A x \in es : Place[x] = "inside"
    BY <1>t, <1>p, <2>2 DEF SingleCustody, Nowhere
  <2>4. Place' = [x \in Events |-> IF x \in es THEN "settled" ELSE Place[x]]
    <3>1. \A x \in es : ~Nowhere(x)
      BY <2>2, <2>3, <1>p
    <3> HIDE DEF es
    <3> QED
      BY <2>1, <3>1 DEF Place
  <2>5. answer' = answer
    BY <1>2 DEF ProcessBatch, BatchSent, BatchFailed, Goto
  <2>6. Journey!Settle(es)
    BY <2>3, <2>4, <2>5 DEF Journey!Settle
  <2> QED
    BY <2>2, <2>6 DEF Journey!Next
<1>3. ASSUME NEW w \in Workers, TakeJob(w) PROVE [Journey!Next]_<<Place, answer>>
  <2>1. Head(jobs) \in Tenants
    BY <1>t, <1>3 DEF TypeOK, TakeJob
  <2>2. \A x \in Events : Nowhere(x)' <=> Nowhere(x)
    BY <1>t, <1>3, <2>1, Taken DEF TakeJob
  <2> QED
    BY <1>3, <2>2, SamePlace DEF TakeJob, Settled
<1>4. ASSUME NEW t \in Tenants, FlushTenant(t) PROVE [Journey!Next]_<<Place, answer>>
  <2>1. \A x \in Events : Nowhere(x)' <=> Nowhere(x)
    BY <1>t, <1>4, Taken DEF FlushTenant
  <2> QED
    BY <1>4, <2>1, SamePlace DEF FlushTenant, Settled
<1>5. ASSUME NEW w \in Workers, StopWorker(w) PROVE [Journey!Next]_<<Place, answer>>
  BY <1>5, <1>s DEF StopWorker
<1>6. ASSUME NEW t \in Tenants, ScanTenant(t) PROVE [Journey!Next]_<<Place, answer>>
  BY <1>6, <1>s DEF ScanTenant
<1>7. CASE StartFlushAll \/ EndFlushAll \/ Close \/ Quiet \/ UNCHANGED vars
  BY <1>7, <1>s DEF StartFlushAll, EndFlushAll, Close, Quiet, vars
<1> QED
  BY <1>1, <1>2, <1>3, <1>4, <1>5, <1>6, <1>7 DEF Next

\* The buffer, its workers, its flush loop and Close together keep what an
\* ingestion buffer promises.
THEOREM Implements == Spec => KeepsItsPromise
<1>1. Init => Journey!Init
  <2> SUFFICES ASSUME Init PROVE Journey!Init
    OBVIOUS
  <2>1. \A e \in Events : Nowhere(e)
    BY FlusherKinds DEF Init, Nowhere, Settled
  <2> QED
    BY <2>1 DEF Init, Place, Journey!Init
<1>2. IInv /\ [Next]_vars => [Journey!Next]_<<Place, answer>>
  BY JourneyStep
<1> QED
  BY <1>1, <1>2, Invariance, PTL DEF Spec, KeepsItsPromise, Journey!Spec, Journey!journey

-----------------------------------------------------------------------------
(* The start and the stop of a process.                                    *)

States == {"none", "starting", "serving", "failed", "draining", "stopped"}

\* The steps of main in each of the two programs.
ServerSteps   == {"clickhouse", "kinesis", "s3", "resilience", "start http", "start grpc", "await",
                  "shutdown", "stop http", "stop grpc", "wait", "close buffer", "close clients", "exited"}
ConsumerSteps == {"clickhouse", "kinesis", "start consumer", "await", "stop consumer",
                  "close buffer", "close clients", "exited"}

\* Only one kind of server is ever started by a program, and one that was not
\* started serves nothing.
LifeTypes ==
  /\ server \in [Process!Servers -> States]
  /\ work \in [Work -> [server : Process!Servers \cup {None}, state : {"none", "running", "cut", "done"}]]
  /\ \/ program = "server" /\ main \in ServerSteps /\ server["consumer"] = "none"
     \/ /\ program = "consumer" /\ main \in ConsumerSteps
        /\ server["http"] = "none" /\ server["grpc"] = "none"
  /\ exit = None <=> main # "exited"
  /\ \A s \in Process!Servers : server[s] = "none" => Process!Running(s) = {}

\* What main does after it has waited for its servers, unless the process was
\* ended before.
Closing == main \in {"close buffer", "close clients"} \/ (main = "exited" /\ exit = "closed")

\* A server that takes no more work, and has none left if it was given the time.
Halted(s) == server[s] # "serving" /\ (s \in overdue \/ Process!Running(s) = {})

\* How far the stop is.
Stages ==
  /\ main \in {"stop http", "stop grpc", "wait"} => cancelled /\ server["http"] # "serving"
  /\ main \in {"stop grpc", "wait"} => Halted("http")
  /\ main = "wait" => Halted("grpc")
  /\ Closing => \A s \in Process!Servers : Halted(s) /\ server[s] # "starting"

\* The inductive invariant.
ProcessInv == LifeTypes /\ Stages

-----------------------------------------------------------------------------

\* Nothing runs at the start.
LEMMA ProcessInit == Process!Init => ProcessInv
BY DEF Process!LifecycleAssumption, Process!Init, ProcessInv, LifeTypes, Stages, Closing,
   States, Process!Servers, ServerSteps,
       ConsumerSteps, Process!Running

\* Start-up: a step of main before any of the stops, or the end by a fatal error.
LEMMA ProcessStartKeeps ==
  ASSUME Process!LifecycleAssumption, ProcessInv, Process!Initialize \/ \E s \in Process!Servers : Process!StartServer(s)
  PROVE  ProcessInv'
<1>1. UNCHANGED <<program, work, cancelled, overdue>>
  BY DEF Process!Initialize, Process!StartServer
<1>2. \/ exit' = exit /\ main' \in {"kinesis", "s3", "resilience", "start http", "start grpc", "start consumer", "await"}
      \/ exit' = "fatal" /\ main' = "exited"
  BY DEF Process!Initialize, Process!StartServer, Process!Goto, Process!Fatal, Process!After
<1>3. /\ main # "exited" /\ (exit' = None <=> main' # "exited")
  BY <1>2 DEF Process!Initialize, Process!StartServer, Process!Servers,
     Process!LifecycleAssumption, ProcessInv, LifeTypes
<1>4. Stages'
  BY <1>2, <1>3 DEF Stages, Closing, Process!LifecycleAssumption, ProcessInv, LifeTypes
<1>5. CASE Process!Initialize
  <2>1. /\ server' = server
        /\ \/ program = "server" /\ main' \in ServerSteps
           \/ program = "consumer" /\ main' \in ConsumerSteps
    BY <1>5 DEF Process!Initialize, Process!Goto, Process!Fatal, Process!After, ProcessInv,
       LifeTypes, ServerSteps, ConsumerSteps
  <2> QED BY <1>1, <1>3, <1>4, <2>1 DEF ProcessInv, LifeTypes, Process!Running
<1>6. ASSUME NEW s \in Process!Servers, Process!StartServer(s) PROVE ProcessInv'
  <2>1. /\ program = (IF s = "consumer" THEN "consumer" ELSE "server")
        /\ \/ program = "server" /\ main' \in ServerSteps
           \/ program = "consumer" /\ main' \in ConsumerSteps
    BY <1>6 DEF Process!StartServer, Process!Goto, Process!Fatal, ProcessInv, LifeTypes,
       ServerSteps, ConsumerSteps, Process!Servers
  <2>2. server' = server \/ server' = [server EXCEPT ![s] = "starting"]
    BY <1>6 DEF Process!StartServer
  <2>3. /\ server' \in [Process!Servers -> States]
        /\ \A t \in Process!Servers : server'[t] = "none" => server[t] = "none"
        /\ \A t \in Process!Servers : t # s => server'[t] = server[t]
    BY <2>2 DEF ProcessInv, LifeTypes, States
  <2> QED BY <1>1, <1>3, <1>4, <2>1, <2>3 DEF ProcessInv, LifeTypes, Process!Running,
             Process!Servers
<1> QED BY <1>5, <1>6

\* A server comes up, fails, or drains: none starts to serve once it was told to
\* stop.
LEMMA ServersKeep ==
  ASSUME ProcessInv, main # "exited",
         (\E s \in Process!Servers : Process!Listen(s)) \/ Process!GracefulStop \/ Process!GracefulStopReturns
  PROVE  ProcessInv'
<1>1. UNCHANGED <<program, main, work, cancelled, overdue, exit>>
  BY DEF Process!Listen, Process!GracefulStop, Process!GracefulStopReturns
<1>2. PICK s \in Process!Servers, state \in States \ {"none", "starting"} :
        /\ server[s] \in {"starting", "serving", "draining"}
        /\ server' = [server EXCEPT ![s] = state]
        /\ state = "serving" => server[s] = "starting" /\ ~Process!Stopping(s)
  BY DEF Process!Listen, Process!GracefulStop, Process!GracefulStopReturns, States, Process!Servers
<1>3. /\ server' \in [Process!Servers -> States] /\ server'[s] = state
      /\ \A t \in Process!Servers : t # s => server'[t] = server[t]
  BY <1>2 DEF ProcessInv, LifeTypes
<1>4. LifeTypes'
  <2>1. \A t \in Process!Servers : server'[t] = "none" <=> server[t] = "none"
    BY <1>2, <1>3 DEF States
  <2> QED BY <1>1, <1>3, <2>1 DEF ProcessInv, LifeTypes, Process!Running, Process!Servers
<1>5. ASSUME NEW t \in Process!Servers, server'[t] = "serving"
      PROVE  server[t] = "serving" \/ (server[t] = "starting" /\ ~Process!Stopping(t))
  BY <1>2, <1>3, <1>5
<1>6. Stages'
  <2>1. main \in {"stop http", "stop grpc", "wait"} => server'["http"] # "serving"
    BY <1>5 DEF ProcessInv, Stages, Process!Stopping, Process!Servers
  <2>2. main = "wait" => server'["grpc"] # "serving"
    BY <1>5 DEF ProcessInv, Stages, Halted, Process!Stopping, Process!Servers
  <2>3. Closing => \A t \in Process!Servers : server'[t] \notin {"serving", "starting"}
    BY <1>2, <1>3 DEF ProcessInv, Stages, Halted
  <2> QED BY <1>1, <2>1, <2>2, <2>3 DEF ProcessInv, Stages, Closing, Halted, Process!Running,
             Process!Servers
<1> QED BY <1>4, <1>6 DEF ProcessInv

\* Work is taken by a server that serves.
LEMMA AcceptKeeps ==
  ASSUME ProcessInv, NEW w \in Work, NEW s \in Process!Servers, Process!Accept(w, s)
  PROVE  ProcessInv'
<1>1. /\ UNCHANGED <<program, main, server, cancelled, overdue, exit>>
      /\ server[s] = "serving"
      /\ work' = [work EXCEPT ![w] = [server |-> s, state |-> "running"]]
      /\ work[w].state = "none"
  BY DEF Process!Accept
<1>2. work' \in [Work -> [server : Process!Servers \cup {None}, state : {"none", "running", "cut", "done"}]]
  BY <1>1 DEF ProcessInv, LifeTypes
<1>3. \A t \in Process!Servers : t # s => Process!Running(t)' = Process!Running(t)
  BY <1>1 DEF ProcessInv, LifeTypes, Process!Running
<1>4. LifeTypes'
  BY <1>1, <1>2, <1>3 DEF ProcessInv, LifeTypes
<1>5. \A t \in Process!Servers : Halted(t) => Halted(t)'
  BY <1>1, <1>3 DEF Halted
<1>6. Stages'
  BY <1>1, <1>5 DEF ProcessInv, Stages, Closing, Process!Servers
<1> QED BY <1>4, <1>6 DEF ProcessInv

\* Work ends, or its connection is closed under it.
LEMMA WorkKeeps ==
  ASSUME ProcessInv, UNCHANGED <<program, main, server, cancelled, overdue, exit>>,
         work' \in [Work -> [server : Process!Servers \cup {None}, state : {"none", "running", "cut", "done"}]],
         \A t \in Process!Servers : Process!Running(t)' \subseteq Process!Running(t)
  PROVE  ProcessInv'
<1>1. LifeTypes'
  BY DEF ProcessInv, LifeTypes
<1>2. \A t \in Process!Servers : Halted(t) => Halted(t)'
  BY DEF Halted
<1>3. Stages'
  BY <1>2 DEF ProcessInv, Stages, Closing, Process!Servers
<1> QED BY <1>1, <1>3 DEF ProcessInv

\* Stopped by force, a server runs what it ran.
LEMMA CutRuns ==
  ASSUME ProcessInv, NEW s \in Process!Servers, work' = Process!Cut(s) \/ work' = work
  PROVE  /\ work' \in [Work -> [server : Process!Servers \cup {None}, state : {"none", "running", "cut", "done"}]]
         /\ \A t \in Process!Servers : Process!Running(t)' = Process!Running(t)
<1>1. CASE work' = work
  BY <1>1 DEF ProcessInv, LifeTypes, Process!Running
<1>2. CASE work' = Process!Cut(s)
  <2>1. \A w \in Work : work'[w] = IF w \in Process!Running(s) THEN [work[w] EXCEPT !.state = "cut"] ELSE work[w]
    BY <1>2 DEF Process!Cut
  <2>2. \A w \in Work : /\ work[w] \in [server : Process!Servers \cup {None}, state : {"none", "running", "cut", "done"}]
                        /\ w \in Process!Running(s) => work[w].state \in {"running", "cut"}
    BY DEF ProcessInv, LifeTypes, Process!Running
  <2>3. \A w \in Work :
          /\ work'[w] \in [server : Process!Servers \cup {None}, state : {"none", "running", "cut", "done"}]
          /\ work'[w].server = work[w].server
          /\ work'[w].state \in {"running", "cut"} <=> work[w].state \in {"running", "cut"}
    BY <2>1, <2>2
  <2>4. DOMAIN work' = Work /\ work' = [w \in Work |-> work'[w]]
    BY <1>2 DEF Process!Cut
  <2> QED BY <2>3, <2>4 DEF Process!Running
<1> QED BY <1>1, <1>2

\* A signal has main stop, or kills the process.
LEMMA SignalKeeps ==
  ASSUME Process!LifecycleAssumption, ProcessInv, Process!Signal
  PROVE  ProcessInv'
<1>1. /\ UNCHANGED <<program, server, work, cancelled, overdue>> /\ main # "exited"
      /\ \/ main = "await" /\ exit' = exit /\ main' = (IF program = "server" THEN "shutdown" ELSE "stop consumer")
         \/ main' = "exited" /\ exit' = "killed"
  BY DEF Process!Signal, Process!Goto
<1>2. LifeTypes'
  BY <1>1 DEF ProcessInv, LifeTypes, Process!Running, ServerSteps, ConsumerSteps,
     Process!LifecycleAssumption
<1>3. Stages'
  BY <1>1 DEF ProcessInv, LifeTypes, Stages, Closing, Process!LifecycleAssumption
<1> QED BY <1>2, <1>3 DEF ProcessInv

\* The context is cancelled and the HTTP server takes no more requests; then it is
\* waited for.
LEMMA HTTPKeeps ==
  ASSUME Process!LifecycleAssumption, ProcessInv, Process!Shutdown \/ Process!StopHTTP
  PROVE  ProcessInv'
<1>1. /\ UNCHANGED <<program, work, exit>> /\ program = "server" /\ overdue \subseteq overdue'
      /\ \/ main = "shutdown" /\ main' = "stop http"
         \/ main = "stop http" /\ main' = "stop grpc" /\ ("http" \in overdue' \/ Process!Running("http") = {})
      /\ cancelled'
  BY DEF Process!Shutdown, Process!StopHTTP, Process!Goto, Process!HTTPIdle, ProcessInv,
     LifeTypes, Stages, ConsumerSteps
<1>2. /\ server' \in [Process!Servers -> States] /\ server'["http"] # "serving"
      /\ \A t \in Process!Servers : server'[t] = "none" <=> server[t] = "none"
      /\ server'["consumer"] = server["consumer"]
  BY <1>1 DEF Process!Shutdown, Process!StopHTTP, ProcessInv, LifeTypes, Stages, States,
     Process!Servers
<1>3. LifeTypes'
  BY <1>1, <1>2 DEF ProcessInv, LifeTypes, Process!Running, ServerSteps
<1>4. Stages'
  BY <1>1, <1>2 DEF ProcessInv, LifeTypes, Stages, Closing, Halted, Process!Running,
     Process!LifecycleAssumption
<1> QED BY <1>3, <1>4 DEF ProcessInv

\* The gRPC server is stopped, by force if need be.
LEMMA GRPCKeeps ==
  ASSUME Process!LifecycleAssumption, ProcessInv, Process!StopGRPC
  PROVE  ProcessInv'
<1>1. /\ UNCHANGED <<program, cancelled, exit>> /\ program = "server" /\ overdue \subseteq overdue'
      /\ main = "stop grpc" /\ main' = "wait" /\ ("grpc" \in overdue' \/ Process!Running("grpc") = {})
  BY DEF Process!StopGRPC, Process!Goto, ProcessInv, LifeTypes, ConsumerSteps
<1>2. /\ server' \in [Process!Servers -> States] /\ server'["grpc"] # "serving"
      /\ \A t \in Process!Servers : server'[t] = "none" <=> server[t] = "none"
      /\ server'["consumer"] = server["consumer"] /\ server'["http"] = server["http"]
  BY DEF Process!StopGRPC, ProcessInv, LifeTypes, States, Process!Servers
<1>3. /\ work' \in [Work -> [server : Process!Servers \cup {None}, state : {"none", "running", "cut", "done"}]]
      /\ \A t \in Process!Servers : Process!Running(t)' = Process!Running(t)
  <2>1. (work' = Process!Cut("grpc") \/ work' = work) /\ "grpc" \in Process!Servers
    BY DEF Process!StopGRPC, Process!Servers
  <2> QED BY <2>1, CutRuns
<1>4. LifeTypes'
  BY <1>1, <1>2, <1>3 DEF ProcessInv, LifeTypes, ServerSteps
<1>5. Stages'
  BY <1>1, <1>2, <1>3 DEF ProcessInv, LifeTypes, Stages, Closing, Halted,
     Process!LifecycleAssumption, Process!Servers
<1> QED BY <1>4, <1>5 DEF ProcessInv

\* The consumer is stopped, and the context cancelled.
LEMMA ConsumerKeeps ==
  ASSUME Process!LifecycleAssumption, ProcessInv, Process!StopConsumer
  PROVE  ProcessInv'
<1>1. /\ UNCHANGED <<program, exit>> /\ program = "consumer"
      /\ main = "stop consumer" /\ main' = "close buffer"
      /\ ("consumer" \in overdue' \/ Process!Running("consumer") = {})
  BY DEF Process!StopConsumer, Process!Goto, ProcessInv, LifeTypes, ServerSteps
<1>2. /\ server' \in [Process!Servers -> States] /\ server'["consumer"] = "stopped"
      /\ server'["http"] = "none" /\ server'["grpc"] = "none"
      /\ server["http"] = "none" /\ server["grpc"] = "none"
  BY <1>1 DEF Process!StopConsumer, ProcessInv, LifeTypes, States, Process!Servers
<1>3. /\ work' \in [Work -> [server : Process!Servers \cup {None}, state : {"none", "running", "cut", "done"}]]
      /\ \A t \in Process!Servers : Process!Running(t)' = Process!Running(t)
  <2>1. (work' = Process!Cut("consumer") \/ work' = work) /\ "consumer" \in Process!Servers
    BY DEF Process!StopConsumer, Process!Servers
  <2> QED BY <2>1, CutRuns
<1>4. LifeTypes'
  BY <1>1, <1>2, <1>3 DEF ProcessInv, LifeTypes, ConsumerSteps, Process!Servers
<1>5. \A s \in Process!Servers : Halted(s)' /\ server'[s] # "starting"
  BY <1>1, <1>2, <1>3 DEF ProcessInv, LifeTypes, Halted, Process!Servers
<1>6. Stages'
  BY <1>1, <1>5 DEF Stages
<1> QED BY <1>4, <1>6 DEF ProcessInv

\* Both servers have ended, and what they used is closed.
LEMMA CloseKeeps ==
  ASSUME Process!LifecycleAssumption, ProcessInv, Process!WaitServers \/ Process!CloseResilience \/ Process!CloseClients
  PROVE  ProcessInv'
<1>1. /\ UNCHANGED <<program, server, work, cancelled, overdue>>
      /\ \/ /\ main = "wait" /\ main' = "close buffer" /\ exit' = exit
            /\ server["http"] \in {"stopped", "failed"} /\ server["grpc"] \in {"stopped", "failed"}
         \/ main = "close buffer" /\ main' = "close clients" /\ exit' = exit
         \/ main = "close clients" /\ main' = "exited" /\ exit' = "closed"
  BY DEF Process!WaitServers, Process!CloseResilience, Process!CloseClients, Process!Goto
<1>2. LifeTypes'
  BY <1>1 DEF ProcessInv, LifeTypes, Process!Running, ServerSteps, ConsumerSteps,
     Process!LifecycleAssumption
<1>3. \A s \in Process!Servers : Halted(s) /\ server[s] # "starting"
  BY <1>1 DEF ProcessInv, LifeTypes, Stages, Closing, Halted, Process!Servers, ConsumerSteps
<1>4. Stages'
  BY <1>1, <1>3 DEF Stages, Closing, Halted, Process!Running
<1> QED BY <1>2, <1>4 DEF ProcessInv

\* In every state of a start and a stop, whatever fails and whenever the time of a
\* stop runs out.
LEMMA ProcessInvariance == Process!Spec => []ProcessInv
<1>0. Process!LifecycleAssumption
  BY PartsAssumption
<1>1. Process!Init => ProcessInv
  BY <1>0, ProcessInit
<1>2. ASSUME ProcessInv, [Process!Next]_Process!vars PROVE ProcessInv'
  <2>1. ASSUME NEW w \in Work, Process!Finish(w) PROVE ProcessInv'
    <3>1. /\ UNCHANGED <<program, main, server, cancelled, overdue, exit>>
          /\ work' = [work EXCEPT ![w].state = "done"]
      BY <2>1 DEF Process!Finish
    <3>2. /\ work' \in [Work -> [server : Process!Servers \cup {None}, state : {"none", "running", "cut", "done"}]]
          /\ \A t \in Process!Servers : Process!Running(t)' \subseteq Process!Running(t)
      BY <1>0, <1>2, <3>1 DEF ProcessInv, LifeTypes, Process!Running
    <3> QED BY <1>0, <1>2, <3>1, <3>2, WorkKeeps
  <2>2. ASSUME NEW w \in Work, NEW s \in Process!Servers, Process!Accept(w, s) PROVE ProcessInv'
    BY <1>0, <1>2, <2>2, AcceptKeeps
  <2>3. CASE main # "exited" /\ Process!Goroutines
    BY <1>0, <1>2, <2>3, ServersKeep DEF Process!Goroutines
  <2>4. CASE Process!Main
    BY <1>0, <1>2, <2>4, ProcessStartKeeps, HTTPKeeps, GRPCKeeps, ConsumerKeeps,
       CloseKeeps DEF Process!Main
  <2>5. CASE Process!Signal
    BY <1>0, <1>2, <2>5, SignalKeeps
  <2>6. CASE UNCHANGED Process!vars
    BY <1>0, <1>2, <2>6 DEF Process!vars, ProcessInv, LifeTypes, Stages, Closing, Halted,
       Process!Running
  <2> QED BY <1>0, <1>2, <2>1, <2>2, <2>3, <2>4, <2>5, <2>6 DEF Process!Next
<1> QED BY <1>1, <1>2, PTL DEF Process!Spec

\* The clients are closed when no server runs anything any more, unless its time
\* to stop ran out: for any amount of work and any order of stops and timeouts.
THEOREM ClosedLast == Process!Spec => []OpenWhileServed
<1>1. ProcessInv => OpenWhileServed
  <2> SUFFICES ASSUME ProcessInv, main \in {"close clients", "exited"}, exit \in {None, "closed"}
               PROVE  \A s \in Process!Servers \ overdue : Process!Running(s) = {}
    BY DEF OpenWhileServed, Process!OpenWhileServed
  <2>1. Closing
    BY PartsAssumption DEF Closing, ProcessInv, LifeTypes, Process!LifecycleAssumption
  <2> QED BY <2>1 DEF ProcessInv, Stages, Halted
<1> QED BY <1>1, ProcessInvariance, PTL

\* What is open and which servers are out of time.
OpenTypes == opened \subseteq {"clickhouse", "kinesis", "resilience"} /\ overdue \subseteq Process!Servers

\* The types of a process: main opens each client once, by its name.
THEOREM LifecycleTypes == Process!Spec => []Process!TypeOK
<1>1. Process!Init => OpenTypes
  BY DEF Process!Init, OpenTypes
<1>2. ASSUME OpenTypes, [Process!Next]_Process!vars PROVE OpenTypes'
  <2>1. CASE Process!Initialize
    BY <1>2, <2>1 DEF Process!Initialize, OpenTypes
  <2>2. CASE \E s \in Process!Servers : Process!StartServer(s)
    BY <1>2, <2>2 DEF Process!StartServer, OpenTypes
  <2>3. CASE Process!Shutdown \/ Process!StopHTTP \/ Process!StopGRPC \/ Process!StopConsumer
    BY <1>2, <2>3 DEF Process!Shutdown, Process!StopHTTP, Process!StopGRPC, Process!StopConsumer,
                      OpenTypes, Process!Servers
  <2>4. CASE Process!WaitServers \/ Process!CloseResilience \/ Process!CloseClients
    BY <1>2, <2>4 DEF Process!WaitServers, Process!CloseResilience, Process!CloseClients, OpenTypes
  <2>5. CASE Process!Goroutines \/ Process!Signal
    BY <1>2, <2>5 DEF Process!Goroutines, Process!Listen, Process!GracefulStop,
                      Process!GracefulStopReturns, Process!Signal, OpenTypes
  <2>6. ASSUME NEW w \in Work, Process!Finish(w) \/ \E s \in Process!Servers : Process!Accept(w, s)
        PROVE  OpenTypes'
    BY <1>2, <2>6 DEF Process!Finish, Process!Accept, OpenTypes
  <2>7. CASE UNCHANGED Process!vars
    BY <1>2, <2>7 DEF Process!vars, OpenTypes
  <2> QED BY <1>2, <2>1, <2>2, <2>3, <2>4, <2>5, <2>6, <2>7 DEF Process!Next, Process!Main
<1>3. OpenTypes /\ ProcessInv => Process!TypeOK
  BY DEF OpenTypes, ProcessInv, LifeTypes, States, Process!TypeOK
<1> QED BY <1>1, <1>2, <1>3, ProcessInvariance, PTL DEF Process!Spec

-----------------------------------------------------------------------------
(* The parts together.                                                     *)

\* The proofs of the circuit breaker, whose names are those of its own module.
Breakers == INSTANCE CircuitBreakerProofs

\* The types of the breaker, as proved of it alone.
LEMMA BreakerTypes == Breaker!Spec => []Breaker!TypeOK
<1>1. Breakers!BreakerAssumption
  <2>1. \A S : Breaker!IsFiniteSet(S) <=> Breakers!IsFiniteSet(S)
    BY DEF Breakers!IsFiniteSet, Breaker!IsFiniteSet
  <2> QED BY <2>1, PartsAssumption DEF Breaker!BreakerAssumption, Breakers!BreakerAssumption
<1>2. Breakers!Spec => []Breakers!TypeOK
  BY <1>1, Breakers!TypeCorrect
<1>3. Breaker!Init => Breakers!Init
  BY DEF Breaker!Init, Breakers!Init, Breaker!toNewGeneration, Breakers!toNewGeneration,
     Breaker!Lifetime,
         Breakers!Lifetime, Breaker!Before, Breakers!Before, Breaker!StateClosed, Breakers!StateClosed,
         Breaker!StateOpen, Breakers!StateOpen, Breaker!StateHalfOpen, Breakers!StateHalfOpen,
         Breaker!NoCounts, Breakers!NoCounts, Breaker!Zero, Breakers!Zero, Breaker!Passed, Breakers!Passed,
         Breaker!NotRunning, Breakers!NotRunning
<1>4. [Breaker!Next]_Breaker!vars => [Breakers!Next]_Breakers!vars
  BY DEF Breaker!Next, Breakers!Next, Breaker!vars, Breakers!vars, Breaker!Tick, Breakers!Tick,
     Breaker!State,
         Breakers!State, Breaker!beforeRequest, Breakers!beforeRequest, Breaker!afterRequest,
         Breakers!afterRequest, Breaker!Admits, Breakers!Admits, Breaker!onSuccess, Breakers!onSuccess,
         Breaker!onFailure, Breakers!onFailure, Breaker!CountSuccess, Breakers!CountSuccess,
         Breaker!CountFailure, Breakers!CountFailure, Breaker!setState, Breakers!setState,
         Breaker!currentState, Breakers!currentState, Breaker!toNewGeneration, Breakers!toNewGeneration,
         Breaker!Lifetime, Breakers!Lifetime, Breaker!Before, Breakers!Before, Breaker!StateClosed,
         Breakers!StateClosed, Breaker!StateOpen, Breakers!StateOpen, Breaker!StateHalfOpen,
         Breakers!StateHalfOpen, Breaker!NoCounts, Breakers!NoCounts, Breaker!Zero, Breakers!Zero, Breaker!Passed,
         Breakers!Passed, Breaker!NotRunning, Breakers!NotRunning
<1>5. Breakers!TypeOK => Breaker!TypeOK
  BY DEF Breaker!TypeOK, Breakers!TypeOK, Breaker!Breaker, Breakers!Breaker, Breaker!Counts,
     Breakers!Counts,
         Breaker!CircuitBreakerState, Breakers!CircuitBreakerState, Breaker!StateClosed,
         Breakers!StateClosed, Breaker!StateOpen, Breakers!StateOpen, Breaker!StateHalfOpen,
         Breakers!StateHalfOpen
<1> QED BY <1>2, <1>3, <1>4, <1>5, PTL DEF Breakers!Spec, Breaker!Spec

\* A behaviour of the whole is one of each part: a step of one leaves the others
\* alone.
THEOREM ProgressOfParts ==
  ProgressSpec => Spec /\ Batch!Spec /\ Consumer!Spec /\ Breaker!Spec /\ Process!Spec
<1>1. ProgressInit => Init /\ Batch!Init /\ Consumer!Init /\ Breaker!Init /\ Process!Init
  BY DEF ProgressInit
<1>2. ASSUME [ProgressNext]_<<focus, partVars>>
      PROVE  /\ [Next]_vars /\ [Batch!Next]_Batch!vars /\ [Consumer!Next]_Consumer!vars
             /\ [Breaker!Next]_Breaker!vars /\ [Process!Next]_Process!vars
  <2>1. /\ UNCHANGED batchVars => UNCHANGED Batch!vars
        /\ UNCHANGED consumerVars => UNCHANGED Consumer!vars
        /\ UNCHANGED breakerVars => UNCHANGED Breaker!vars
        /\ UNCHANGED processVars => UNCHANGED Process!vars
    BY DEF batchVars, Batch!vars, consumerVars, Consumer!vars, Consumer!poolVars,
           breakerVars, Breaker!vars, processVars, Process!vars
  <2>2. UNCHANGED <<focus, partVars>> =>
          /\ UNCHANGED vars /\ UNCHANGED batchVars /\ UNCHANGED consumerVars
          /\ UNCHANGED breakerVars /\ UNCHANGED processVars
    BY DEF partVars
  <2> QED BY <1>2, <2>1, <2>2 DEF ProgressNext
<1> QED BY <1>1, <1>2, PTL DEF ProgressSpec, Spec, Batch!Spec, Consumer!Spec, Breaker!Spec,
           Process!Spec

\* The types of every part, in the whole.
THEOREM ProgressTypes == ProgressSpec => []TypesOK
<1>1. TypeOK /\ Consumer!TypeOK /\ Breaker!TypeOK /\ Process!TypeOK /\ Batch!TypeOK => TypesOK
  BY DEF TypesOK
<1> QED BY <1>1, ProgressOfParts, TypeCorrect, BatchTypes, ConsumerTypes, BreakerTypes,
           LifecycleTypes, PTL

\* What the whole keeps at every step of its way to an end: the order of a stop
\* and what the buffer promises.
THEOREM ProgressKept == ProgressSpec => []OpenWhileServed /\ KeepsItsPromise
BY ProgressOfParts, ClosedLast, Implements, PTL
================================================================================
