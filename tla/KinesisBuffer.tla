---------------------------- MODULE KinesisBuffer ----------------------------
(***************************************************************************)
(* The buffer in front of Kinesis, internal/resilience/kinesis_buffer.go:  *)
(* request goroutines that call BufferEvent, the workers that take flush   *)
(* jobs, the periodic flush loop, and Close.  They share the tenant        *)
(* buffers, each behind its own mutex, the bounded job channel and the     *)
(* closed flag; a flush takes everything out of a buffer first and then    *)
(* publishes batch by batch with no lock held.                             *)
(*                                                                         *)
(* Every event comes with one request, so events name the requests too.    *)
(* The order of events inside a buffer is abstracted: a batch is any       *)
(* maxBatchSize of the events taken.                                       *)
(***************************************************************************)
EXTENDS Integers, FiniteSets, Sequences

CONSTANTS
  Events,           \* telemetry events, each with the request that carries it
  Tenants,
  tenantOf,         \* [Events -> Tenants]
  Workers,          \* the worker pool
  maxBatchSize,     \* BufferConfig.MaxBatchSize
  maxTenantBuffer,  \* BufferConfig.MaxTenantBuffer
  JobQueueSize      \* WorkerChannelBufferSize

\* A flush runs in a request (the buffer was full), in a worker, or in the
\* goroutine flushAll starts for a tenant, named after the tenant.
Flushers == Events \cup Workers \cup Tenants

ASSUME BufferAssumption ==
  /\ tenantOf \in [Events -> Tenants]
  /\ IsFiniteSet(Events)
  /\ Events \cap Workers = {} /\ Events \cap Tenants = {} /\ Workers \cap Tenants = {}
  /\ maxBatchSize \in Nat \ {0}
  /\ maxTenantBuffer \in Nat \ {0}
  /\ JobQueueSize \in Nat \ {0}

VARIABLES
  pc,        \* where each request stands in BufferEvent
  answer,    \* what BufferEvent returned
  buffer,    \* events of each tenant's buffer
  held,      \* events a running flush has taken out and not published yet
  jobs,      \* flushJobChan
  stopped,   \* workers that returned
  loop,      \* the flush loop: "waiting", "flushing", "final" or "stopped"
  toScan,    \* tenants flushAll has yet to look at
  toFlush,   \* tenants it found data for and has yet to flush
  closed,    \* the closed flag, and closeChan
  published, \* events Kinesis accepted
  dlq,       \* events handed to the dead letter queue
  abandoned, \* events a failing flush took out and did neither with
  owed       \* history: events acknowledged before Close

vars == <<pc, answer, buffer, held, jobs, stopped, loop, toScan, toFlush, closed,
          published, dlq, abandoned, owed>>

requestVars == <<pc, answer>>
loopVars    == <<loop, toScan, toFlush>>
fateVars    == <<published, dlq, abandoned>>
closeVars   == <<closed, owed>>

PCs == {"new", "add", "full", "flushing", "flushed", "failed", "added",
        "submit", "done"}

\* "refused" stands for ErrBufferClosed, ErrTenantThrottled and ErrBufferFull.
Answers == {"none", "ok", "refused", "flushFailed"}

Init ==
  /\ pc = [e \in Events |-> "new"]
  /\ answer = [e \in Events |-> "none"]
  /\ buffer = [t \in Tenants |-> {}]
  /\ held = [f \in Flushers |-> {}]
  /\ jobs = <<>>
  /\ stopped = {}
  /\ loop = "waiting"
  /\ toScan = {}
  /\ toFlush = {}
  /\ closed = FALSE
  /\ published = {}
  /\ dlq = {}
  /\ abandoned = {}
  /\ owed = {}

-----------------------------------------------------------------------------
(* BufferEvent, one request per event.                                     *)

Goto(e, label) == pc' = [pc EXCEPT ![e] = label] /\ UNCHANGED answer

Return(e, result) ==
  /\ pc' = [pc EXCEPT ![e] = "done"]
  /\ answer' = [answer EXCEPT ![e] = result]

\* The closed flag and the rate limiter, whose answer is left open: it may
\* refuse a request of an open buffer too.
Arrive(e) ==
  /\ pc[e] = "new"
  /\ \/ Return(e, "refused")
     \/ ~closed /\ Goto(e, "add")
  /\ UNCHANGED <<buffer, held, jobs, stopped, loopVars, closeVars, fateVars>>

\* addEvent, under the buffer's mutex: it appends and reports success, or
\* finds the buffer full.
Room(t) == Cardinality(buffer[t]) < maxTenantBuffer

Append_(e) == buffer' = [buffer EXCEPT ![tenantOf[e]] = @ \cup {e}]

addEvent(e) ==
  /\ pc[e] \in {"add", "flushed"}
  /\ \/ Room(tenantOf[e]) /\ Append_(e) /\ Goto(e, "added")
     \/ ~Room(tenantOf[e]) /\ pc[e] = "add" /\ Goto(e, "full") /\ UNCHANGED buffer
     \/ ~Room(tenantOf[e]) /\ pc[e] = "flushed" /\ Return(e, "refused") /\ UNCHANGED buffer
  /\ UNCHANGED <<held, jobs, stopped, loopVars, closeVars, fateVars>>

\* Mutated form of getEvents: returns the events and leaves them in the buffer.
getEvents_Keeps(f, t) ==
  /\ held' = [held EXCEPT ![f] = buffer[t]]
  /\ UNCHANGED buffer

\* Copy and clear, under the buffer's mutex.
getEvents(f, t) ==
  /\ held' = [held EXCEPT ![f] = buffer[t]]
  /\ buffer' = [buffer EXCEPT ![t] = {}]

\* The buffer was full: the request flushes it itself.
FlushInRequest(e) ==
  /\ pc[e] = "full"
  /\ getEvents(e, tenantOf[e])
  /\ Goto(e, IF buffer[tenantOf[e]] = {} THEN "flushed" ELSE "flushing")
  /\ UNCHANGED <<jobs, stopped, loopVars, closeVars, fateVars>>

\* That flush failed: the event itself goes to the dead letter queue, and the
\* caller still gets an error.
FlushFailed(e) ==
  /\ pc[e] = "failed"
  /\ dlq' = dlq \cup {e}
  /\ Return(e, "flushFailed")
  /\ UNCHANGED <<buffer, held, jobs, stopped, loopVars, closeVars, published, abandoned>>

\* The event is in; the request succeeds, whatever becomes of the flush it may
\* ask for when a batch is complete.
Added(e) ==
  /\ pc[e] = "added"
  /\ IF Cardinality(buffer[tenantOf[e]]) >= maxBatchSize
     THEN Goto(e, "submit") ELSE Return(e, "ok")
  /\ UNCHANGED <<buffer, held, jobs, stopped, loopVars, closeVars, fateVars>>

\* Mutated form: queues a job whatever the channel holds.
submitFlushJob_Unbounded(e) ==
  /\ pc[e] = "submit"
  /\ jobs' = IF ~closed THEN Append(jobs, tenantOf[e]) ELSE jobs
  /\ Return(e, "ok")
  /\ UNCHANGED <<buffer, held, stopped, loopVars, closeVars, fateVars>>

\* No job once the buffer is closed, and none when the channel is full.
submitFlushJob(e) ==
  /\ pc[e] = "submit"
  /\ jobs' = IF ~closed /\ Len(jobs) < JobQueueSize
             THEN Append(jobs, tenantOf[e]) ELSE jobs
  /\ Return(e, "ok")
  /\ UNCHANGED <<buffer, held, stopped, loopVars, closeVars, fateVars>>

-----------------------------------------------------------------------------
(* flushTenantBuffer, past getEvents: one batch at a time, in whichever    *)
(* goroutine holds the events.                                             *)

Batches(f) ==
  {b \in SUBSET held[f] :
     Cardinality(b) = IF Cardinality(held[f]) > maxBatchSize
                      THEN maxBatchSize ELSE Cardinality(held[f])}

\* processBatch returns nil: Kinesis took the whole batch.
BatchSent(f) ==
  /\ held[f] # {}
  /\ \E batch \in Batches(f) :
       /\ published' = published \cup batch
       /\ held' = [held EXCEPT ![f] = @ \ batch]
       /\ IF f \in Events /\ held[f] = batch
          THEN Goto(f, "flushed") ELSE UNCHANGED requestVars
  /\ UNCHANGED <<buffer, jobs, stopped, loopVars, closeVars, dlq, abandoned>>

\* Mutated form: the events of the failed batch are not handed on.
BatchFailed_NoDLQ(f) ==
  /\ held[f] # {}
  /\ \E batch \in Batches(f) : abandoned' = abandoned \cup (held[f] \ batch)
  /\ held' = [held EXCEPT ![f] = {}]
  /\ IF f \in Events THEN Goto(f, "failed") ELSE UNCHANGED requestVars
  /\ UNCHANGED <<buffer, jobs, stopped, loopVars, closeVars, published, dlq>>

\* processBatch fails: the breaker refuses it and nothing is sent, or a publish
\* reports an error after any part of the batch reached Kinesis.  The batch
\* goes to the dead letter queue whole, and the flush returns: what it had
\* left is in no one's hands any more.
BatchFailed(f) ==
  /\ held[f] # {}
  /\ \E batch \in Batches(f) :
       /\ \E sent \in SUBSET batch : published' = published \cup sent
       /\ dlq' = dlq \cup batch
       /\ abandoned' = abandoned \cup (held[f] \ batch)
  /\ held' = [held EXCEPT ![f] = {}]
  /\ IF f \in Events THEN Goto(f, "failed") ELSE UNCHANGED requestVars
  /\ UNCHANGED <<buffer, jobs, stopped, loopVars, closeVars>>

-----------------------------------------------------------------------------
(* flushWorker.                                                            *)

TakeJob(w) ==
  /\ w \notin stopped
  /\ held[w] = {}
  /\ jobs # <<>>
  /\ jobs' = Tail(jobs)
  /\ getEvents(w, Head(jobs))
  /\ UNCHANGED <<requestVars, stopped, loopVars, closeVars, fateVars>>

\* select picks closeChan, even with jobs in the channel.
StopWorker(w) ==
  /\ closed
  /\ held[w] = {}
  /\ w \notin stopped
  /\ stopped' = stopped \cup {w}
  /\ UNCHANGED <<requestVars, buffer, held, jobs, loopVars, closeVars, fateVars>>

-----------------------------------------------------------------------------
(* flushLoop and flushAll.                                                 *)

\* The ticker fires, or closeChan is closed and this is the final flush.
\* select takes either when both are ready.
StartFlushAll ==
  /\ loop = "waiting"
  /\ toScan' = Tenants
  /\ \/ loop' = "flushing"
     \/ closed /\ loop' = "final"
  /\ UNCHANGED <<requestVars, buffer, held, jobs, stopped, toFlush, closeVars, fateVars>>

\* Mutated form: only a complete batch counts as data.
hasData_FullBatch(t) == Cardinality(buffer[t]) >= maxBatchSize

hasData(t) == buffer[t] # {}

\* flushAll looks at one tenant after the other, each under its own mutex, and
\* flushes none before it has seen them all.
ScanTenant(t) ==
  /\ t \in toScan
  /\ toScan' = toScan \ {t}
  /\ toFlush' = IF hasData(t) THEN toFlush \cup {t} ELSE toFlush
  /\ UNCHANGED <<requestVars, buffer, held, jobs, stopped, loop, closeVars, fateVars>>

FlushTenant(t) ==
  /\ toScan = {}
  /\ t \in toFlush
  /\ held[t] = {}
  /\ toFlush' = toFlush \ {t}
  /\ getEvents(t, t)
  /\ UNCHANGED <<requestVars, jobs, stopped, loop, toScan, closeVars, fateVars>>

\* Mutated form: does not wait for the goroutines it started.
EndFlushAll_NoWait ==
  /\ loop \in {"flushing", "final"}
  /\ loop' = IF loop = "final" THEN "stopped" ELSE "waiting"
  /\ UNCHANGED <<requestVars, buffer, held, jobs, stopped, toScan, toFlush, closeVars,
                 fateVars>>

\* wg.Wait: every goroutine of this round is done.
EndFlushAll ==
  /\ loop \in {"flushing", "final"}
  /\ toScan = {} /\ toFlush = {}
  /\ \A t \in Tenants : held[t] = {}
  /\ loop' = IF loop = "final" THEN "stopped" ELSE "waiting"
  /\ UNCHANGED <<requestVars, buffer, held, jobs, stopped, toScan, toFlush, closeVars,
                 fateVars>>

\* Close, up to its wait for the flush loop (kb.wg): the workers' group is
\* not waited for, and after 30 seconds neither is the loop.
Close ==
  /\ ~closed
  /\ closed' = TRUE
  /\ owed' = {e \in Events : answer[e] = "ok"}
  /\ UNCHANGED <<requestVars, buffer, held, jobs, stopped, loopVars, fateVars>>

-----------------------------------------------------------------------------
Request(e) ==
  \/ Arrive(e) \/ addEvent(e) \/ FlushInRequest(e) \/ FlushFailed(e)
  \/ Added(e) \/ submitFlushJob(e)

ProcessBatch(f) == BatchSent(f) \/ BatchFailed(f)

\* Everything is over: the buffer is closed and no goroutine has work left.
Quiet ==
  /\ closed
  /\ loop = "stopped"
  /\ stopped = Workers
  /\ \A e \in Events : pc[e] = "done"
  /\ UNCHANGED vars

Next ==
  \/ \E e \in Events : Request(e)
  \/ \E f \in Flushers : ProcessBatch(f)
  \/ \E w \in Workers : TakeJob(w) \/ StopWorker(w)
  \/ StartFlushAll
  \/ \E t \in Tenants : ScanTenant(t) \/ FlushTenant(t)
  \/ EndFlushAll
  \/ Close
  \/ Quiet

Spec == Init /\ [][Next]_vars

(* Running goroutines are scheduled, publishes return (AsyncFlushTimeout,  *)
(* or the SDK's own timeouts), the ticker keeps firing, and a closed       *)
(* channel is noticed.  Nobody has to send events, or to call Close.       *)
Fairness ==
  /\ \A e \in Events : WF_vars(pc[e] # "new" /\ Request(e))
  /\ \A f \in Flushers : WF_vars(ProcessBatch(f))
  /\ \A w \in Workers : WF_vars(TakeJob(w)) /\ WF_vars(StopWorker(w))
  /\ WF_vars(StartFlushAll) /\ SF_vars(StartFlushAll /\ loop' = "final")
  /\ \A t \in Tenants : WF_vars(ScanTenant(t)) /\ WF_vars(FlushTenant(t))
  /\ WF_vars(EndFlushAll)

FairSpec == Spec /\ Fairness

-----------------------------------------------------------------------------
(* Properties.                                                             *)

\* The fields of KinesisBuffer, its goroutines and its histories have their types, and
\* the job channel keeps its capacity.
TypeOK ==
  /\ pc \in [Events -> PCs]
  /\ answer \in [Events -> Answers]
  /\ buffer \in [Tenants -> SUBSET Events]
  /\ held \in [Flushers -> SUBSET Events]
  /\ jobs \in Seq(Tenants) /\ Len(jobs) <= JobQueueSize
  /\ stopped \subseteq Workers
  /\ loop \in {"waiting", "flushing", "final", "stopped"}
  /\ toScan \subseteq Tenants /\ toFlush \subseteq Tenants
  /\ closed \in BOOLEAN
  /\ published \subseteq Events /\ dlq \subseteq Events /\ abandoned \subseteq Events
  /\ owed \subseteq Events

\* The events whose fate is settled.
Settled == published \cup dlq \cup abandoned

\* An event is in one pair of hands at a time, whoever flushes concurrently:
\* in the buffer of its own tenant, or with one flush, or settled.  So no two
\* flushes publish the same event, and tenants never mix.
SingleCustody ==
  /\ \A t \in Tenants : \A e \in buffer[t] : tenantOf[e] = t
  /\ \A f \in Flushers, t \in Tenants : held[f] \cap buffer[t] = {}
  /\ \A f, g \in Flushers : f # g => held[f] \cap held[g] = {}
  /\ \A t \in Tenants : buffer[t] \cap Settled = {}
  /\ \A f \in Flushers : held[f] \cap Settled = {}

InBuffer == UNION {buffer[t] : t \in Tenants}
InFlush  == UNION {held[f] : f \in Flushers}

\* What BufferEvent answers is what happened to the event: acknowledged, it
\* is buffered, being flushed or settled; refused, it is nowhere, unless the
\* buffer was full and the failed flush sent it to the dead letter queue.
AnswerIsTrue ==
  \A e \in Events :
    /\ answer[e] = "ok" => e \in InBuffer \cup InFlush \cup Settled
    /\ answer[e] = "refused" =>
         e \notin InBuffer \cup InFlush \cup Settled
    /\ answer[e] = "flushFailed" => e \in dlq

\* When the flush loop has stopped, what was acknowledged before Close is out
\* of the buffers and out of its own goroutines' hands.  Only a worker or a
\* request that was flushing at the time may still hold some of it.
FinalFlush ==
  loop = "stopped" =>
    \A e \in owed :
      /\ e \notin InBuffer
      /\ \A t \in Tenants : e \notin held[t]

\* An acknowledged event leaves the buffer even if its flush job was refused:
\* the periodic flush reaches it (unless the buffer is being closed).
EventuallyFlushed ==
  \A e \in Events : answer[e] = "ok" ~> (e \in Settled \/ closed)

\* Close gets its flush loop to stop.
CloseCompletes == closed ~> loop = "stopped"

\* The event is in no buffer and with no flush, and nothing became of it yet.
Nowhere(e) ==
  /\ \A t \in Tenants : e \notin buffer[t]
  /\ \A f \in Flushers : e \notin held[f]
  /\ e \notin Settled

Place ==
  [e \in Events |-> IF Nowhere(e) THEN "outside"
                    ELSE IF e \in Settled THEN "settled" ELSE "inside"]

Journey == INSTANCE EventJourney WITH place <- Place, answer <- answer

\* The buffer with all its goroutines is an EventJourney: whatever the order of
\* requests, flushes, failures and Close, an event enters once, leaves once,
\* never comes back, and is where the one answer to its request says.
KeepsItsPromise == Journey!Spec

\* docs/RESILIENCE_ARCHITECTURE.md:5 promises ingestion "without data loss":
\* an acknowledged event is buffered, being flushed, published or in the dead
\* letter queue.
NoDataLoss ==
  \A e \in Events :
    answer[e] = "ok" => e \in InBuffer \cup InFlush \cup published \cup dlq
=============================================================================
