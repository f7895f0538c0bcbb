--------------------------- MODULE BatchProcessor ---------------------------
(***************************************************************************)
(* The asynchronous publisher of internal/streaming/batch_processor.go:    *)
(* PublishAsync puts events on one bounded channel per stream, a goroutine *)
(* per stream gathers them into batches and sends those to Kinesis, and    *)
(* Start and Stop run the goroutines.  bp.mu guards the fields, Start and  *)
(* Stop hold it throughout; the goroutines never take it, and find their   *)
(* channel by reading the map without it.                                  *)
(***************************************************************************)
EXTENDS Integers, FiniteSets, SequencesExt, Ascending

CONSTANTS
  Events,           \* events given to PublishAsync, each accepted at most once
  Streams,          \* stream types with a stream name
  streamOf,         \* [Events -> Streams]
  batchSize,        \* the size of a batch, and of each channel
  MaxRetryAttempts  \* attempts at a batch

ProcessorAssumption ==
  /\ IsFiniteSet(Streams) /\ Streams # {}
  /\ streamOf \in [Events -> Streams]
  /\ batchSize \in Nat \ {0}
  /\ MaxRetryAttempts \in Nat \ {0}

VARIABLES
  mu,           \* who holds bp.mu across several steps
  isRunning,
  shutdownCh,   \* TRUE once it is closed
  toStart,      \* streams a running Start has yet to set up
  batchChannels,\* events waiting in each stream's channel
  channels,     \* streams that have one
  pc,           \* the goroutine of each stream
  eventBuffer,  \* its current batch
  attempt,      \* failed attempts at that batch
  ctxDone,      \* the context given to Start is cancelled
  crashed,      \* a panic, or a fatal error of the runtime
  accepted,     \* history: events of each stream PublishAsync took, in order
  sent,         \* history: events Kinesis acknowledged, in order
  lost          \* history: events given up

vars == <<mu, isRunning, shutdownCh, toStart, batchChannels, channels, pc,
          eventBuffer, attempt, ctxDone, crashed, accepted, sent, lost>>

lifeVars    == <<mu, isRunning, shutdownCh, toStart, channels>>
historyVars == <<accepted, sent, lost>>

PCs == {"off", "spawned", "running", "flushing", "backoff", "final"}

Init ==
  /\ mu = "free"
  /\ isRunning = FALSE
  /\ shutdownCh = FALSE
  /\ toStart = {}
  /\ batchChannels = [s \in Streams |-> <<>>]
  /\ channels = {}
  /\ pc = [s \in Streams |-> "off"]
  /\ eventBuffer = [s \in Streams |-> <<>>]
  /\ attempt = [s \in Streams |-> 0]
  /\ ctxDone = FALSE
  /\ crashed = FALSE
  /\ accepted = [s \in Streams |-> <<>>]
  /\ sent = [s \in Streams |-> <<>>]
  /\ lost = {}

-----------------------------------------------------------------------------
(* Start, PublishAsync and Stop.                                           *)

\* A running processor refuses to start.
Start ==
  /\ ~crashed /\ mu = "free" /\ ~isRunning
  /\ mu' = "start"
  /\ toStart' = Streams
  /\ UNCHANGED <<isRunning, shutdownCh, channels, batchChannels, pc, eventBuffer,
                 attempt, ctxDone, crashed, historyVars>>

StartStream(s) ==
  /\ ~crashed /\ s \in toStart
  /\ toStart' = toStart \ {s}
  /\ batchChannels' = [batchChannels EXCEPT ![s] = <<>>]
  /\ channels' = channels \cup {s}
  /\ pc' = [pc EXCEPT ![s] = "spawned"]
  /\ UNCHANGED <<mu, isRunning, shutdownCh, eventBuffer, attempt, ctxDone, crashed,
                 historyVars>>

EndStart ==
  /\ ~crashed /\ mu = "start" /\ toStart = {}
  /\ mu' = "free"
  /\ isRunning' = TRUE
  /\ UNCHANGED <<shutdownCh, toStart, channels, batchChannels, pc, eventBuffer,
                 attempt, ctxDone, crashed, historyVars>>

\* A full channel refuses the event.
PublishAsync(e) ==
  LET s == streamOf[e] IN
  /\ ~crashed /\ mu = "free" /\ isRunning
  /\ s \in channels
  /\ ~Contains(accepted[s], e)
  /\ Len(batchChannels[s]) < batchSize
  /\ batchChannels' = [batchChannels EXCEPT ![s] = Append(@, e)]
  /\ accepted' = [accepted EXCEPT ![s] = Append(@, e)]
  /\ UNCHANGED <<lifeVars, pc, eventBuffer, attempt, ctxDone, crashed, sent, lost>>

\* Closing a channel that is closed already panics: so does Stop the second
\* time it gets here.
Stop ==
  /\ ~crashed /\ mu = "free" /\ isRunning
  /\ IF shutdownCh
     THEN crashed' = TRUE /\ UNCHANGED <<mu, shutdownCh>>
     ELSE mu' = "stop" /\ shutdownCh' = TRUE /\ UNCHANGED crashed
  /\ UNCHANGED <<isRunning, toStart, channels, batchChannels, pc, eventBuffer,
                 attempt, ctxDone, historyVars>>

CloseChannels ==
  /\ mu' = "free"
  /\ isRunning' = FALSE
  /\ channels' = {}
  /\ lost' = lost \cup UNION {ToSet(batchChannels[s]) : s \in channels}
  /\ batchChannels' = [s \in Streams |-> <<>>]
  /\ UNCHANGED <<shutdownCh, toStart, pc, eventBuffer, attempt, ctxDone, crashed,
                 accepted, sent>>

\* Mutated form: does not wait for the goroutines.
StopCompletes_NoWait == ~crashed /\ mu = "stop" /\ CloseChannels

\* bp.wg.Wait returned: the channels go, with what is still in them.
StopCompletes ==
  /\ ~crashed /\ mu = "stop"
  /\ \A s \in Streams : pc[s] = "off"
  /\ CloseChannels

\* ShutdownTimeout passed: Stop returns an error and leaves things as they are.
StopTimesOut ==
  /\ ~crashed /\ mu = "stop"
  /\ mu' = "free"
  /\ UNCHANGED <<isRunning, shutdownCh, toStart, channels, batchChannels, pc,
                 eventBuffer, attempt, ctxDone, crashed, historyVars>>

Cancel ==
  /\ ~crashed /\ ~ctxDone
  /\ ctxDone' = TRUE
  /\ UNCHANGED <<lifeVars, batchChannels, pc, eventBuffer, attempt, crashed, historyVars>>

-----------------------------------------------------------------------------
(* processBatch, the goroutine of a stream.                                *)

Goto(s, label) == pc' = [pc EXCEPT ![s] = label]

\* The goroutine reads the map without bp.mu: while Start is writing to it the
\* runtime may detect the race and end the process.
ReadChannel(s) ==
  /\ ~crashed /\ pc[s] = "spawned"
  /\ Goto(s, "running")
  /\ crashed' \in {FALSE, toStart # {}}
  /\ UNCHANGED <<lifeVars, batchChannels, eventBuffer, attempt, ctxDone, historyVars>>

Receive(s) ==
  /\ ~crashed /\ pc[s] = "running"
  /\ batchChannels[s] # <<>>
  /\ eventBuffer' = [eventBuffer EXCEPT ![s] = Append(@, Head(batchChannels[s]))]
  /\ batchChannels' = [batchChannels EXCEPT ![s] = Tail(@)]
  /\ IF Len(eventBuffer'[s]) >= batchSize THEN Goto(s, "flushing") ELSE UNCHANGED pc
  /\ UNCHANGED <<lifeVars, attempt, ctxDone, crashed, historyVars>>

\* Mutated form: the ticker is ignored.
Tick_Ignored(s) ==
  /\ ~crashed /\ pc[s] = "running"
  /\ UNCHANGED vars

\* The ticker fires; with an empty batch nothing happens.
Tick(s) ==
  /\ ~crashed /\ pc[s] = "running"
  /\ eventBuffer[s] # <<>>
  /\ Goto(s, "flushing")
  /\ UNCHANGED <<lifeVars, batchChannels, eventBuffer, attempt, ctxDone, crashed,
                 historyVars>>

\* Done with this batch.
Reset(s) ==
  /\ eventBuffer' = [eventBuffer EXCEPT ![s] = <<>>]
  /\ attempt' = [attempt EXCEPT ![s] = 0]

\* PutRecords returned no error.  FailedRecordCount is not looked at, and an
\* event that did not marshal was skipped: some of the batch may not be in.
Acknowledged(s) ==
  \E put \in SUBSET (1 .. Len(eventBuffer[s])) : \E q \in InAscendingOrder(put) :
    /\ sent' = [sent EXCEPT ![s] = @ \o [i \in 1 .. Cardinality(put) |-> eventBuffer[s][q[i]]]]
    /\ lost' = lost \cup {eventBuffer[s][i] : i \in (1 .. Len(eventBuffer[s])) \ put}

GiveUp(s) ==
  /\ lost' = lost \cup ToSet(eventBuffer[s])
  /\ UNCHANGED sent

\* Mutated form: the batch is kept after it was sent.
FlushSucceeds_NoReset(s) ==
  /\ ~crashed /\ pc[s] = "flushing"
  /\ Acknowledged(s)
  /\ Goto(s, "running")
  /\ UNCHANGED <<lifeVars, batchChannels, eventBuffer, attempt, ctxDone, crashed, accepted>>

FlushSucceeds(s) ==
  /\ ~crashed /\ pc[s] = "flushing"
  /\ Acknowledged(s)
  /\ Reset(s)
  /\ Goto(s, "running")
  /\ UNCHANGED <<lifeVars, batchChannels, ctxDone, crashed, accepted>>

\* Mutated form: one failed attempt and the batch is dropped unrecorded.
FlushFails_Forgets(s) ==
  /\ ~crashed /\ pc[s] = "flushing"
  /\ Reset(s) /\ Goto(s, "running")
  /\ UNCHANGED <<lifeVars, batchChannels, ctxDone, crashed, historyVars>>

\* The last failed attempt gives the batch up.
FlushFails(s) ==
  /\ ~crashed /\ pc[s] = "flushing"
  /\ IF attempt[s] + 1 < MaxRetryAttempts
     THEN /\ attempt' = [attempt EXCEPT ![s] = @ + 1]
          /\ Goto(s, "backoff")
          /\ UNCHANGED <<eventBuffer, sent, lost>>
     ELSE GiveUp(s) /\ Reset(s) /\ Goto(s, "running")
  /\ UNCHANGED <<lifeVars, batchChannels, ctxDone, crashed, accepted>>

\* The pause before the next attempt ends, or the context does, and then the
\* batch is given up.
Backoff(s) ==
  /\ ~crashed /\ pc[s] = "backoff"
  /\ \/ Goto(s, "flushing") /\ UNCHANGED <<eventBuffer, attempt, sent, lost>>
     \/ ctxDone /\ GiveUp(s) /\ Reset(s) /\ Goto(s, "running")
  /\ UNCHANGED <<lifeVars, batchChannels, ctxDone, crashed, accepted>>

\* Told to end, by Stop or by the context, whatever is in the channel.
Leave(s) ==
  /\ ~crashed /\ pc[s] = "running"
  /\ shutdownCh \/ ctxDone
  /\ Goto(s, IF eventBuffer[s] = <<>> THEN "off" ELSE "final")
  /\ UNCHANGED <<lifeVars, batchChannels, eventBuffer, attempt, ctxDone, crashed,
                 historyVars>>

\* One last attempt at the batch.
handleGracefulShutdown(s) ==
  /\ ~crashed /\ pc[s] = "final"
  /\ Acknowledged(s) \/ GiveUp(s)
  /\ Reset(s)
  /\ Goto(s, "off")
  /\ UNCHANGED <<lifeVars, batchChannels, ctxDone, crashed, accepted>>

processBatch(s) ==
  \/ ReadChannel(s) \/ Receive(s) \/ Tick(s) \/ FlushSucceeds(s) \/ FlushFails(s)
  \/ Backoff(s) \/ Leave(s) \/ handleGracefulShutdown(s)

-----------------------------------------------------------------------------
Next ==
  \/ Start \/ EndStart \/ Stop \/ StopCompletes \/ StopTimesOut \/ Cancel
  \/ \E s \in Streams : StartStream(s) \/ processBatch(s)
  \/ \E e \in Events : PublishAsync(e)

Spec == Init /\ [][Next]_vars

(* Goroutines are scheduled, PutRecords and timers return, the ticker keeps *)
(* firing, and select, which picks among the ready cases at random, does   *)
(* not pass over a ready channel for ever.                                 *)
Fairness ==
  \A s \in Streams :
    /\ WF_vars(ReadChannel(s)) /\ SF_vars(Receive(s))
    /\ WF_vars(Tick(s)) /\ WF_vars(Backoff(s))
    /\ WF_vars(FlushSucceeds(s) \/ FlushFails(s))

FairSpec == Spec /\ Fairness

-----------------------------------------------------------------------------
(* Properties.                                                             *)

\* The processor's fields and goroutines have their types; a batch never outgrows
\* its size, nor a retry loop its attempts.
TypeOK ==
  /\ mu \in {"free", "start", "stop"}
  /\ isRunning \in BOOLEAN /\ shutdownCh \in BOOLEAN
  /\ ctxDone \in BOOLEAN /\ crashed \in BOOLEAN
  /\ toStart \subseteq Streams /\ channels \subseteq Streams
  /\ batchChannels \in [Streams -> Seq(Events)]
  /\ pc \in [Streams -> PCs]
  /\ \A s \in Streams : eventBuffer[s] \in Seq(Events) /\ Len(eventBuffer[s]) <= batchSize
  /\ attempt \in [Streams -> 0 .. MaxRetryAttempts - 1]
  /\ accepted \in [Streams -> Seq(Events)] /\ sent \in [Streams -> Seq(Events)]
  /\ lost \subseteq Events

\* An event PublishAsync took is in its channel, in the current batch, sent,
\* or given up; and only in one of these places.
Custody ==
  \A s \in Streams : \A e \in ToSet(accepted[s]) :
    Cardinality({place \in {<<1, ToSet(batchChannels[s])>>, <<2, ToSet(eventBuffer[s])>>,
                            <<3, ToSet(sent[s])>>, <<4, lost>>} : e \in place[2]}) = 1

\* What Kinesis acknowledges of a stream comes in the order in which it was
\* accepted, no event twice, across retries, ticks, restarts and final flushes.
InOrder ==
  \A s \in Streams : \A i, j \in 1 .. Len(sent[s]) :
    i < j => \E k, l \in 1 .. Len(accepted[s]) :
               k < l /\ accepted[s][k] = sent[s][i] /\ accepted[s][l] = sent[s][j]

\* When Stop has succeeded no goroutine is left, no channel, and no batch.
CleanStop ==
  ~isRunning /\ mu = "free" =>
    /\ channels = {}
    /\ \A s \in Streams : pc[s] = "off" /\ eventBuffer[s] = <<>>

\* While the processor runs, an accepted event is sent or given up in the end,
\* even if its batch never fills.
EventuallyFlushed ==
  \A s \in Streams, e \in Events :
    Contains(accepted[s], e) ~>
      (Contains(sent[s], e) \/ e \in lost \/ shutdownCh \/ ctxDone \/ crashed)

\* The comments on Start and Stop (batch_processor.go:170 and 446): "This
\* method is idempotent and thread-safe".
NoCrash == ~crashed
=============================================================================
