--------------------------- MODULE KinesisConsumer ---------------------------
(***************************************************************************)
(* The stream consumer, internal/consumer/kinesis_consumer.go, with its    *)
(* process, internal/app/consumer.go: one goroutine per stream polls the   *)
(* first shard of the stream and hands what it reads to ClickHouse, first  *)
(* as a batch and, if that fails, record by record.                        *)
(*                                                                         *)
(* A record is its position in the shard.  Each type of telemetry has a    *)
(* stream of its own, and a protobuf record holds at least one span,       *)
(* metric or log record.                                                   *)
(***************************************************************************)
EXTENDS ClickHouse, Sequences, FiniteSets, Ascending

CONSTANTS
  Streams,     \* the stream types consumed, of "traces", "metrics", "logs"
  MaxRecords,  \* bound: records the shard of a stream receives
  MaxStarts    \* bound: times the process is started

ConsumerAssumption ==
  /\ Streams \subseteq {"traces", "metrics", "logs"}
  /\ MaxRecords \in [Streams -> Nat \ {0}]
  /\ MaxStarts \in Nat \ {0}
  /\ PoolAssumption

VARIABLES
  shard,     \* formats of the records of a stream's shard, in order
  open,      \* the shard accepts records (resharding closes it)
  expired,   \* the iterator in use is too old for Kinesis
  iterator,  \* kc.shardStates: position of the next record to read, 0 if there is none
  pc,        \* where the goroutine of a stream stands
  batch,     \* events, those still to be inserted
  app,       \* where the process stands
  stopChan,  \* kc.stopChan is closed
  timedOut,  \* the wait for Stop ended by its timeout
  starts,    \* times the process was started
  rows,      \* rows stored of a record, counted up to 2
  logged,    \* history of this process: records an error was logged for
  reported   \* history of this process: records of a batch reported as stored

vars == <<poolVars, shard, open, expired, iterator, pc, batch, app, stopChan, timedOut, starts,
          rows, logged, reported>>

kinesisVars == <<shard, open>>
processVars == <<app, stopChan, timedOut, starts>>

Positions(s) == 1 .. MaxRecords[s]
Formats   == {"proto", "json", "garbage"}
PCs       == {"off", "select", "batch", "fallback"}
AppStates == {"down", "running", "stopping", "closing"}

Init ==
  /\ shard = [s \in Streams |-> <<>>]
  /\ open = [s \in Streams |-> TRUE]
  /\ expired = [s \in Streams |-> FALSE]
  /\ iterator = [s \in Streams |-> 0]
  /\ pc = [s \in Streams |-> "off"]
  /\ batch = [s \in Streams |-> <<>>]
  /\ NewClickHouseClient
  /\ app = "down"
  /\ stopChan = FALSE
  /\ timedOut = FALSE
  /\ starts = 0
  /\ rows = [s \in Streams |-> [i \in Positions(s) |-> 0]]
  /\ logged = [s \in Streams |-> {}]
  /\ reported = [s \in Streams |-> {}]

\* app.ctx is cancelled by Close, after the wait for Stop.
ctxDone == app = "closing"

-----------------------------------------------------------------------------
(* Kinesis: records arrive, the shard is closed by a resharding, and an    *)
(* iterator not used for five minutes expires, which shows at the next     *)
(* poll only.                                                              *)

PutRecord(s, format) ==
  /\ open[s] /\ Len(shard[s]) < MaxRecords[s]
  /\ shard' = [shard EXCEPT ![s] = Append(@, format)]
  /\ UNCHANGED <<poolVars, open, expired, iterator, pc, batch, processVars, rows, logged, reported>>

CloseShard(s) ==
  /\ open[s]
  /\ open' = [open EXCEPT ![s] = FALSE]
  /\ UNCHANGED <<poolVars, shard, expired, iterator, pc, batch, processVars, rows, logged, reported>>

Expire(s) ==
  /\ pc[s] = "select" /\ ~expired[s]
  /\ expired' = [expired EXCEPT ![s] = TRUE]
  /\ UNCHANGED <<poolVars, kinesisVars, iterator, pc, batch, processVars, rows, logged, reported>>

-----------------------------------------------------------------------------
(* The process.                                                            *)

\* Every stream gets an iterator at the beginning of its shard before the
\* first goroutine starts; a start that fails before that leaves nothing.
Start ==
  /\ app = "down" /\ starts < MaxStarts
  /\ app' = "running"
  /\ starts' = starts + 1
  /\ iterator' = [s \in Streams |-> 1]
  /\ pc' = [s \in Streams |-> "select"]
  /\ UNCHANGED <<poolVars, kinesisVars, expired, batch, stopChan, timedOut, rows, logged, reported>>

\* A signal: shutdown calls Stop in a goroutine and waits for it.
Shutdown ==
  /\ app = "running"
  /\ app' = "stopping"
  /\ stopChan' = TRUE
  /\ UNCHANGED <<poolVars, kinesisVars, expired, iterator, pc, batch, timedOut, starts, rows,
                 logged, reported>>

StopReturns ==
  /\ app = "stopping"
  /\ \A s \in Streams : pc[s] = "off"
  /\ app' = "closing"
  /\ UNCHANGED <<poolVars, kinesisVars, expired, iterator, pc, batch, stopChan, timedOut, starts, rows,
                 logged, reported>>

\* KinesisShutdownTimeout has passed: the context is cancelled under the
\* goroutines that still run.
StopTimesOut ==
  /\ app = "stopping"
  /\ app' = "closing"
  /\ timedOut' = TRUE
  /\ UNCHANGED <<poolVars, kinesisVars, expired, iterator, pc, batch, stopChan, starts, rows, logged,
                 reported>>

\* The process ends, by itself or by a crash, and its memory with it.
End ==
  /\ app' = "down"
  /\ stopChan' = FALSE
  /\ timedOut' = FALSE
  /\ iterator' = [s \in Streams |-> 0]
  /\ expired' = [s \in Streams |-> FALSE]
  /\ pc' = [s \in Streams |-> "off"]
  /\ batch' = [s \in Streams |-> <<>>]
  /\ Close
  /\ logged' = [s \in Streams |-> {}]
  /\ reported' = [s \in Streams |-> {}]
  /\ UNCHANGED <<kinesisVars, starts, rows>>

Exit  == app = "closing" /\ End
Crash == app # "down" /\ End

-----------------------------------------------------------------------------
(* pollStream: GetRecords, then the iterator, then parsing.                *)

\* Kinesis gives no next iterator once a closed shard is read to its end; the
\* old one then stays, and is used again.
NextIterator(s, last) ==
  IF ~open[s] /\ last = Len(shard[s]) THEN iterator[s] ELSE last + 1

\* Mutated form: the events are collected, and those before a parse error
\* are dropped with it.
Parsed_UpToError(s, first, last) ==
  {i \in first .. last : \A j \in first .. i : shard[s][j] # "garbage"}

\* Records that do not parse are logged and skipped.
Parsed(s, first, last) == {i \in first .. last : shard[s][i] # "garbage"}

\* A poll that succeeds, with the records up to last.  One that fails, which
\* it does with an expired iterator or a context that is done, is logged.
Poll(s, last) ==
  LET first == iterator[s] IN
  /\ pc[s] = "select" /\ ~expired[s] /\ ~ctxDone
  /\ last \in first - 1 .. Len(shard[s])
  /\ iterator' = [iterator EXCEPT ![s] = NextIterator(s, last)]
  /\ \E events \in InAscendingOrder(Parsed(s, first, last)) :
       /\ batch' = [batch EXCEPT ![s] = events]
       /\ pc' = [pc EXCEPT ![s] = IF events = <<>> THEN "select" ELSE "batch"]
  /\ logged' = [logged EXCEPT ![s] =
                  @ \cup {i \in first .. last : shard[s][i] = "garbage"}]
  /\ UNCHANGED <<poolVars, kinesisVars, expired, processVars, rows, reported>>

-----------------------------------------------------------------------------
(* processBatch and processRecordDirect.  The event of a JSON record has a *)
(* nil payload and is batched with the rest.                               *)

Elements(q) == {q[i] : i \in 1 .. Len(q)}
Protos(s)   == {i \in Elements(batch[s]) : shard[s][i] = "proto"}

batchInsert(s, ok) ==
  CASE s = "traces"  -> InsertTraceProtobufBatch(Protos(s), ctxDone, ok)
    [] s = "metrics" -> InsertMetricProtobufBatch(Elements(batch[s]), Protos(s), ok)
    [] s = "logs"    -> InsertLogProtobufBatch(Protos(s), ctxDone, ok)

processBatch(s) ==
  /\ pc[s] = "batch"
  /\ \E ok \in BOOLEAN :
       /\ batchInsert(s, ok)
       /\ IF ok
          THEN /\ pc' = [pc EXCEPT ![s] = "select"]
               /\ reported' = [reported EXCEPT ![s] = @ \cup Elements(batch[s])]
               /\ batch' = [batch EXCEPT ![s] = <<>>]
          ELSE /\ pc' = [pc EXCEPT ![s] = "fallback"]
               /\ UNCHANGED <<reported, batch>>
  /\ UNCHANGED <<kinesisVars, expired, iterator, processVars, rows, logged>>

\* Mutated form: an off-by-one in the end of the loop.
NextRecord_OneMore(s, ok) ==
  /\ batch' = [batch EXCEPT ![s] = Tail(@)]
  /\ pc' = [pc EXCEPT ![s] = IF Len(batch[s]) > 0 THEN "fallback" ELSE "select"]

\* Mutated form: a record whose insert failed is tried again.
NextRecord_Retries(s, ok) ==
  /\ batch' = [batch EXCEPT ![s] = IF ok THEN Tail(@) ELSE @]
  /\ pc' = [pc EXCEPT ![s] = IF ok /\ Len(batch[s]) = 1 THEN "select" ELSE "fallback"]

\* Mutated form: the fallback ends with the first error.
NextRecord_StopsAtError(s, ok) ==
  /\ batch' = [batch EXCEPT ![s] = IF ok THEN Tail(@) ELSE <<>>]
  /\ pc' = [pc EXCEPT ![s] = IF ok /\ Len(batch[s]) > 1 THEN "fallback" ELSE "select"]

\* Whatever the insert of one record returned, the next one follows.
NextRecord(s, ok) ==
  /\ batch' = [batch EXCEPT ![s] = Tail(@)]
  /\ pc' = [pc EXCEPT ![s] = IF Len(batch[s]) > 1 THEN "fallback" ELSE "select"]

singleInsert(s, ok, stored) ==
  CASE s = "traces"  -> InsertTrace(ctxDone, ok, stored)
    [] s = "metrics" -> InsertMetric(ok, stored)
    [] s = "logs"    -> InsertLog(ok, stored)

Store(s, i) == [rows EXCEPT ![s][i] = IF @ < 2 THEN @ + 1 ELSE @]

processRecordDirect(s) ==
  /\ pc[s] = "fallback"
  /\ \E ok, stored \in BOOLEAN :
       /\ singleInsert(s, ok, stored)
       /\ rows' = IF stored THEN Store(s, Head(batch[s])) ELSE rows
       /\ logged' = IF ok THEN logged ELSE [logged EXCEPT ![s] = @ \cup {Head(batch[s])}]
       /\ NextRecord(s, ok)
  /\ UNCHANGED <<kinesisVars, expired, iterator, processVars, reported>>

\* The select of consumeStream takes a closed channel or a context that is
\* done; a tick that is due may still be taken first.
Leave(s) ==
  /\ pc[s] = "select"
  /\ stopChan
  /\ pc' = [pc EXCEPT ![s] = "off"]
  /\ UNCHANGED <<poolVars, kinesisVars, expired, iterator, batch, processVars, rows, logged, reported>>

Next ==
  \/ Start \/ Shutdown \/ StopReturns \/ StopTimesOut \/ Exit \/ Crash
  \/ \E s \in Streams :
       \/ \E format \in Formats : PutRecord(s, format)
       \/ CloseShard(s)
       \/ Expire(s)
       \/ \E last \in 0 .. MaxRecords[s] : Poll(s, last)
       \/ processBatch(s)
       \/ processRecordDirect(s)
       \/ Leave(s)

Spec == Init /\ [][Next]_vars

\* The ticker and the scheduler keep a goroutine going, Kinesis does not hide
\* available records from every poll, and every call of ClickHouse returns.
\* The process is not promised to start, nor records to arrive.
Fairness ==
  /\ \A s \in Streams :
       /\ WF_vars(\E last \in iterator[s] .. MaxRecords[s] : Poll(s, last))
       /\ WF_vars(processBatch(s))
       /\ WF_vars(processRecordDirect(s))
       /\ WF_vars(Leave(s))
  /\ WF_vars(StopReturns \/ StopTimesOut)
  /\ WF_vars(Exit)

FairSpec == Spec /\ Fairness

-----------------------------------------------------------------------------
(* Properties.                                                             *)

\* The state of the consumer has its type, and a goroutine has a batch in
\* hand exactly while it is inserting.
TypeOK ==
  /\ PoolTypeOK
  /\ \A s \in Streams :
       /\ shard[s] \in Seq(Formats) /\ Len(shard[s]) <= MaxRecords[s]
       /\ iterator[s] \in IF app = "down" THEN {0} ELSE 1 .. Len(shard[s]) + 1
       /\ batch[s] \in Seq(Positions(s))
       /\ rows[s] \in [Positions(s) -> 0 .. 2]
       /\ logged[s] \subseteq Positions(s) /\ reported[s] \subseteq Positions(s)
       /\ pc[s] \in {"batch", "fallback"} <=> batch[s] # <<>>
  /\ open \in [Streams -> BOOLEAN]
  /\ expired \in [Streams -> BOOLEAN]
  /\ pc \in [Streams -> PCs]
  /\ app \in AppStates
  /\ stopChan \in BOOLEAN /\ timedOut \in BOOLEAN
  /\ starts \in 0 .. MaxStarts

\* Batches the inserts report as stored without storing anything: traces and
\* logs that came as JSON, and every metric that came as protobuf.
Dropped(s, i) ==
  /\ i \in reported[s]
  /\ shard[s][i] = IF s = "metrics" THEN "proto" ELSE "json"

\* The iterator moves on before the records are stored (pollStream).  While
\* the process lives, every record it has moved past is still in hand, or was
\* stored, or has an error in the log, or is of a kind whose batch insert
\* drops it: no other record disappears without a trace, and in particular
\* no protobuf trace or log does.
Accounted ==
  app # "down" =>
    \A s \in Streams : \A i \in 1 .. iterator[s] - 1 :
      i \in Elements(batch[s]) \/ i \in logged[s] \/ rows[s][i] > 0 \/ Dropped(s, i)

\* While the pool has a connection, only a failure of the database or the end of
\* the context keeps a trace that was parsed from being stored: the fallback makes
\* up for every trace batch the inserts refuse.
StoredUntilDry ==
  kept < MaxOpenConns /\ app # "closing" =>
    \A s \in Streams \cap {"traces"} :
      Cardinality({i \in logged[s] : shard[s][i] # "garbage" /\ rows[s][i] = 0}) <= outages

\* A record is stored twice only if the process was started again, and read
\* the stream from its beginning, or the shard was closed, and its last
\* records are read with every tick.  The fallback alone stores nothing twice.
Duplicates ==
  \A s \in Streams : \A i \in Positions(s) : rows[s][i] > 1 => starts > 1 \/ ~open[s]

\* When shutdown has seen Stop return, no goroutine is left, so the context
\* and the database are closed under none: every record read was finished.
CleanStop ==
  app = "closing" /\ ~timedOut =>
    \A s \in Streams : pc[s] = "off" /\ batch[s] = <<>>

\* While the consumer runs, a record of the shard is in the end stored,
\* logged or reported, unless the iterator expires: nothing renews it.
EventuallyRead ==
  \A s \in Streams : \A i \in Positions(s) :
    (app = "running" /\ i \in 1 .. Len(shard[s]))
      ~> (i \in logged[s] \cup reported[s] \/ rows[s][i] > 0 \/ expired[s] \/ app # "running")
=============================================================================
