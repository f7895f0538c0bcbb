------------------------------ MODULE ClickHouse ------------------------------
(* The inserts of internal/storage/clickhouse.go that the consumer calls, by    *)
(* what they store, what they tell and what becomes of the pool of connections. *)
(* A batch that was prepared holds a connection of the pool until it is sent;   *)
(* one that is abandoned keeps it while the process lives.                      *)
EXTENDS Integers

CONSTANTS
  MaxOpenConns,  \* connections of the pool
  MaxOutages     \* bound: calls of the database that fail while a process lives

PoolAssumption == MaxOpenConns \in Nat \ {0} /\ MaxOutages \in Nat

VARIABLES
  kept,    \* connections that abandoned batches keep
  outages  \* calls of the database that failed

poolVars == <<kept, outages>>

NewClickHouseClient == kept = 0 /\ outages = 0

\* The end of the process closes every connection.
Close == kept' = 0 /\ outages' = 0

-----------------------------------------------------------------------------

\* A call takes a connection, and waits for one in vain if all are kept.
PrepareBatch == kept < MaxOpenConns

\* It fails with the database, with a dry pool, or with its context.
Refused(ctxDone) ==
  \/ outages < MaxOutages /\ outages' = outages + 1 /\ UNCHANGED kept
  \/ (~PrepareBatch \/ ctxDone) /\ UNCHANGED poolVars

\* It is dropped without Send or Abort.
Abandon == kept' = kept + 1 /\ UNCHANGED outages

\* The generated types lack the methods the assertions ask for: GetKind and
\* GetStatus return types of their own, as do GetBody and GetAttributes.
AppendSpanToBatch == FALSE
AppendLogToBatch  == FALSE

\* The events with a payload, of which each has a span or a log record, cannot
\* be appended; events without one are passed over, and a batch of these alone
\* is reported as a success.
InsertTraceProtobufBatch(payloads, ctxDone, ok) ==
  \/ ok = (payloads = {} \/ AppendSpanToBatch) /\ PrepareBatch /\ Abandon
  \/ ~ok /\ Refused(ctxDone)

InsertLogProtobufBatch(payloads, ctxDone, ok) ==
  \/ ok = (payloads = {} \/ AppendLogToBatch) /\ PrepareBatch /\ Abandon
  \/ ~ok /\ Refused(ctxDone)

\* Metrics are counted and not stored; one without a payload is an error.
InsertMetricProtobuf(payload) == payload
InsertMetricProtobufBatch(events, payloads, ok) ==
  /\ ok = \A e \in events : InsertMetricProtobuf(e \in payloads)
  /\ UNCHANGED poolVars

-----------------------------------------------------------------------------
(* Single events.                                                          *)

\* Mutated form: as InsertMetric and InsertLog.
InsertTrace_Parses(ctxDone, ok, stored) == ~ok /\ ~stored /\ UNCHANGED poolVars

\* The serialised event is stored, even one without a payload.  An insert that
\* fails after its batch was sent may have stored it.
InsertTrace(ctxDone, ok, stored) ==
  \/ ok /\ stored /\ ~ctxDone /\ PrepareBatch /\ UNCHANGED poolVars
  \/ ~ok /\ (stored => PrepareBatch) /\ Refused(ctxDone)

\* They want a json.RawMessage and are given []byte.
parseMetricsData == FALSE
parseLogsData    == FALSE

InsertMetric(ok, stored) == ok = parseMetricsData /\ stored = ok /\ UNCHANGED poolVars
InsertLog(ok, stored)    == ok = parseLogsData /\ stored = ok /\ UNCHANGED poolVars

-----------------------------------------------------------------------------

\* The pool is never overdrawn.
PoolTypeOK == kept \in 0 .. MaxOpenConns /\ outages \in 0 .. MaxOutages
=============================================================================
