--------------------------- MODULE DeadLetterQueue ---------------------------
(***************************************************************************)
(* The dead letter queue, internal/resilience/dead_letter_queue.go: an SQS *)
(* queue, a bounded local buffer for the times SQS fails, and calls of     *)
(* ProcessRetries that drain both while failed events keep arriving.       *)
(*                                                                         *)
(* SQS delivers at least once and in any order.  A received message stays  *)
(* in the queue until it is deleted, and may be received again meanwhile   *)
(* (its visibility timeout has passed), so a set of messages also stands   *)
(* for several copies of one: a delete that leaves a copy behind is one    *)
(* that failed.                                                            *)
(***************************************************************************)
EXTENDS Integers, FiniteSets, Sequences

CONSTANTS
  Events,           \* failed events handed to SendToDLQ, each once
  Decodable,        \* those json.Unmarshal can rebuild from a message
  Callers,          \* goroutines that run ProcessRetries
  localBufferSize,  \* DLQConfig.LocalBufferSize
  maxRetries        \* DLQConfig.MaxRetries

ASSUME QueueAssumption ==
  /\ Decodable \subseteq Events
  /\ IsFiniteSet(Callers)
  /\ localBufferSize \in Nat \ {0}
  /\ maxRetries \in Nat \ {0}

VARIABLES
  local,      \* dlq.localBuffer
  sqs,        \* messages in the queue
  pc,         \* where each caller stands in ProcessRetries
  batch,      \* eventsToProcess of a caller
  received,   \* result.Messages of a caller, those still to be handled
  handled,    \* the message a caller has handled and not deleted yet, if any
  cancelled,  \* the callers' context is done
  accepted,   \* history: events SendToDLQ has returned for
  processed,  \* history: events the processor succeeded on
  attempts,   \* history: failed attempts at an event, up to maxRetries + 1
  lost        \* history: how a copy of an event was let go

vars == <<local, sqs, pc, batch, received, handled, cancelled, accepted, processed,
          attempts, lost>>

callVars    == <<pc, batch, received, handled>>
historyVars == <<processed, attempts, lost>>

Message == [event : Events, retries : 0 .. maxRetries]

Reasons == {"evicted", "cancelled", "local retry failed", "undecodable",
            "exhausted", "requeue failed"}

PCs == {"idle", "local", "sqs", "messages"}

Init ==
  /\ local = <<>>
  /\ sqs = {}
  /\ pc = [p \in Callers |-> "idle"]
  /\ batch = [p \in Callers |-> <<>>]
  /\ received = [p \in Callers |-> {}]
  /\ handled = [p \in Callers |-> {}]
  /\ cancelled = FALSE
  /\ accepted = {}
  /\ processed = {}
  /\ attempts = [e \in Events |-> 0]
  /\ lost = [e \in Events |-> {}]

Elements(q) == {q[i] : i \in 1 .. Len(q)}

Lose(es, reason) == [e \in Events |-> IF e \in es THEN lost[e] \cup {reason} ELSE lost[e]]

-----------------------------------------------------------------------------
(* SendToDLQ.                                                              *)

\* A full buffer loses its oldest event.
addToLocalBuffer(e) ==
  IF Len(local) >= localBufferSize
  THEN local' = Append(Tail(local), e) /\ lost' = Lose({Head(local)}, "evicted")
  ELSE local' = Append(local, e) /\ UNCHANGED lost

\* To SQS, or to the local buffer if the send reports an error: the message
\* may have reached the queue all the same.
SendToDLQ(e) ==
  LET message == [event |-> e, retries |-> 0] IN
  /\ e \notin accepted
  /\ accepted' = accepted \cup {e}
  /\ \/ sqs' = sqs \cup {message} /\ UNCHANGED <<local, lost>>
     \/ sqs' \in {sqs, sqs \cup {message}} /\ addToLocalBuffer(e)
  /\ UNCHANGED <<callVars, cancelled, processed, attempts>>

-----------------------------------------------------------------------------
(* ProcessRetries: processLocalBuffer, then processSQSMessages.            *)

Fail(e) == attempts' = [attempts EXCEPT ![e] = IF @ > maxRetries THEN @ ELSE @ + 1]

ProcessRetries(p) ==
  /\ pc[p] = "idle"
  /\ pc' = [pc EXCEPT ![p] = "local"]
  /\ batch' = [batch EXCEPT ![p] = local]
  /\ local' = <<>>
  /\ UNCHANGED <<sqs, received, handled, cancelled, accepted, historyVars>>

\* A failed retry of a local event is logged; nothing keeps the event.
RetryLocal(p) ==
  LET e == Head(batch[p]) IN
  /\ pc[p] = "local" /\ batch[p] # <<>>
  /\ ~cancelled
  /\ batch' = [batch EXCEPT ![p] = Tail(@)]
  /\ \/ processed' = processed \cup {e} /\ UNCHANGED <<attempts, lost>>
     \/ Fail(e) /\ lost' = Lose({e}, "local retry failed") /\ UNCHANGED processed
  /\ UNCHANGED <<local, sqs, pc, received, handled, cancelled, accepted>>

\* The context is done: this event goes back, past the limit if need be, and
\* those after it are let go.
PutBack(p) ==
  /\ pc[p] = "local" /\ batch[p] # <<>>
  /\ cancelled
  /\ local' = Append(local, Head(batch[p]))
  /\ lost' = Lose(Elements(Tail(batch[p])), "cancelled")
  /\ batch' = [batch EXCEPT ![p] = <<>>]
  /\ pc' = [pc EXCEPT ![p] = "sqs"]
  /\ UNCHANGED <<sqs, received, handled, cancelled, accepted, processed, attempts>>

LocalDone(p) ==
  /\ pc[p] = "local" /\ batch[p] = <<>>
  /\ pc' = [pc EXCEPT ![p] = "sqs"]
  /\ UNCHANGED <<local, sqs, batch, received, handled, cancelled, accepted, historyVars>>

\* The only way out of processSQSMessages.
ReturnCancelled(p) ==
  /\ pc[p] = "sqs"
  /\ cancelled
  /\ pc' = [pc EXCEPT ![p] = "idle"]
  /\ UNCHANGED <<local, sqs, batch, received, handled, cancelled, accepted, historyVars>>

\* An error or an empty answer leaves everything as it is.
ReceiveMessage(p) ==
  /\ pc[p] = "sqs"
  /\ ~cancelled
  /\ \E messages \in SUBSET sqs \ {{}} : received' = [received EXCEPT ![p] = messages]
  /\ pc' = [pc EXCEPT ![p] = "messages"]
  /\ UNCHANGED <<local, sqs, batch, handled, cancelled, accepted, historyVars>>

Requeued(m) == [m EXCEPT !.retries = @ + 1]

\* sendToSQS of a message that is tried again: it is queued, or the send
\* reports an error, as it must once the context is done; an error does not
\* tell whether the message was queued.
Requeue(m) ==
  \/ ~cancelled /\ sqs' = sqs \cup {Requeued(m)} /\ UNCHANGED lost
  \/ ~cancelled /\ sqs' = sqs \cup {Requeued(m)} /\ lost' = Lose({m.event}, "requeue failed")
  \/ sqs' = sqs /\ lost' = Lose({m.event}, "requeue failed")

\* Mutated form: no limit on the retries.
RetryFailed_Unbounded(m) == Fail(m.event) /\ Requeue(m)

\* Mutated form: gives up one attempt early.
RetryFailed_GivesUpEarly(m) ==
  /\ Fail(m.event)
  /\ IF m.retries + 1 < maxRetries THEN Requeue(m)
     ELSE lost' = Lose({m.event}, "exhausted") /\ UNCHANGED sqs

\* Mutated form: never sends the event back.
RetryFailed_NoRequeue(m) ==
  /\ Fail(m.event)
  /\ IF m.retries < maxRetries THEN UNCHANGED <<sqs, lost>>
     ELSE lost' = Lose({m.event}, "exhausted") /\ UNCHANGED sqs

RetryFailed(m) ==
  /\ Fail(m.event)
  /\ IF m.retries < maxRetries THEN Requeue(m)
     ELSE lost' = Lose({m.event}, "exhausted") /\ UNCHANGED sqs

\* Up to the delete: the message does not decode, or its event is retried with
\* success, or without.
ProcessMessage(p) ==
  /\ pc[p] = "messages" /\ handled[p] = {}
  /\ \E m \in received[p] :
       /\ handled' = [handled EXCEPT ![p] = {m}]
       /\ received' = [received EXCEPT ![p] = @ \ {m}]
       /\ \/ /\ m.event \notin Decodable
             /\ lost' = Lose({m.event}, "undecodable")
             /\ UNCHANGED <<sqs, processed, attempts>>
          \/ /\ m.event \in Decodable
             /\ processed' = processed \cup {m.event}
             /\ UNCHANGED <<sqs, attempts, lost>>
          \/ /\ m.event \in Decodable
             /\ RetryFailed(m)
             /\ UNCHANGED processed
  /\ UNCHANGED <<local, pc, batch, cancelled, accepted>>

\* Every branch of processMessage ends here; an error of SQS is only logged.
deleteMessage(p) ==
  /\ handled[p] # {}
  /\ \/ ~cancelled /\ sqs' = sqs \ handled[p]
     \/ UNCHANGED sqs
  /\ handled' = [handled EXCEPT ![p] = {}]
  /\ UNCHANGED <<local, pc, batch, received, cancelled, accepted, historyVars>>

MessagesDone(p) ==
  /\ pc[p] = "messages" /\ received[p] = {} /\ handled[p] = {}
  /\ pc' = [pc EXCEPT ![p] = "sqs"]
  /\ UNCHANGED <<local, sqs, batch, received, handled, cancelled, accepted, historyVars>>

\* The context of the calls is done; it stays done.
Cancel ==
  /\ ~cancelled
  /\ cancelled' = TRUE
  /\ UNCHANGED <<local, sqs, callVars, accepted, historyVars>>

-----------------------------------------------------------------------------
Call(p) ==
  \/ ProcessRetries(p) \/ RetryLocal(p) \/ PutBack(p) \/ LocalDone(p)
  \/ ReceiveMessage(p) \/ ProcessMessage(p) \/ deleteMessage(p) \/ MessagesDone(p)
  \/ ReturnCancelled(p)

Next ==
  \/ \E e \in Events : SendToDLQ(e)
  \/ \E p \in Callers : Call(p)
  \/ Cancel

Spec == Init /\ [][Next]_vars

-----------------------------------------------------------------------------
(* Properties.                                                             *)

\* The queue's fields, the state of each call and the histories have their types; no
\* message carries more than maxRetries.
TypeOK ==
  /\ local \in Seq(Events)
  /\ sqs \subseteq Message
  /\ pc \in [Callers -> PCs]
  /\ batch \in [Callers -> Seq(Events)]
  /\ received \in [Callers -> SUBSET Message]
  /\ handled \in [Callers -> SUBSET Message]
  /\ cancelled \in BOOLEAN
  /\ accepted \subseteq Events /\ processed \subseteq Events
  /\ attempts \in [Events -> 0 .. maxRetries + 1]
  /\ lost \in [Events -> SUBSET Reasons]

\* What the dead letter queue still has of its events: in memory, or in SQS.
Held ==
  Elements(local) \cup (UNION {Elements(batch[p]) : p \in Callers})
    \cup {m.event : m \in sqs}

\* An event that SendToDLQ accepted is still held or has been processed, or
\* one of the six ways in which this code lets an event go has happened to it.
\* Interleaved calls, redeliveries and failed deletes add no seventh.
Custody ==
  \A e \in accepted : e \in Held \cup processed \/ lost[e] # {}

\* The local buffer outgrows its limit by at most one event per caller:
\* putting an event back checks no limit, but each call empties the buffer
\* before it can put one back.
LocalBounded == Len(local) <= localBufferSize + Cardinality(Callers)

\* An event is given up as exhausted only after maxRetries + 1 failed attempts,
\* however often SQS delivers its messages.
ExhaustedAfterRetries ==
  \A e \in Events : "exhausted" \in lost[e] => attempts[e] = maxRetries + 1

\* docs/RESILIENCE_ARCHITECTURE.md:150: "Failed Event -> DLQ -> Exponential
\* Backoff -> Retry Processing -> Success OR Max Retries Exceeded": an event
\* leaves SQS only once it was processed or its retries are used up.
RetriedBeforeLeaving ==
  [][\A m \in sqs :
       m.event \notin {n.event : n \in sqs'} =>
         m.event \in processed' \/ attempts'[m.event] = maxRetries + 1]_vars
=============================================================================
