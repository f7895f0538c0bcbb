----------------------------- MODULE DeliveryProofs -----------------------------
(***************************************************************************)
(* Proofs about the dead letter queue, for any events, any callers, any    *)
(* sizes and whichever messages decode, and about the parts of Delivery    *)
(* together.                                                               *)
(***************************************************************************)
EXTENDS Delivery, PipelineProofs

\* What became of an event that needs no keeping.
Settled(e) == e \in processed \/ lost[e] # {}

\* A message about to be deleted is alone in its caller's hands, and its event
\* is settled or was queued again with more retries: so of the copies that
\* several callers delete, one with the most retries stays.
HandledInv ==
  \A p \in Callers : \A m \in handled[p] :
    /\ handled[p] = {m}
    /\ \/ Settled(m.event)
       \/ \E n \in sqs : n.event = m.event /\ n.retries > m.retries

\* No message, in the queue or received, counts more retries than its event
\* had failed attempts.
RetriesInv ==
  /\ \A m \in sqs : m.retries <= attempts[m.event]
  /\ \A p \in Callers : \A m \in received[p] : m.retries <= attempts[m.event]

\* Only a call that drains the local buffer has a batch.
LocalBatchInv == \A p \in Callers : pc[p] # "local" => batch[p] = <<>>

\* The inductive invariant.
IInv == TypeOK /\ LocalBatchInv /\ Custody /\ HandledInv /\ RetriesInv /\ ExhaustedAfterRetries

-----------------------------------------------------------------------------
(* The elements of a sequence.                                             *)

\* Appending adds one.
LEMMA AppendElements ==
  ASSUME NEW q \in Seq(Events), NEW e \in Events
  PROVE  Elements(Append(q, e)) = Elements(q) \cup {e}
<1>1. Len(Append(q, e)) = Len(q) + 1 /\ Append(q, e)[Len(q) + 1] = e
  OBVIOUS
<1>2. \A i \in 1 .. Len(q) : Append(q, e)[i] = q[i]
  OBVIOUS
<1>3. 1 .. Len(q) + 1 = (1 .. Len(q)) \cup {Len(q) + 1}
  OBVIOUS
<1> QED
  BY <1>1, <1>2, <1>3 DEF Elements

\* The head and the elements of the tail are all there are.
LEMMA TailElements ==
  ASSUME NEW q \in Seq(Events), q # <<>>
  PROVE  /\ Head(q) \in Events /\ Tail(q) \in Seq(Events)
         /\ Elements(q) = Elements(Tail(q)) \cup {Head(q)}
<1>1. Len(q) \in Nat /\ Len(q) > 0 /\ Head(q) = q[1] /\ q[1] \in Events
  OBVIOUS
<1>2. Tail(q) \in Seq(Events) /\ Len(Tail(q)) = Len(q) - 1
  OBVIOUS
<1>3. \A i \in 1 .. Len(q) - 1 : Tail(q)[i] = q[i + 1]
  OBVIOUS
<1>4. \A i \in 1 .. Len(q) : i = 1 \/ (i - 1 \in 1 .. Len(q) - 1 /\ q[i] = Tail(q)[i - 1])
  BY <1>1, <1>3
<1>5. \A i \in 1 .. Len(q) - 1 : i + 1 \in 1 .. Len(q)
  BY <1>1
<1>6. Elements(q) \subseteq Elements(Tail(q)) \cup {Head(q)}
  BY <1>1, <1>2, <1>4 DEF Elements
<1>7. Elements(Tail(q)) \cup {Head(q)} \subseteq Elements(q)
  BY <1>1, <1>2, <1>3, <1>5 DEF Elements
<1> QED
  BY <1>1, <1>2, <1>6, <1>7

\* An empty sequence has none.
LEMMA NoElements == Elements(<<>>) = {}
  BY DEF Elements

-----------------------------------------------------------------------------
(* Parts of several actions.                                               *)

\* Losing events for a reason keeps what was lost before, and settles them.
LEMMA Losing ==
  ASSUME TypeOK, NEW es, NEW reason \in Reasons
  PROVE  /\ Lose(es, reason) \in [Events -> SUBSET Reasons]
         /\ \A e \in Events : lost[e] \subseteq Lose(es, reason)[e]
         /\ \A e \in Events : e \in es => Lose(es, reason)[e] # {}
         /\ \A e \in Events : reason # "exhausted" =>
              ("exhausted" \in Lose(es, reason)[e] <=> "exhausted" \in lost[e])
         /\ \A e \in Events : e \notin es => Lose(es, reason)[e] = lost[e]
  BY DEF TypeOK, Lose

\* Losing one event settles it.
LEMMA LosingOne ==
  ASSUME TypeOK, NEW e \in Events, NEW reason \in Reasons, lost' = Lose({e}, reason)
  PROVE  /\ lost' \in [Events -> SUBSET Reasons]
         /\ lost'[e] # {}
         /\ \A f \in Events : lost[f] \subseteq lost'[f]
         /\ \A f \in Events : f # e => lost'[f] = lost[f]
         /\ \A f \in Events : reason # "exhausted" =>
              ("exhausted" \in lost'[f] <=> "exhausted" \in lost[f])
<1> DEFINE es == {e}
<1>1. e \in es /\ \A f \in Events : f # e => f \notin es
  OBVIOUS
<1>2. lost' = Lose(es, reason)
  OBVIOUS
<1> HIDE DEF es
<1> QED BY <1>1, <1>2, Losing

\* A failed attempt is counted, up to one past the limit.
LEMMA Failing ==
  ASSUME TypeOK, NEW e \in Events, Fail(e)
  PROVE  /\ attempts' \in [Events -> 0 .. maxRetries + 1]
         /\ \A f \in Events : attempts[f] <= attempts'[f]
         /\ attempts'[e] = attempts[e] + 1 \/ attempts'[e] = maxRetries + 1
  BY QueueAssumption DEF TypeOK, Fail
-----------------------------------------------------------------------------
(* Type correctness.                                                       *)

\* Sending an event keeps the types, whichever way it goes.
LEMMA SendType ==
  ASSUME TypeOK, NEW e \in Events, SendToDLQ(e)
  PROVE  TypeOK'
<1> DEFINE message == [event |-> e, retries |-> 0]
<1>1. message \in Message
  BY QueueAssumption DEF Message
<1>2. accepted' = accepted \cup {e} /\ UNCHANGED <<callVars, cancelled, processed, attempts>>
  BY DEF SendToDLQ
<1>3. CASE sqs' = sqs \cup {message} /\ UNCHANGED <<local, lost>>
  BY <1>1, <1>2, <1>3 DEF TypeOK, callVars
<1>4. CASE sqs' \in {sqs, sqs \cup {message}} /\ addToLocalBuffer(e)
  <2>1. local' \in Seq(Events) /\ lost' \in [Events -> SUBSET Reasons]
    <3>1. CASE Len(local) >= localBufferSize
      <4>1. local # <<>> /\ local \in Seq(Events)
        BY <3>1, QueueAssumption DEF TypeOK
      <4>2. Tail(local) \in Seq(Events)
        BY <4>1, TailElements
      <4>3. local' = Append(Tail(local), e) /\ lost' = Lose({Head(local)}, "evicted")
        BY <1>4, <3>1 DEF addToLocalBuffer
      <4>4. "evicted" \in Reasons
        BY DEF Reasons
      <4> QED BY <4>2, <4>3, <4>4, Losing
    <3>2. CASE ~(Len(local) >= localBufferSize)
      <4>1. local' = Append(local, e) /\ lost' = lost
        BY <1>4, <3>2 DEF addToLocalBuffer
      <4> QED BY <4>1 DEF TypeOK
    <3> QED BY <3>1, <3>2
  <2>2. sqs' \subseteq Message
    BY <1>1, <1>4 DEF TypeOK
  <2> QED BY <1>2, <2>1, <2>2 DEF TypeOK, callVars
<1> QED BY <1>3, <1>4 DEF SendToDLQ

\* Handling a failed retry: what it does to the message's event, to the queue
\* and to the histories.
LEMMA RetryFailing ==
  ASSUME TypeOK, NEW m \in Message, RetryFailed(m)
  PROVE  /\ attempts' \in [Events -> 0 .. maxRetries + 1]
         /\ lost' \in [Events -> SUBSET Reasons]
         /\ sqs' \subseteq Message
         /\ sqs \subseteq sqs'
         /\ \A n \in sqs' : n \in sqs \/ (n.event = m.event /\ n.retries = m.retries + 1)
         /\ \A e \in Events : attempts[e] <= attempts'[e]
         /\ attempts'[m.event] = attempts[m.event] + 1 \/ attempts'[m.event] = maxRetries + 1
         /\ \A e \in Events : lost[e] \subseteq lost'[e]
         /\ \A e \in Events :
              "exhausted" \in lost'[e] =>
                "exhausted" \in lost[e] \/ (e = m.event /\ m.retries = maxRetries)
         /\ \/ lost'[m.event] # {}
            \/ \E n \in sqs' : n.event = m.event /\ n.retries > m.retries
<1>1. m.event \in Events /\ m.retries \in 0 .. maxRetries /\ maxRetries \in Nat
  BY QueueAssumption DEF Message
<1>2. Fail(m.event)
  BY DEF RetryFailed
<1>3. /\ attempts' \in [Events -> 0 .. maxRetries + 1]
      /\ \A e \in Events : attempts[e] <= attempts'[e]
      /\ attempts'[m.event] = attempts[m.event] + 1 \/ attempts'[m.event] = maxRetries + 1
  BY <1>1, <1>2, Failing
<1>4. "requeue failed" \in Reasons /\ "exhausted" \in Reasons
  BY DEF Reasons
<1>5. CASE m.retries < maxRetries
  <2> DEFINE again == Requeued(m)
  <2>1. again \in Message /\ again.event = m.event /\ again.retries = m.retries + 1
    BY <1>1, <1>5 DEF Requeued, Message
  <2>2. Requeue(m)
    BY <1>5 DEF RetryFailed
  <2> HIDE DEF again
  <2>3. CASE sqs' = sqs \cup {again} /\ UNCHANGED lost
    BY <1>1, <1>3, <2>1, <2>3 DEF TypeOK
  <2>4. CASE sqs' \in {sqs, sqs \cup {again}} /\ lost' = Lose({m.event}, "requeue failed")
    <3>1. /\ lost' \in [Events -> SUBSET Reasons]
          /\ \A e \in Events : lost[e] \subseteq lost'[e]
          /\ \A e \in Events : "exhausted" \in lost'[e] => "exhausted" \in lost[e]
          /\ lost'[m.event] # {}
      BY <1>1, <1>4, <2>4, LosingOne
    <3>2. /\ sqs' \subseteq Message /\ sqs \subseteq sqs'
          /\ \A n \in sqs' : n \in sqs \/ (n.event = m.event /\ n.retries = m.retries + 1)
      BY <2>1, <2>4 DEF TypeOK
    <3> QED BY <1>3, <3>1, <3>2
  <2> QED BY <2>2, <2>3, <2>4 DEF Requeue, again
<1>6. CASE ~(m.retries < maxRetries)
  <2>1. lost' = Lose({m.event}, "exhausted") /\ sqs' = sqs
    BY <1>6 DEF RetryFailed
  <2>2. m.retries = maxRetries
    BY <1>1, <1>6
  <2>3. /\ lost' \in [Events -> SUBSET Reasons]
        /\ \A e \in Events : lost[e] \subseteq lost'[e]
        /\ \A e \in Events : e # m.event => lost'[e] = lost[e]
        /\ lost'[m.event] # {}
    BY <1>1, <1>4, <2>1, LosingOne
  <2>4. \A e \in Events :
          "exhausted" \in lost'[e] => "exhausted" \in lost[e] \/ (e = m.event /\ m.retries = maxRetries)
    BY <2>2, <2>3
  <2>5. /\ sqs' \subseteq Message /\ sqs \subseteq sqs'
        /\ \A n \in sqs' : n \in sqs
    BY <2>1 DEF TypeOK
  <2> QED BY <1>3, <2>3, <2>4, <2>5
<1> QED BY <1>5, <1>6

\* One message is handled: whichever of the three branches it takes, it does to
\* the rest what a failed retry may do, or less.
LEMMA Handling ==
  ASSUME TypeOK, RetriesInv, NEW p \in Callers, ProcessMessage(p)
  PROVE  \E m \in received[p] :
           /\ m \in Message
           /\ handled' = [handled EXCEPT ![p] = {m}]
           /\ received' = [received EXCEPT ![p] = @ \ {m}]
           /\ processed \subseteq processed' /\ processed' \subseteq Events
           /\ attempts' \in [Events -> 0 .. maxRetries + 1]
           /\ lost' \in [Events -> SUBSET Reasons]
           /\ sqs' \subseteq Message /\ sqs \subseteq sqs'
           /\ \A n \in sqs' : n \in sqs \/ (n.event = m.event /\ n.retries <= attempts'[m.event])
           /\ \A e \in Events : attempts[e] <= attempts'[e]
           /\ \A e \in Events : lost[e] \subseteq lost'[e]
           /\ \A e \in Events :
                "exhausted" \in lost'[e] => "exhausted" \in lost[e] \/ attempts'[e] = maxRetries + 1
           /\ \/ Settled(m.event)'
              \/ \E n \in sqs' : n.event = m.event /\ n.retries > m.retries
<1>1. PICK m \in received[p] :
        /\ handled' = [handled EXCEPT ![p] = {m}]
        /\ received' = [received EXCEPT ![p] = @ \ {m}]
        /\ \/ /\ m.event \notin Decodable
              /\ lost' = Lose({m.event}, "undecodable")
              /\ UNCHANGED <<sqs, processed, attempts>>
           \/ /\ m.event \in Decodable
              /\ processed' = processed \cup {m.event}
              /\ UNCHANGED <<sqs, attempts, lost>>
           \/ /\ m.event \in Decodable
              /\ RetryFailed(m)
              /\ UNCHANGED processed
  BY DEF ProcessMessage
<1>2. m \in Message
  BY DEF TypeOK
<1>3. m.event \in Events /\ m.retries \in 0 .. maxRetries /\ m.retries <= attempts[m.event]
  BY <1>2 DEF Message, RetriesInv
<1>4. CASE m.event \notin Decodable /\ lost' = Lose({m.event}, "undecodable")
           /\ UNCHANGED <<sqs, processed, attempts>>
  <2>1. "undecodable" \in Reasons
    BY DEF Reasons
  <2>2. /\ lost' \in [Events -> SUBSET Reasons]
        /\ \A e \in Events : lost[e] \subseteq lost'[e]
        /\ \A e \in Events : "exhausted" \in lost'[e] => "exhausted" \in lost[e]
        /\ lost'[m.event] # {}
    BY <1>3, <1>4, <2>1, LosingOne
  <2>3. /\ processed \subseteq processed' /\ processed' \subseteq Events
        /\ attempts' \in [Events -> 0 .. maxRetries + 1]
        /\ sqs' \subseteq Message /\ sqs' = sqs
        /\ \A e \in Events : attempts[e] <= attempts'[e]
    BY <1>4, QueueAssumption DEF TypeOK
  <2> QED BY <1>1, <1>2, <2>2, <2>3 DEF Settled
<1>5. CASE processed' = processed \cup {m.event} /\ UNCHANGED <<sqs, attempts, lost>>
  <2>1. \A e \in Events : attempts[e] <= attempts'[e]
    BY <1>5, QueueAssumption DEF TypeOK
  <2> QED BY <1>1, <1>2, <1>3, <1>5, <2>1 DEF Settled, TypeOK
<1>6. CASE RetryFailed(m) /\ UNCHANGED processed
  <2>1. attempts'[m.event] \in 0 .. maxRetries + 1 /\ attempts[m.event] \in 0 .. maxRetries + 1
    BY <1>2, <1>3, <1>6, RetryFailing DEF TypeOK
  <2>2. attempts'[m.event] = attempts[m.event] + 1 \/ attempts'[m.event] = maxRetries + 1
    BY <1>2, <1>6, RetryFailing
  <2>3. m.retries + 1 <= attempts'[m.event]
    BY <1>3, <2>1, <2>2, QueueAssumption
  <2>4. m.retries = maxRetries => attempts'[m.event] = maxRetries + 1
    BY <2>1, <2>3, QueueAssumption
  <2>5. \A n \in sqs' : n \in sqs \/ (n.event = m.event /\ n.retries <= attempts'[m.event])
    BY <1>2, <1>6, <2>3, RetryFailing
  <2>6. \A e \in Events :
          "exhausted" \in lost'[e] => "exhausted" \in lost[e] \/ attempts'[e] = maxRetries + 1
    BY <1>2, <1>6, <2>4, RetryFailing
  <2>7. \/ Settled(m.event)'
        \/ \E n \in sqs' : n.event = m.event /\ n.retries > m.retries
    BY <1>2, <1>6, RetryFailing DEF Settled
  <2>8. /\ attempts' \in [Events -> 0 .. maxRetries + 1]
        /\ lost' \in [Events -> SUBSET Reasons]
        /\ sqs' \subseteq Message /\ sqs \subseteq sqs'
        /\ \A e \in Events : attempts[e] <= attempts'[e]
        /\ \A e \in Events : lost[e] \subseteq lost'[e]
    BY <1>2, <1>6, RetryFailing
  <2>9. processed \subseteq processed' /\ processed' \subseteq Events
    BY <1>6 DEF TypeOK
  <2> QED BY <1>1, <1>2, <2>5, <2>6, <2>7, <2>8, <2>9
<1> QED BY <1>1, <1>4, <1>5, <1>6

-----------------------------------------------------------------------------
(* What the invariant needs of a step.                                     *)

\* Membership in Held, now and after a step, part by part.
LEMMA HeldParts ==
  /\ \A e : e \in Held <=>
       \/ e \in Elements(local)
       \/ \E p \in Callers : e \in Elements(batch[p])
       \/ \E m \in sqs : m.event = e
  /\ \A e : e \in Held' <=>
       \/ e \in Elements(local')
       \/ \E p \in Callers : e \in Elements(batch'[p])
       \/ \E m \in sqs' : m.event = e
<1> DEFINE InBatches(b) == UNION {Elements(b[p]) : p \in Callers}
           Queued(s) == {m.event : m \in s}
<1>1. \A b, e : e \in InBatches(b) <=> \E p \in Callers : e \in Elements(b[p])
  <2> TAKE b, e
  <2> DEFINE E(p) == Elements(b[p])
  <2>1. \A p \in Callers : E(p) \in {E(q) : q \in Callers}
    OBVIOUS
  <2> QED BY <2>1, Zenon
<1>2. \A s, e : e \in Queued(s) <=> \E m \in s : m.event = e
  OBVIOUS
<1>3. Held = Elements(local) \cup InBatches(batch) \cup Queued(sqs)
  BY DEF Held
<1>4. Held' = Elements(local') \cup InBatches(batch') \cup Queued(sqs')
  BY DEF Held, Elements
<1> HIDE DEF InBatches, Queued
<1> QED BY <1>1, <1>2, <1>3, <1>4

\* A step that deletes nothing, handles no message and adds none with retries
\* cannot disturb what is known about messages, as long as the histories grow.
LEMMA Bystander ==
  ASSUME IInv, TypeOK',
         sqs \subseteq sqs', \A n \in sqs' : n \in sqs \/ n.retries = 0,
         handled' = handled,
         \A p \in Callers : received'[p] \subseteq received[p] \cup sqs,
         \A e \in Events : attempts[e] <= attempts'[e],
         \A e \in Events : Settled(e) => Settled(e)',
         \A e \in Events : "exhausted" \in lost'[e] => "exhausted" \in lost[e]
  PROVE  HandledInv' /\ RetriesInv' /\ ExhaustedAfterRetries'
<1>1. /\ \A m \in sqs' : m.event \in Events /\ m.retries \in Nat
      /\ \A p \in Callers : \A m \in received'[p] : m.event \in Events /\ m.retries \in Nat
      /\ \A p \in Callers : \A m \in handled[p] : m.event \in Events /\ m.retries \in Nat
  BY QueueAssumption DEF IInv, TypeOK, Message
<1>2. \A e \in Events : attempts[e] \in Nat /\ attempts'[e] \in 0 .. maxRetries + 1
                        /\ attempts[e] \in 0 .. maxRetries + 1
  BY QueueAssumption DEF IInv, TypeOK
<1>3. HandledInv'
  BY <1>1 DEF IInv, HandledInv
<1>4. \A m \in sqs' : m.retries <= attempts'[m.event]
  BY <1>1, <1>2, QueueAssumption DEF IInv, RetriesInv
<1>5. \A p \in Callers : \A m \in received'[p] : m.retries <= attempts'[m.event]
  BY <1>1, <1>2, QueueAssumption DEF IInv, RetriesInv
<1>6. ExhaustedAfterRetries'
  BY <1>2, QueueAssumption DEF IInv, ExhaustedAfterRetries
<1> QED BY <1>3, <1>4, <1>5, <1>6 DEF RetriesInv

\* Custody lasts when what was held, or is newly accepted, is held or settled.
LEMMA CustodyLasts ==
  ASSUME IInv, accepted' \subseteq Events,
         \A e \in Events : Settled(e) => Settled(e)',
         \A e \in Events : e \in Held \/ e \in accepted' \ accepted => e \in Held' \/ Settled(e)'
  PROVE  Custody'
BY DEF IInv, Custody, Settled

-----------------------------------------------------------------------------
(* One lemma per kind of action.                                           *)

\* SendToDLQ: what a full buffer evicts is settled by that.
LEMMA SendStep ==
  ASSUME IInv, NEW e \in Events, SendToDLQ(e)
  PROVE  IInv'
<1> DEFINE message == [event |-> e, retries |-> 0]
<1>1. TypeOK'
  BY SendType DEF IInv
<1>2. accepted' = accepted \cup {e} /\ UNCHANGED <<pc, batch, received, handled, cancelled, processed, attempts>>
  BY DEF SendToDLQ, callVars
<1>3. sqs \subseteq sqs' /\ \A n \in sqs' : n \in sqs \/ n.retries = 0
  BY DEF SendToDLQ
<1>4. /\ \A f \in Events : lost[f] \subseteq lost'[f]
      /\ \A f \in Events : "exhausted" \in lost'[f] => "exhausted" \in lost[f]
      /\ Elements(local) \subseteq Elements(local') \cup {f \in Events : lost'[f] # {}}
      /\ e \in Elements(local') \/ message \in sqs'
  <2>1. CASE sqs' = sqs \cup {message} /\ UNCHANGED <<local, lost>>
    BY <2>1, Zenon
  <2>2. CASE addToLocalBuffer(e)
    <3>1. CASE Len(local) >= localBufferSize
      <4>1. local \in Seq(Events) /\ local # <<>>
        BY <3>1, QueueAssumption DEF IInv, TypeOK
      <4>2. local' = Append(Tail(local), e) /\ lost' = Lose({Head(local)}, "evicted")
        BY <2>2, <3>1 DEF addToLocalBuffer
      <4>3. /\ Head(local) \in Events /\ Tail(local) \in Seq(Events)
            /\ Elements(local) = Elements(Tail(local)) \cup {Head(local)}
        BY <4>1, TailElements
      <4>4. Elements(local') = Elements(Tail(local)) \cup {e}
        BY <4>2, <4>3, AppendElements
      <4>5. "evicted" \in Reasons
        BY DEF Reasons
      <4>6. /\ \A f \in Events : lost[f] \subseteq lost'[f]
            /\ \A f \in Events : "exhausted" \in lost'[f] => "exhausted" \in lost[f]
            /\ lost'[Head(local)] # {}
        BY <4>2, <4>3, <4>5, LosingOne DEF IInv
      <4> QED BY <4>3, <4>4, <4>6
    <3>2. CASE ~(Len(local) >= localBufferSize)
      <4>1. local' = Append(local, e) /\ lost' = lost
        BY <2>2, <3>2 DEF addToLocalBuffer
      <4>2. Elements(local') = Elements(local) \cup {e}
        BY <4>1, AppendElements DEF IInv, TypeOK
      <4> QED BY <4>1, <4>2
    <3> QED BY <3>1, <3>2
  <2> QED BY <2>1, <2>2 DEF SendToDLQ
<1>5. \A f \in Events : Settled(f) => Settled(f)'
  BY <1>2, <1>4 DEF Settled
<1>6. \A f \in Events : f \in Held \/ f \in accepted' \ accepted => f \in Held' \/ Settled(f)'
  <2> SUFFICES ASSUME NEW f \in Events, f \in Held \/ f = e
               PROVE  f \in Held' \/ Settled(f)'
    BY <1>2
  <2>1. CASE f = e
    BY <1>4, <2>1, HeldParts
  <2>2. CASE f \in Held
    BY <1>2, <1>3, <1>4, <2>2, HeldParts DEF Settled
  <2> QED BY <2>1, <2>2
<1>7. Custody'
  BY <1>1, <1>5, <1>6, CustodyLasts DEF TypeOK
<1>8. \A f \in Events : attempts[f] <= attempts'[f]
  BY <1>2, QueueAssumption DEF IInv, TypeOK
<1>9. HandledInv' /\ RetriesInv' /\ ExhaustedAfterRetries'
  BY <1>1, <1>2, <1>3, <1>4, <1>5, <1>8, Bystander
<1>10. LocalBatchInv'
  BY <1>2 DEF IInv, LocalBatchInv
<1> QED BY <1>1, <1>7, <1>9, <1>10 DEF IInv

\* ProcessRetries: the whole local buffer becomes the caller's batch.
LEMMA TakeStep ==
  ASSUME IInv, NEW p \in Callers, ProcessRetries(p)
  PROVE  IInv'
<1>1. /\ pc' = [pc EXCEPT ![p] = "local"]
      /\ batch' = [batch EXCEPT ![p] = local] /\ local' = <<>>
      /\ UNCHANGED <<sqs, received, handled, cancelled, accepted, processed, attempts, lost>>
  BY DEF ProcessRetries, historyVars
<1>2. TypeOK'
  BY <1>1 DEF IInv, TypeOK, PCs
<1>3. batch'[p] = local /\ \A q \in Callers : q # p => batch'[q] = batch[q]
  BY <1>1 DEF IInv, TypeOK
<1>4. \A e \in Events : Settled(e) => Settled(e)'
  BY <1>1 DEF Settled
<1>5. \A e \in Events : e \in Held => e \in Held'
  <2>1. batch[p] = <<>>
    BY DEF ProcessRetries, IInv, LocalBatchInv
  <2> QED BY <1>1, <1>3, <2>1, NoElements, HeldParts
<1>6. Custody'
  BY <1>1, <1>2, <1>4, <1>5, CustodyLasts DEF TypeOK
<1>7. \A e \in Events : attempts[e] <= attempts'[e]
  BY <1>1, QueueAssumption DEF IInv, TypeOK
<1>8. HandledInv' /\ RetriesInv' /\ ExhaustedAfterRetries'
  BY <1>1, <1>2, <1>4, <1>7, Bystander
<1>9. LocalBatchInv'
  BY <1>1, <1>3 DEF IInv, LocalBatchInv, TypeOK
<1> QED BY <1>2, <1>6, <1>8, <1>9 DEF IInv

\* RetryLocal: the head of the batch is processed or let go.
LEMMA RetryLocalStep ==
  ASSUME IInv, NEW p \in Callers, RetryLocal(p)
  PROVE  IInv'
<1>1. /\ batch[p] # <<>> /\ batch[p] \in Seq(Events) /\ pc[p] = "local"
      /\ batch' = [batch EXCEPT ![p] = Tail(@)]
      /\ UNCHANGED <<local, sqs, pc, received, handled, cancelled, accepted>>
  BY DEF RetryLocal, IInv, TypeOK
<1>2. PICK e \in Events :
        /\ e = Head(batch[p]) /\ Tail(batch[p]) \in Seq(Events)
        /\ Elements(batch[p]) = Elements(Tail(batch[p])) \cup {e}
  BY <1>1, TailElements
<1>3. batch'[p] = Tail(batch[p]) /\ \A q \in Callers : q # p => batch'[q] = batch[q]
  BY <1>1 DEF IInv, TypeOK
<1>4. /\ attempts' \in [Events -> 0 .. maxRetries + 1] /\ lost' \in [Events -> SUBSET Reasons]
      /\ processed' \subseteq Events /\ processed \subseteq processed'
      /\ \A f \in Events : attempts[f] <= attempts'[f]
      /\ \A f \in Events : lost[f] \subseteq lost'[f]
      /\ \A f \in Events : "exhausted" \in lost'[f] => "exhausted" \in lost[f]
      /\ Settled(e)'
  <2>1. CASE processed' = processed \cup {e} /\ UNCHANGED <<attempts, lost>>
    BY <1>2, <2>1, QueueAssumption DEF IInv, TypeOK, Settled
  <2>2. CASE Fail(e) /\ lost' = Lose({e}, "local retry failed") /\ UNCHANGED processed
    <3>1. "local retry failed" \in Reasons /\ "local retry failed" # "exhausted"
      BY DEF Reasons
    <3>2. /\ lost' \in [Events -> SUBSET Reasons]
          /\ \A f \in Events : lost[f] \subseteq lost'[f]
          /\ \A f \in Events : "exhausted" \in lost'[f] => "exhausted" \in lost[f]
          /\ lost'[e] # {}
      BY <1>2, <2>2, <3>1, LosingOne DEF IInv
    <3>3. /\ attempts' \in [Events -> 0 .. maxRetries + 1]
          /\ \A f \in Events : attempts[f] <= attempts'[f]
      BY <1>2, <2>2, Failing DEF IInv
    <3> QED BY <2>2, <3>2, <3>3 DEF IInv, TypeOK, Settled
  <2> QED BY <1>2, <2>1, <2>2 DEF RetryLocal
<1>5. TypeOK'
  BY <1>1, <1>2, <1>4 DEF IInv, TypeOK
<1>6. \A f \in Events : Settled(f) => Settled(f)'
  BY <1>4 DEF Settled
<1>7. \A f \in Events : f \in Held => f \in Held' \/ f = e
  BY <1>1, <1>2, <1>3, HeldParts
<1>8. Custody'
  BY <1>1, <1>4, <1>5, <1>6, <1>7, CustodyLasts DEF TypeOK
<1>9. HandledInv' /\ RetriesInv' /\ ExhaustedAfterRetries'
  BY <1>1, <1>4, <1>5, <1>6, Bystander
<1>10. LocalBatchInv'
  BY <1>1, <1>3 DEF IInv, LocalBatchInv
<1> QED BY <1>5, <1>8, <1>9, <1>10 DEF IInv

\* PutBack: the head of the batch goes back to the buffer, the rest is let go.
LEMMA PutBackStep ==
  ASSUME IInv, NEW p \in Callers, PutBack(p)
  PROVE  IInv'
<1> DEFINE e == Head(batch[p])
           rest == Elements(Tail(batch[p]))
<1>1. /\ batch[p] # <<>> /\ batch[p] \in Seq(Events)
      /\ local' = Append(local, e)
      /\ lost' = Lose(rest, "cancelled")
      /\ batch' = [batch EXCEPT ![p] = <<>>]
      /\ pc' = [pc EXCEPT ![p] = "sqs"]
      /\ UNCHANGED <<sqs, received, handled, cancelled, accepted, processed, attempts>>
  BY DEF PutBack, IInv, TypeOK
<1>2. e \in Events /\ Elements(batch[p]) = rest \cup {e}
  BY <1>1, TailElements
<1>3. /\ batch'[p] = <<>> /\ \A q \in Callers : q # p => batch'[q] = batch[q]
      /\ pc'[p] = "sqs" /\ \A q \in Callers : q # p => pc'[q] = pc[q]
  BY <1>1 DEF IInv, TypeOK
<1> HIDE DEF e, rest
<1>4. local \in Seq(Events) /\ local' \in Seq(Events) /\ Elements(local') = Elements(local) \cup {e}
  BY <1>1, <1>2, AppendElements DEF IInv, TypeOK
<1>5. /\ lost' \in [Events -> SUBSET Reasons]
      /\ \A f \in Events : lost[f] \subseteq lost'[f]
      /\ \A f \in Events : "exhausted" \in lost'[f] => "exhausted" \in lost[f]
      /\ \A f \in Events : f \in rest => lost'[f] # {}
  <2>1. "cancelled" \in Reasons /\ "cancelled" # "exhausted"
    BY DEF Reasons
  <2> QED BY <1>1, <2>1, Losing DEF IInv
<1>6. TypeOK'
  BY <1>1, <1>4, <1>5 DEF IInv, TypeOK, PCs
<1>7. \A f \in Events : Settled(f) => Settled(f)'
  BY <1>1, <1>5 DEF Settled
<1>8. \A f \in Events : f \in Held => f \in Held' \/ Settled(f)'
  <2> SUFFICES ASSUME NEW f \in Events, f \in Held
               PROVE  f \in Held' \/ Settled(f)'
    OBVIOUS
  <2>1. CASE f \in rest
    BY <1>5, <2>1 DEF Settled
  <2>2. CASE f \notin rest
    BY <1>1, <1>2, <1>3, <1>4, <2>2, HeldParts
  <2> QED BY <2>1, <2>2
<1>9. Custody'
  BY <1>1, <1>6, <1>7, <1>8, CustodyLasts DEF TypeOK
<1>10. \A f \in Events : attempts[f] <= attempts'[f]
  BY <1>1, QueueAssumption DEF IInv, TypeOK
<1>11. HandledInv' /\ RetriesInv' /\ ExhaustedAfterRetries'
  BY <1>1, <1>5, <1>6, <1>7, <1>10, Bystander
<1>12. LocalBatchInv'
  BY <1>3 DEF IInv, LocalBatchInv
<1> QED BY <1>6, <1>9, <1>11, <1>12 DEF IInv

\* The steps that move no event: going on to SQS, receiving, returning, the end
\* of the context.
LEMMA QuietStep ==
  ASSUME IInv,
         Cancel \/ \E p \in Callers : \/ LocalDone(p) \/ ReturnCancelled(p)
                                      \/ ReceiveMessage(p) \/ MessagesDone(p)
  PROVE  IInv'
<1>1. UNCHANGED <<local, sqs, batch, handled, accepted, processed, attempts, lost>>
  BY DEF Cancel, LocalDone, ReturnCancelled, ReceiveMessage, MessagesDone, callVars, historyVars
<1>2. /\ pc' \in [Callers -> PCs] /\ cancelled' \in BOOLEAN
      /\ \A p \in Callers : pc'[p] # "local" => pc[p] # "local" \/ batch[p] = <<>>
  BY DEF Cancel, LocalDone, ReturnCancelled, ReceiveMessage, MessagesDone, callVars,
         IInv, TypeOK, PCs
<1>3. /\ received' \in [Callers -> SUBSET Message]
      /\ \A p \in Callers : received'[p] \subseteq received[p] \cup sqs
  <2>1. CASE received' = received
    BY <2>1 DEF IInv, TypeOK
  <2>2. CASE \E p \in Callers : ReceiveMessage(p)
    <3>1. PICK p \in Callers, messages \in SUBSET sqs : received' = [received EXCEPT ![p] = messages]
      BY <2>2 DEF ReceiveMessage
    <3> QED BY <3>1 DEF IInv, TypeOK
  <2> QED BY <2>1, <2>2 DEF Cancel, LocalDone, ReturnCancelled, MessagesDone, callVars
<1>4. TypeOK'
  BY <1>1, <1>2, <1>3 DEF IInv, TypeOK
<1>5. \A e \in Events : Settled(e) => Settled(e)'
  BY <1>1 DEF Settled
<1>6. \A e \in Events : e \in Held => e \in Held'
  BY <1>1, HeldParts
<1>7. Custody'
  BY <1>1, <1>4, <1>5, <1>6, CustodyLasts DEF TypeOK
<1>8. \A e \in Events : attempts[e] <= attempts'[e]
  BY <1>1, QueueAssumption DEF IInv, TypeOK
<1>9. HandledInv' /\ RetriesInv' /\ ExhaustedAfterRetries'
  BY <1>1, <1>3, <1>4, <1>5, <1>8, Bystander
<1>10. LocalBatchInv'
  BY <1>1, <1>2 DEF IInv, LocalBatchInv
<1> QED BY <1>4, <1>7, <1>9, <1>10 DEF IInv

\* ProcessMessage: the message is alone in the caller's hands, and if its event
\* is not settled by it then the message is queued again.
LEMMA ProcessStep ==
  ASSUME IInv, NEW p \in Callers, ProcessMessage(p)
  PROVE  IInv'
<1>1. /\ UNCHANGED <<local, pc, batch, cancelled, accepted>>
      /\ handled[p] = {}
  BY DEF ProcessMessage
<1>2. PICK m \in received[p] :
           /\ m \in Message
           /\ handled' = [handled EXCEPT ![p] = {m}]
           /\ received' = [received EXCEPT ![p] = @ \ {m}]
           /\ processed \subseteq processed' /\ processed' \subseteq Events
           /\ attempts' \in [Events -> 0 .. maxRetries + 1]
           /\ lost' \in [Events -> SUBSET Reasons]
           /\ sqs' \subseteq Message /\ sqs \subseteq sqs'
           /\ \A n \in sqs' : n \in sqs \/ (n.event = m.event /\ n.retries <= attempts'[m.event])
           /\ \A e \in Events : attempts[e] <= attempts'[e]
           /\ \A e \in Events : lost[e] \subseteq lost'[e]
           /\ \A e \in Events :
                "exhausted" \in lost'[e] => "exhausted" \in lost[e] \/ attempts'[e] = maxRetries + 1
           /\ \/ Settled(m.event)'
              \/ \E n \in sqs' : n.event = m.event /\ n.retries > m.retries
  BY Handling DEF IInv
<1>3. TypeOK'
  BY <1>1, <1>2 DEF IInv, TypeOK
<1>4. \A e \in Events : Settled(e) => Settled(e)'
  BY <1>2 DEF Settled
<1>5. \A e \in Events : e \in Held => e \in Held'
  BY <1>1, <1>2, HeldParts
<1>6. Custody'
  BY <1>1, <1>3, <1>4, <1>5, CustodyLasts DEF TypeOK
<1>7. HandledInv'
  <2> SUFFICES ASSUME NEW q \in Callers, NEW n \in handled'[q]
               PROVE  /\ handled'[q] = {n}
                      /\ \/ Settled(n.event)'
                         \/ \E k \in sqs' : k.event = n.event /\ k.retries > n.retries
    BY DEF HandledInv
  <2>1. CASE q = p
    BY <1>2, <2>1 DEF IInv, TypeOK
  <2>2. CASE q # p
    <3>1. handled'[q] = handled[q] /\ n.event \in Events
      BY <1>2, <2>2 DEF IInv, TypeOK, Message
    <3> QED BY <1>2, <1>4, <3>1 DEF IInv, HandledInv
  <2> QED BY <2>1, <2>2
<1>8. RetriesInv'
  <2>1. \A e \in Events : attempts[e] \in Nat /\ attempts'[e] \in Nat
    BY <1>2, QueueAssumption DEF IInv, TypeOK
  <2>2. \A n \in Message : n.event \in Events /\ n.retries \in Nat
    BY QueueAssumption DEF Message
  <2>3. \A n \in Message : n.retries <= attempts[n.event] => n.retries <= attempts'[n.event]
    BY <1>2, <2>1, <2>2
  <2>4. \A n \in sqs' : n.retries <= attempts'[n.event]
    BY <1>2, <2>3 DEF IInv, RetriesInv
  <2>5. \A q \in Callers : received'[q] \subseteq received[q] /\ received[q] \subseteq Message
    BY <1>2 DEF IInv, TypeOK
  <2>6. \A q \in Callers : \A n \in received'[q] : n.retries <= attempts'[n.event]
    BY <2>3, <2>5 DEF IInv, RetriesInv
  <2> QED BY <2>4, <2>6 DEF RetriesInv
<1>9. ExhaustedAfterRetries'
  <2> SUFFICES ASSUME NEW e \in Events, "exhausted" \in lost[e]
               PROVE  attempts'[e] = maxRetries + 1
    BY <1>2 DEF ExhaustedAfterRetries
  <2>1. attempts[e] = maxRetries + 1
    BY DEF IInv, ExhaustedAfterRetries
  <2> QED BY <1>2, <2>1, QueueAssumption
<1>10. LocalBatchInv'
  BY <1>1 DEF IInv, LocalBatchInv
<1> QED BY <1>3, <1>6, <1>7, <1>8, <1>9, <1>10 DEF IInv

\* deleteMessage: another caller may rely on the message that goes, but then so
\* does its own caller on one with more retries still.
LEMMA DeleteStep ==
  ASSUME IInv, NEW p \in Callers, deleteMessage(p)
  PROVE  IInv'
<1>1. /\ UNCHANGED <<local, pc, batch, received, cancelled, accepted, processed, attempts, lost>>
      /\ handled[p] # {}
      /\ handled' = [handled EXCEPT ![p] = {}]
      /\ sqs' = sqs \/ sqs' = sqs \ handled[p]
  BY DEF deleteMessage, historyVars
<1>2. PICK m \in handled[p] : handled[p] = {m}
  BY <1>1 DEF IInv, HandledInv
<1>3. /\ m \in Message /\ m.event \in Events /\ m.retries \in Nat
      /\ \A n \in sqs : n.retries \in Nat
  BY QueueAssumption DEF IInv, TypeOK, Message
<1>4. TypeOK'
  BY <1>1 DEF IInv, TypeOK
<1>5. \A e \in Events : Settled(e) <=> Settled(e)'
  BY <1>1 DEF Settled
<1>6. \/ Settled(m.event)'
      \/ \E n \in sqs' : n.event = m.event /\ n.retries > m.retries
  <2>1. CASE Settled(m.event)
    BY <1>3, <1>5, <2>1
  <2>2. CASE \E n \in sqs : n.event = m.event /\ n.retries > m.retries
    <3>1. PICK n \in sqs : n.event = m.event /\ n.retries > m.retries
      BY <2>2
    <3>2. n # m
      BY <1>3, <3>1
    <3> QED BY <1>1, <1>2, <3>1, <3>2
  <2> QED BY <2>1, <2>2 DEF IInv, HandledInv
<1>7. \A e \in Events : e \in Held => e \in Held' \/ Settled(e)'
  <2> SUFFICES ASSUME NEW e \in Events, e \in Held
               PROVE  e \in Held' \/ Settled(e)'
    OBVIOUS
  <2>1. CASE e = m.event
    BY <1>6, <2>1, HeldParts
  <2>2. CASE e # m.event
    BY <1>1, <1>2, <2>2, HeldParts
  <2> QED BY <2>1, <2>2
<1>8. Custody'
  BY <1>1, <1>4, <1>5, <1>7, CustodyLasts DEF TypeOK
<1>9. HandledInv'
  <2> SUFFICES ASSUME NEW q \in Callers, NEW n \in handled'[q]
               PROVE  /\ handled'[q] = {n}
                      /\ \/ Settled(n.event)'
                         \/ \E k \in sqs' : k.event = n.event /\ k.retries > n.retries
    BY DEF HandledInv
  <2>1. q # p /\ handled'[q] = handled[q]
    BY <1>1 DEF IInv, TypeOK
  <2>2. n.event \in Events /\ n.retries \in Nat
    BY <2>1, QueueAssumption DEF IInv, TypeOK, Message
  <2>3. CASE Settled(n.event)
    BY <1>5, <2>1, <2>2, <2>3 DEF IInv, HandledInv
  <2>4. CASE \E k \in sqs : k.event = n.event /\ k.retries > n.retries
    <3>1. PICK k \in sqs : k.event = n.event /\ k.retries > n.retries
      BY <2>4
    <3>2. CASE k = m
      <4>1. n.event = m.event /\ m.retries > n.retries
        BY <3>1, <3>2
      <4>2. CASE \E j \in sqs' : j.event = m.event /\ j.retries > m.retries
        <5>1. PICK j \in sqs' : j.event = m.event /\ j.retries > m.retries
          BY <4>2
        <5>2. j.retries \in Nat /\ j.event = n.event
          BY <1>1, <1>3, <4>1, <5>1
        <5>3. j.retries > n.retries
          BY <1>3, <2>2, <4>1, <5>1, <5>2
        <5> QED BY <2>1, <5>1, <5>2, <5>3 DEF IInv, HandledInv
      <4>3. CASE Settled(m.event)'
        BY <2>1, <4>1, <4>3 DEF IInv, HandledInv, Settled
      <4> QED BY <1>6, <4>2, <4>3
    <3>3. CASE k # m
      BY <1>1, <1>2, <2>1, <3>1, <3>3 DEF IInv, HandledInv
    <3> QED BY <3>2, <3>3
  <2> QED BY <2>1, <2>3, <2>4 DEF IInv, HandledInv
<1>10. RetriesInv' /\ ExhaustedAfterRetries'
  <2>1. sqs' \subseteq sqs
    BY <1>1
  <2> QED BY <1>1, <2>1 DEF IInv, RetriesInv, ExhaustedAfterRetries
<1>11. LocalBatchInv'
  BY <1>1 DEF IInv, LocalBatchInv
<1> QED BY <1>4, <1>8, <1>9, <1>10, <1>11 DEF IInv

-----------------------------------------------------------------------------
(* The theorems.                                                           *)

\* An empty queue satisfies the invariant.
LEMMA InitIInv == Init => IInv
<1> SUFFICES ASSUME Init PROVE IInv
  OBVIOUS
<1>1. TypeOK
  <2>1. 0 \in 0 .. maxRetries + 1 /\ <<>> \in Seq(Events)
    BY QueueAssumption
  <2> QED BY <2>1 DEF Init, TypeOK, PCs
<1> QED BY <1>1 DEF Init, IInv, LocalBatchInv, Custody, HandledInv, RetriesInv, ExhaustedAfterRetries

\* The invariant is inductive.
THEOREM Invariance == Spec => []IInv
<1>1. IInv /\ [Next]_vars => IInv'
  <2> SUFFICES ASSUME IInv, [Next]_vars PROVE IInv'
    OBVIOUS
  <2>1. CASE \E e \in Events : SendToDLQ(e)
    BY <2>1, SendStep
  <2>2. ASSUME NEW p \in Callers, Call(p) PROVE IInv'
    <3>1. CASE ProcessRetries(p)
      BY <3>1, TakeStep
    <3>2. CASE RetryLocal(p)
      BY <3>2, RetryLocalStep
    <3>3. CASE PutBack(p)
      BY <3>3, PutBackStep
    <3>4. CASE LocalDone(p) \/ ReturnCancelled(p) \/ ReceiveMessage(p) \/ MessagesDone(p)
      BY <3>4, QuietStep
    <3>5. CASE ProcessMessage(p)
      BY <3>5, ProcessStep
    <3>6. CASE deleteMessage(p)
      BY <3>6, DeleteStep
    <3> QED BY <2>2, <3>1, <3>2, <3>3, <3>4, <3>5, <3>6 DEF Call
  <2>3. CASE Cancel
    BY <2>3, QuietStep
  <2>4. CASE UNCHANGED vars
    BY <2>4, HeldParts DEF vars, IInv, TypeOK, LocalBatchInv, Custody, HandledInv, RetriesInv,
       ExhaustedAfterRetries, Settled
  <2> QED BY <2>1, <2>2, <2>3, <2>4 DEF Next
<1> QED BY <1>1, InitIInv, PTL DEF Spec

\* The queue, its callers and what is remembered of events keep their types, and
\* no message ever carries more than maxRetries retries.
THEOREM TypeCorrect == Spec => []TypeOK
<1>1. IInv => TypeOK
  BY DEF IInv
<1> QED BY <1>1, Invariance, PTL

\* Whatever SendToDLQ accepted is held, was processed, or was let go in one of
\* the six ways, for any number of callers that receive and delete copies of
\* one message.
THEOREM NothingVanishes == Spec => []Custody
<1>1. IInv => Custody
  BY DEF IInv
<1> QED BY <1>1, Invariance, PTL

\* No event is given up as exhausted before its retries failed.
THEOREM EveryRetryTaken == Spec => []ExhaustedAfterRetries
<1>1. IInv => ExhaustedAfterRetries
  BY DEF IInv
<1> QED BY <1>1, Invariance, PTL

-----------------------------------------------------------------------------
(* The bound of the local buffer.                                          *)

\* The callers that may yet put an event back.
Holding == {p \in Callers : pc[p] = "local" /\ batch[p] # <<>>}

\* A caller that put an event back and did not empty the buffer again since is not
\* among those.
RoomInv == Len(local) <= localBufferSize + Cardinality(Callers \ Holding)

\* A buffer with room for more callers has room.
LEMMA MoreRoom ==
  ASSUME IInv, IInv', RoomInv, Len(local') <= Len(local) \/ Len(local') <= localBufferSize,
         Holding' \subseteq Holding
  PROVE  RoomInv'
<1>1. IsFiniteSet(Callers) /\ localBufferSize \in Nat
  BY QueueAssumption
<1>2. /\ IsFiniteSet(Callers \ Holding') /\ IsFiniteSet(Callers \ Holding)
      /\ Callers \ Holding \subseteq Callers \ Holding'
  BY <1>1, FS_Subset
<1>3. /\ Cardinality(Callers \ Holding) \in Nat /\ Cardinality(Callers \ Holding') \in Nat
      /\ Cardinality(Callers \ Holding) <= Cardinality(Callers \ Holding')
  BY <1>2, FS_Subset, FS_CardinalityType
<1>4. Len(local) \in Nat /\ Len(local') \in Nat
  BY LenProperties DEF IInv, TypeOK
<1> QED BY <1>1, <1>3, <1>4 DEF RoomInv

\* A call empties the buffer before it can put an event back.
LEMMA RoomStep ==
  ASSUME IInv, IInv', RoomInv, Next
  PROVE  RoomInv'
<1>1. /\ local \in Seq(Events) /\ Len(local) \in Nat /\ local' \in Seq(Events) /\ Len(local') \in Nat
      /\ pc \in [Callers -> PCs] /\ batch \in [Callers -> Seq(Events)]
      /\ localBufferSize \in Nat \ {0} /\ IsFiniteSet(Callers)
  BY LenProperties, QueueAssumption DEF IInv, TypeOK
<1>2. ASSUME NEW e \in Events, SendToDLQ(e) PROVE RoomInv'
  <2>1. UNCHANGED <<pc, batch>>
    BY <1>2 DEF SendToDLQ, callVars
  <2>2. Holding' = Holding
    BY <2>1 DEF Holding
  <2>3. Len(local') <= Len(local) \/ Len(local') <= localBufferSize
    <3>1. CASE local' = local
      BY <1>1, <3>1
    <3>2. CASE addToLocalBuffer(e)
      <4>1. CASE Len(local) >= localBufferSize
        <5>1. local # <<>> /\ local' = Append(Tail(local), e)
          BY <1>1, <3>2, <4>1, EmptySeq DEF addToLocalBuffer
        <5>2. Tail(local) \in Seq(Events) /\ Len(Tail(local)) = Len(local) - 1
          BY <1>1, <5>1, HeadTailProperties
        <5>3. Len(local') = Len(local)
          BY <1>1, <5>1, <5>2, AppendProperties
        <5> QED BY <1>1, <5>3
      <4>2. CASE ~(Len(local) >= localBufferSize)
        <5>1. local' = Append(local, e)
          BY <3>2, <4>2 DEF addToLocalBuffer
        <5>2. Len(local') = Len(local) + 1
          BY <1>1, <5>1, AppendProperties
        <5> QED BY <1>1, <4>2, <5>2
      <4> QED BY <4>1, <4>2
    <3> QED BY <1>2, <3>1, <3>2 DEF SendToDLQ
  <2> QED BY <2>2, <2>3, MoreRoom
<1>3. ASSUME NEW p \in Callers, Call(p) PROVE RoomInv'
  <2>1. CASE ProcessRetries(p)
    <3>1. local' = <<>>
      BY <2>1 DEF ProcessRetries
    <3>2. IsFiniteSet(Callers \ Holding')
      BY <1>1, FS_Subset
    <3>3. Cardinality(Callers \ Holding') \in Nat /\ Len(local') = 0
      BY <3>1, <3>2, FS_CardinalityType, EmptySeq
    <3> QED BY <1>1, <3>3 DEF RoomInv
  <2>2. CASE PutBack(p)
    <3>1. /\ p \in Holding /\ Holding' = Holding \ {p} /\ local' = Append(local, Head(batch[p]))
      BY <1>1, <2>2 DEF PutBack, Holding
    <3>2. Head(batch[p]) \in Events
      BY <1>1, <2>2, HeadTailProperties DEF PutBack
    <3>3. Len(local') = Len(local) + 1
      BY <1>1, <3>1, <3>2, AppendProperties
    <3>4. IsFiniteSet(Callers \ Holding) /\ Callers \ Holding' = (Callers \ Holding) \cup {p}
      BY <1>1, <3>1, FS_Subset
    <3>5. /\ Cardinality(Callers \ Holding) \in Nat
          /\ Cardinality(Callers \ Holding') = Cardinality(Callers \ Holding) + 1
      BY <3>1, <3>4, FS_AddElement, FS_CardinalityType
    <3> QED BY <1>1, <3>3, <3>5 DEF RoomInv
  <2>3. CASE RetryLocal(p)
    <3>1. local' = local /\ Holding' \subseteq Holding
      BY <1>1, <2>3 DEF RetryLocal, Holding
    <3> QED BY <1>1, <3>1, MoreRoom
  <2>4. CASE LocalDone(p) \/ ReturnCancelled(p) \/ ReceiveMessage(p) \/ MessagesDone(p)
    <3>1. local' = local /\ batch' = batch /\ \A u \in Callers : pc'[u] = "local" => pc[u] = "local"
      BY <1>1, <2>4 DEF LocalDone, ReturnCancelled, ReceiveMessage, MessagesDone
    <3> QED BY <1>1, <3>1, MoreRoom DEF Holding
  <2>5. CASE ProcessMessage(p) \/ deleteMessage(p)
    <3>1. UNCHANGED <<local, pc, batch>>
      BY <2>5 DEF ProcessMessage, deleteMessage
    <3> QED BY <1>1, <3>1, MoreRoom DEF Holding
  <2> QED BY <1>3, <2>1, <2>2, <2>3, <2>4, <2>5 DEF Call
<1>4. CASE Cancel
  <2>1. UNCHANGED <<local, pc, batch>>
    BY <1>4 DEF Cancel, callVars
  <2> QED BY <1>1, <2>1, MoreRoom DEF Holding
<1> QED BY <1>2, <1>3, <1>4 DEF Next

\* The local buffer outgrows its limit by at most one event per caller.
THEOREM RoomKept == Spec => []LocalBounded
<1>1. Init => RoomInv
  <2> SUFFICES ASSUME Init PROVE RoomInv
    OBVIOUS
  <2>1. IsFiniteSet(Callers \ Holding) /\ Len(local) = 0 /\ localBufferSize \in Nat
    BY QueueAssumption, FS_Subset, EmptySeq DEF Init
  <2> QED BY <2>1, FS_CardinalityType DEF RoomInv
<1>2. IInv /\ IInv' /\ RoomInv /\ [Next]_vars => RoomInv'
  <2>1. CASE Next
    BY <2>1, RoomStep
  <2>2. CASE UNCHANGED vars
    BY <2>2 DEF vars, RoomInv, Holding
  <2> QED BY <2>1, <2>2
<1>3. IInv /\ RoomInv => LocalBounded
  <2> SUFFICES ASSUME IInv, RoomInv PROVE LocalBounded
    OBVIOUS
  <2>1. /\ IsFiniteSet(Callers) /\ Callers \ Holding \subseteq Callers /\ localBufferSize \in Nat
        /\ Len(local) \in Nat
    BY QueueAssumption, LenProperties DEF IInv, TypeOK
  <2>2. /\ Cardinality(Callers) \in Nat /\ Cardinality(Callers \ Holding) \in Nat
        /\ Cardinality(Callers \ Holding) <= Cardinality(Callers)
    BY <2>1, FS_Subset, FS_CardinalityType
  <2> QED BY <2>1, <2>2 DEF RoomInv, LocalBounded
<1> QED BY <1>1, <1>2, <1>3, Invariance, PTL DEF Spec

-----------------------------------------------------------------------------
(* The parts together.                                                     *)

\* A behaviour of the whole is one of each part: a step of one leaves the others
\* alone.
THEOREM DeliveryOfParts == DeliverySpec => Spec /\ Batch!Spec /\ Consumer!Spec
<1>1. DeliveryInit => Init /\ Batch!Init /\ Consumer!Init
  BY DEF DeliveryInit
<1>2. ASSUME [DeliveryNext]_<<focus, vars, batchVars, consumerVars>>
      PROVE  [Next]_vars /\ [Batch!Next]_Batch!vars /\ [Consumer!Next]_Consumer!vars
  <2>1. /\ UNCHANGED batchVars => UNCHANGED Batch!vars
        /\ UNCHANGED consumerVars => UNCHANGED Consumer!vars
    BY DEF batchVars, Batch!vars, consumerVars, Consumer!vars, Consumer!poolVars
  <2> QED BY <1>2, <2>1 DEF DeliveryNext
<1> QED BY <1>1, <1>2, PTL DEF DeliverySpec, Spec, Batch!Spec, Consumer!Spec

\* The types of every part, in the whole, and the bound of the local buffer.
THEOREM DeliveryTypes == DeliverySpec => []TypesOK
<1>1. TypeOK /\ LocalBounded /\ Batch!TypeOK /\ Consumer!TypeOK => TypesOK
  BY DEF TypesOK
<1> QED BY <1>1, DeliveryOfParts, TypeCorrect, RoomKept, BatchTypes, ConsumerTypes, PTL

\* What the parts promise of events, in the whole: each event in one place or let
\* go in a known way, each retry taken, order kept, nothing left by a stop, nothing
\* read without a trace, nothing stored twice.
THEOREM DeliveryKept ==
  DeliverySpec => [](Custody /\ ExhaustedAfterRetries /\ BatchCustody /\ InOrder /\ CleanStop
                       /\ Accounted /\ StoredUntilDry /\ Duplicates)
BY DeliveryOfParts, NothingVanishes, EveryRetryTaken, BatchCustodyHolds, InOrderHolds, CleanStopHolds,
   AccountedHolds, StoredUntilDryHolds, DuplicatesHolds, PTL
==============================
