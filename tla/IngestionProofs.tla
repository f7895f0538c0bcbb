---------------------------- MODULE IngestionProofs ----------------------------
(* Proofs about the ingestion services, the part Ingest of Server, for any       *)
(* requests, any offers and any failures.                                        *)
EXTENDS Server, Sequences, SequenceTheorems, FiniteSetTheorems, TLAPS

Labels == {"idle", "check", "count", "validate", "item", "hand over", "parse", "publish", "done"}

\* Every handler's variable has an entry per request.
Shape ==
  /\ DOMAIN offer = Requests /\ DOMAIN pc = Requests /\ DOMAIN at = Requests
  /\ DOMAIN rejected = Requests /\ DOMAIN dropped = Requests /\ DOMAIN copies = Requests
  /\ DOMAIN answer = Requests /\ DOMAIN attempts = Requests

\* Where a handler stands: which path leads there, and how far it can have got.
Placed(r) ==
  /\ pc[r] \in Labels
  /\ answer[r] # None => pc[r] = "done"
  /\ at[r] \in Nat \ {0} /\ rejected[r] \in Nat /\ attempts[r] \in Nat
  /\ pc[r] = "idle" => at[r] = 1 /\ rejected[r] = 0 /\ copies[r] = <<>>
  /\ pc[r] # "idle" =>
       /\ offer[r] \in Offers
       /\ copies[r] \in [1 .. Len(Ingest!Items(r)) -> Nat]
       /\ at[r] <= Len(Ingest!Items(r)) + 1
       /\ attempts[r] > 0
  /\ pc[r] \in {"check", "count", "validate", "item", "hand over"} => offer[r].path # "http"
  /\ pc[r] \in {"parse", "publish"} => offer[r].path = "http" /\ at[r] = 1
  /\ pc[r] = "hand over" => offer[r].path = "trace" /\ at[r] <= Len(Ingest!Items(r))

\* An item this attempt has not reached yet has one copy fewer than there were
\* attempts, at the most.
Once(r) ==
  resilient /\ pc[r] # "idle" =>
    \A i \in 1 .. Len(Ingest!Items(r)) :
      /\ copies[r][i] <= attempts[r]
      /\ pc[r] # "done" /\ i >= at[r] => copies[r][i] < attempts[r]

\* The items that this attempt has passed and nobody has.
Missing(r) == {i \in 1 .. at[r] - 1 : copies[r][i] = 0}

\* They are counted or on record; and a success means that all were passed.
Told(r) ==
  pc[r] # "idle" =>
    /\ offer[r].path = "trace" => Cardinality(Missing(r)) <= rejected[r]
    /\ offer[r].path \in {"metrics", "logs"} => Missing(r) \subseteq dropped[r]
    /\ answer[r] = "ok" =>
         IF offer[r].path = "http" THEN \A i \in 1 .. Len(Ingest!Items(r)) : copies[r][i] > 0
                                   ELSE at[r] = Len(Ingest!Items(r)) + 1

\* The inductive invariant, and its part for one request.
Good(r) == Placed(r) /\ Once(r) /\ Told(r)
IngestInv == Shape /\ \A r \in Requests : Good(r)

-----------------------------------------------------------------------------
(* Steps and parts of steps.                                               *)

\* The offers of a request, as the assumption has them.
LEMMA OfferTypes ==
  ASSUME Ingest!IngestionAssumption, NEW o \in Offers
  PROVE  /\ o.path \in {"trace", "metrics", "logs", "http"}
         /\ Len(o.items) \in Nat /\ DOMAIN o.items = 1 .. Len(o.items)
         /\ o.path = "http" => Len(o.items) = 1
BY DEF Ingest!IngestionAssumption

\* A request keeps what is good about it while its own entries stay.
LEMMA Aside ==
  ASSUME NEW r \in Requests, Good(r), resilient' = resilient,
         offer'[r] = offer[r], pc'[r] = pc[r], at'[r] = at[r], rejected'[r] = rejected[r],
         dropped'[r] = dropped[r], copies'[r] = copies[r], answer'[r] = answer[r],
         attempts'[r] = attempts[r]
  PROVE  Good(r)'
<1>1. Placed(r)'
  BY DEF Good, Placed, Ingest!Items
<1>2. Once(r)'
  BY DEF Good, Once, Ingest!Items
<1>3. Missing(r)' = Missing(r)
  BY DEF Missing
<1>4. Told(r)'
  BY <1>3 DEF Good, Told, Ingest!Items
<1> QED BY <1>1, <1>2, <1>4 DEF Good

\* The step of one request leaves the entries of the others alone.
LEMMA Alone ==
  ASSUME Shape, NEW r \in Requests, Ingest!Send(r) \/ Ingest!Resend(r) \/ Ingest!Handle(r)
  PROVE  /\ Shape' /\ resilient' = resilient
         /\ \A q \in Requests : q # r =>
              /\ offer'[q] = offer[q] /\ pc'[q] = pc[q] /\ at'[q] = at[q]
              /\ rejected'[q] = rejected[q] /\ dropped'[q] = dropped[q]
              /\ copies'[q] = copies[q] /\ answer'[q] = answer[q] /\ attempts'[q] = attempts[q]
<1>1. CASE Ingest!Send(r)
  BY <1>1 DEF Ingest!Send, Ingest!Label, Ingest!setup, Shape
<1>2. CASE Ingest!Resend(r)
  BY <1>2 DEF Ingest!Resend, Ingest!Label, Ingest!setup, Shape
<1>3. CASE Ingest!checkMemoryPressure(r)
  BY <1>3 DEF Ingest!checkMemoryPressure, Ingest!Label, Ingest!Reply, Ingest!setup, Shape
<1>4. CASE Ingest!CountRequest(r)
  BY <1>4 DEF Ingest!CountRequest, Ingest!Label, Ingest!setup, Shape
<1>5. CASE Ingest!ValidateRequest(r)
  BY <1>5 DEF Ingest!ValidateRequest, Ingest!Label, Ingest!Reply, Ingest!setup, Shape
<1>6. CASE Ingest!Succeed(r)
  BY <1>6 DEF Ingest!Succeed, Ingest!Label, Ingest!Reply, Ingest!setup, Shape
<1>7. CASE Ingest!AdmitItem(r)
  BY <1>7 DEF Ingest!AdmitItem, Ingest!Label, Ingest!Advance, Ingest!CountRejected,
     Ingest!setup, Shape
<1>8. CASE Ingest!Buffer(r)
  BY <1>8 DEF Ingest!Buffer, Ingest!Label, Ingest!Reply, Ingest!Advance, Ingest!Copy,
     Ingest!setup, Shape
<1>9. CASE Ingest!PublishDirect(r)
  BY <1>9 DEF Ingest!PublishDirect, Ingest!Label, Ingest!Reply, Ingest!Advance, Ingest!Copy,
     Ingest!setup, Shape
<1>10. CASE Ingest!HandleTelemetryEvent(r)
  BY <1>10 DEF Ingest!HandleTelemetryEvent, Ingest!Dropped, Ingest!Advance, Ingest!Copy,
     Ingest!setup, Shape
<1>11. CASE Ingest!HandleIngestion(r)
  BY <1>11 DEF Ingest!HandleIngestion, Ingest!Label, Ingest!Reply, Ingest!setup, Shape
<1>12. CASE Ingest!ProcessTelemetryData(r)
  BY <1>12 DEF Ingest!ProcessTelemetryData, Ingest!Label, Ingest!Reply, Ingest!Copy,
     Ingest!setup, Shape
<1> QED
  BY <1>1, <1>2, <1>3, <1>4, <1>5, <1>6, <1>7, <1>8, <1>9, <1>10, <1>11, <1>12 DEF Ingest!Handle

\* Going to a label, with or without an answer.
LEMMA Moved ==
  ASSUME Shape, NEW r \in Requests
  PROVE  /\ \A l : Ingest!Label(r, l) => pc'[r] = l
         /\ \A a : Ingest!Reply(r, a) => pc'[r] = "done" /\ answer'[r] = a
BY DEF Shape, Ingest!Label, Ingest!Reply

\* Handing over copies of the current item.
LEMMA Copied ==
  ASSUME Shape, NEW r \in Requests, NEW n \in Nat, NEW d \in Nat,
         copies[r] \in [1 .. n -> Nat], at[r] \in 1 .. n, Ingest!Copy(r, d)
  PROVE  /\ copies'[r] \in [1 .. n -> Nat]
         /\ copies'[r][at[r]] = copies[r][at[r]] + d
         /\ \A i \in 1 .. n : i # at[r] => copies'[r][i] = copies[r][i]
<1>1. copies'[r] = [copies[r] EXCEPT ![at[r]] = copies[r][at[r]] + d]
  BY DEF Ingest!Copy, Shape
<1>2. copies[r][at[r]] + d \in Nat
  OBVIOUS
<1> QED BY <1>1, <1>2

\* What is missing afterwards, for an attempt that stays where it is or passes
\* the current item.
LEMMA MissingNext ==
  ASSUME NEW r \in Requests, Placed(r), pc[r] # "idle", NEW d \in Nat,
         at'[r] = at[r] \/ (at'[r] = at[r] + 1 /\ at[r] <= Len(Ingest!Items(r))),
         \A i \in 1 .. at[r] - 1 : copies'[r][i] = copies[r][i]
  PROVE  /\ IsFiniteSet(Missing(r)) /\ Cardinality(Missing(r)) \in Nat
         /\ at'[r] = at[r] => Missing(r)' = Missing(r)
         /\ at'[r] # at[r] =>
              /\ Missing(r)' \subseteq Missing(r) \cup {at[r]}
              /\ copies'[r][at[r]] # 0 => Missing(r)' = Missing(r)
              /\ Cardinality(Missing(r)') \in Nat
              /\ Cardinality(Missing(r)') <= Cardinality(Missing(r)) + 1
<1>1. at[r] \in Nat \ {0}
  BY DEF Placed
<1>2. IsFiniteSet(1 .. at[r] - 1) /\ Missing(r) \subseteq 1 .. at[r] - 1
  <2>1. 1 \in Int /\ at[r] - 1 \in Int
    BY <1>1
  <2>2. \A n \in Int : IsFiniteSet(1 .. n)
    BY FS_Interval
  <2> QED BY <2>1, <2>2 DEF Missing
<1>3. IsFiniteSet(Missing(r)) /\ Cardinality(Missing(r)) \in Nat
  BY <1>2, FS_Subset, FS_CardinalityType
<1>4. at'[r] = at[r] => Missing(r)' = Missing(r)
  BY <1>1 DEF Missing
<1>5. ASSUME at'[r] = at[r] + 1
      PROVE  /\ Missing(r)' \subseteq Missing(r) \cup {at[r]}
             /\ copies'[r][at[r]] # 0 => Missing(r)' = Missing(r)
  <2>1. \A i \in 1 .. at'[r] - 1 : i \in 1 .. at[r] - 1 \/ i = at[r]
    BY <1>1, <1>5
  <2>2. \A i \in 1 .. at[r] - 1 : i \in 1 .. at'[r] - 1
    BY <1>1, <1>5
  <2> QED BY <2>1, <2>2 DEF Missing
<1>6. ASSUME at'[r] = at[r] + 1
      PROVE  /\ Cardinality(Missing(r)') \in Nat
             /\ Cardinality(Missing(r)') <= Cardinality(Missing(r)) + 1
  <2> DEFINE more == Missing(r) \cup {at[r]}
  <2>1. /\ IsFiniteSet(more)
        /\ Cardinality(more) = IF at[r] \in Missing(r) THEN Cardinality(Missing(r))
                                                       ELSE Cardinality(Missing(r)) + 1
    BY <1>3, FS_AddElement
  <2>2. /\ IsFiniteSet(Missing(r)') /\ Cardinality(Missing(r)') <= Cardinality(more)
        /\ Cardinality(Missing(r)') \in Nat
    BY <1>5, <1>6, <2>1, FS_Subset, FS_CardinalityType
  <2> QED BY <1>3, <2>1, <2>2
<1> QED BY <1>1, <1>3, <1>4, <1>5, <1>6

-----------------------------------------------------------------------------
(* Sending, and the steps that hand nothing over.                          *)

\* A new request has no copies yet.
LEMMA SendGood ==
  ASSUME Ingest!IngestionAssumption, Shape, NEW r \in Requests, Good(r), Ingest!Send(r)
  PROVE  Good(r)'
<1>1. PICK o \in Offers :
        /\ offer' = [offer EXCEPT ![r] = o] /\ Ingest!Label(r, Ingest!FirstStep(o))
        /\ copies' = [copies EXCEPT ![r] = [i \in DOMAIN o.items |-> 0]]
  BY DEF Ingest!Send
<1>2. /\ pc[r] = "idle" /\ attempts'[r] = 1
      /\ at'[r] = 1 /\ rejected'[r] = 0 /\ answer'[r] = None
      /\ offer'[r] = o /\ pc'[r] = Ingest!FirstStep(o)
      /\ copies'[r] = [i \in 1 .. Len(o.items) |-> 0]
  BY <1>1, Moved, OfferTypes DEF Ingest!Send, Shape, Good, Placed
<1>3. Len(o.items) \in Nat /\ Ingest!Items(r)' = o.items /\ 0 < 1
  BY <1>2, OfferTypes DEF Ingest!Items
<1>4. pc'[r] \in {"check", "parse"} /\ (pc'[r] = "parse" <=> o.path = "http")
  BY <1>2 DEF Ingest!FirstStep
<1>5. Placed(r)'
  <2>1. copies'[r] \in [1 .. Len(Ingest!Items(r)') -> Nat] /\ at'[r] <= Len(Ingest!Items(r)') + 1
    BY <1>2, <1>3
  <2>2. offer'[r] \in Offers /\ attempts'[r] > 0 /\ attempts'[r] \in Nat
    BY <1>2
  <2>3. pc'[r] \in Labels /\ pc'[r] # "idle" /\ pc'[r] # "hand over"
    BY <1>4 DEF Labels
  <2>4. answer'[r] = None /\ at'[r] \in Nat \ {0} /\ rejected'[r] \in Nat
    BY <1>2
  <2>5. /\ pc'[r] \in {"check", "count", "validate", "item", "hand over"} => offer'[r].path # "http"
        /\ pc'[r] \in {"parse", "publish"} => offer'[r].path = "http" /\ at'[r] = 1
    BY <1>2, <1>4
  <2> QED BY <2>1, <2>2, <2>5, <2>3, <2>4 DEF Placed
<1>6. Once(r)'
  BY <1>2, <1>3 DEF Once
<1>7. Missing(r)' = {}
  BY <1>2 DEF Missing
<1>8. Told(r)'
  BY <1>2, <1>7, FS_EmptySet DEF Told, Ingest!IngestionAssumption
<1> QED BY <1>5, <1>6, <1>8 DEF Good

\* Sent again, it may have each item delivered once more.
LEMMA ResendGood ==
  ASSUME Ingest!IngestionAssumption, Shape, NEW r \in Requests, Good(r), Ingest!Resend(r)
  PROVE  Good(r)'
<1>1. /\ answer[r] # None
      /\ offer'[r] = offer[r] /\ copies'[r] = copies[r] /\ pc'[r] = Ingest!FirstStep(offer[r])
      /\ at'[r] = 1 /\ rejected'[r] = 0 /\ answer'[r] = None /\ attempts'[r] = attempts[r] + 1
      /\ resilient' = resilient
  BY Moved DEF Ingest!Resend, Shape, Ingest!IngestionAssumption, Ingest!setup
<1>2. pc[r] = "done" /\ offer[r] \in Offers /\ attempts[r] \in Nat
  BY <1>1 DEF Good, Placed
<1>3. Len(Ingest!Items(r)) \in Nat /\ Ingest!Items(r)' = Ingest!Items(r)
  BY <1>1, <1>2, OfferTypes DEF Ingest!Items
<1>4. pc'[r] \in {"check", "parse"} /\ (pc'[r] = "parse" <=> offer[r].path = "http")
  BY <1>1 DEF Ingest!FirstStep
<1>5. Placed(r)'
  <2>1. copies'[r] \in [1 .. Len(Ingest!Items(r)') -> Nat] /\ at'[r] <= Len(Ingest!Items(r)') + 1
    BY <1>1, <1>2, <1>3 DEF Good, Placed
  <2>2. offer'[r] \in Offers /\ attempts'[r] > 0 /\ attempts'[r] \in Nat
    BY <1>1, <1>2
  <2>3. pc'[r] \in Labels /\ pc'[r] # "idle" /\ pc'[r] # "hand over"
    BY <1>4 DEF Labels
  <2>4. answer'[r] = None /\ at'[r] \in Nat \ {0} /\ rejected'[r] \in Nat
    BY <1>1
  <2>5. /\ pc'[r] \in {"check", "count", "validate", "item", "hand over"} => offer'[r].path # "http"
        /\ pc'[r] \in {"parse", "publish"} => offer'[r].path = "http" /\ at'[r] = 1
    BY <1>1, <1>4
  <2> QED BY <2>1, <2>2, <2>5, <2>3, <2>4 DEF Placed
<1>6. Once(r)'
  <2> SUFFICES ASSUME resilient, NEW i \in 1 .. Len(Ingest!Items(r))
               PROVE  copies'[r][i] <= attempts'[r] /\ copies'[r][i] < attempts'[r]
    BY <1>1, <1>3 DEF Once
  <2>1. copies[r][i] \in Nat /\ copies[r][i] <= attempts[r]
    BY <1>2 DEF Good, Placed, Once
  <2> QED BY <1>1, <1>2, <2>1
<1>7. Missing(r)' = {}
  BY <1>1 DEF Missing
<1>8. Told(r)'
  BY <1>1, <1>7, FS_EmptySet DEF Told, Ingest!IngestionAssumption
<1> QED BY <1>5, <1>6, <1>8 DEF Good

\* A handler that goes on, or answers something else than success, with nothing
\* handed over.
LEMMA GoOn ==
  ASSUME Shape, NEW r \in Requests, Good(r), pc[r] \notin {"idle", "done"},
         resilient' = resilient, offer'[r] = offer[r], at'[r] = at[r],
         rejected'[r] = rejected[r], dropped'[r] = dropped[r], copies'[r] = copies[r],
         attempts'[r] = attempts[r],
         \/ answer'[r] = answer[r] /\ pc'[r] \in Labels \ {"idle", "done"}
         \/ answer'[r] # "ok" /\ pc'[r] = "done",
         pc'[r] \in {"check", "count", "validate", "item", "hand over"} => offer[r].path # "http",
         pc'[r] \in {"parse", "publish"} => offer[r].path = "http" /\ at[r] = 1,
         pc'[r] = "hand over" => offer[r].path = "trace" /\ at[r] <= Len(Ingest!Items(r))
  PROVE  Good(r)'
<1>1. Ingest!Items(r)' = Ingest!Items(r) /\ Missing(r)' = Missing(r)
  BY DEF Ingest!Items, Missing
<1>2. answer[r] = None
  BY DEF Good, Placed
<1>3. Placed(r)'
  BY <1>1, <1>2 DEF Good, Placed, Labels
<1>4. Once(r)'
  BY <1>1 DEF Good, Once
<1>5. Told(r)'
  BY <1>1, <1>2 DEF Good, Told
<1> QED BY <1>3, <1>4, <1>5 DEF Good

\* The validator's steps and the check of an HTTP body.
LEMMA CheckGood ==
  ASSUME Ingest!IngestionAssumption, Shape, NEW r \in Requests, Good(r),
         Ingest!checkMemoryPressure(r) \/ Ingest!CountRequest(r) \/ Ingest!ValidateRequest(r) \/ Ingest!HandleIngestion(r)
  PROVE  Good(r)'
<1>1. /\ UNCHANGED <<resilient, offer, at, rejected, dropped, copies, attempts>>
      /\ \/ answer' = answer
            /\ \/ pc[r] = "check" /\ Ingest!Label(r, "count")
               \/ pc[r] = "count" /\ Ingest!Label(r, "validate")
               \/ pc[r] = "validate" /\ Ingest!Label(r, "item")
               \/ pc[r] = "parse" /\ Ingest!Label(r, "publish")
         \/ /\ pc[r] \in {"check", "validate", "parse"}
            /\ Ingest!Reply(r, "exhausted") \/ Ingest!Reply(r, "invalid")
  BY DEF Ingest!checkMemoryPressure, Ingest!CountRequest, Ingest!ValidateRequest,
     Ingest!HandleIngestion, Ingest!setup
<1>2. /\ pc[r] = "parse" => offer[r].path = "http" /\ at[r] = 1
      /\ pc[r] \in {"check", "count", "validate"} => offer[r].path # "http"
  BY DEF Good, Placed
<1>3. \/ /\ answer'[r] = answer[r]
         /\ \/ pc[r] = "check" /\ pc'[r] = "count"
            \/ pc[r] = "count" /\ pc'[r] = "validate"
            \/ pc[r] = "validate" /\ pc'[r] = "item"
            \/ pc[r] = "parse" /\ pc'[r] = "publish"
      \/ pc[r] \in {"check", "validate", "parse"} /\ answer'[r] # "ok" /\ pc'[r] = "done"
  BY <1>1 DEF Ingest!Label, Ingest!Reply, Shape
<1>4. CASE answer'[r] = answer[r]
           /\ \/ pc[r] = "check" /\ pc'[r] = "count"
              \/ pc[r] = "count" /\ pc'[r] = "validate"
              \/ pc[r] = "validate" /\ pc'[r] = "item"
              \/ pc[r] = "parse" /\ pc'[r] = "publish"
  <2>1. /\ pc[r] \notin {"idle", "done"} /\ pc'[r] \in Labels \ {"idle", "done"}
        /\ pc'[r] \in {"check", "count", "validate", "item", "hand over"} => offer[r].path # "http"
        /\ pc'[r] \in {"parse", "publish"} => offer[r].path = "http" /\ at[r] = 1
        /\ pc'[r] # "hand over"
    BY <1>2, <1>4 DEF Labels
  <2> QED BY <1>1, <1>4, <2>1, GoOn
<1>5. CASE pc[r] \in {"check", "validate", "parse"} /\ answer'[r] # "ok" /\ pc'[r] = "done"
  <2>1. pc[r] \notin {"idle", "done"}
        /\ pc'[r] \notin {"check", "count", "validate", "item", "hand over", "parse", "publish"}
    BY <1>5
  <2> QED BY <1>1, <1>5, <2>1, GoOn
<1> QED BY <1>3, <1>4, <1>5

-----------------------------------------------------------------------------
(* The steps that pass an item.                                            *)

\* After the current item the next one follows, if d > 0 copies of it were handed
\* over or there is a record of it, or else an answer that is no success.
PassedOn(r, d) ==
  \/ /\ at'[r] = at[r] + 1 /\ pc'[r] = "item" /\ answer'[r] = answer[r]
     /\ \/ d > 0 /\ dropped'[r] = dropped[r]
        \/ /\ offer[r].path \in {"metrics", "logs"} /\ dropped[r] \subseteq dropped'[r]
           /\ d > 0 \/ at[r] \in dropped'[r]
  \/ /\ at'[r] = at[r] /\ pc'[r] = "done" /\ answer'[r] # "ok" /\ dropped'[r] = dropped[r]

\* A step that hands d copies of the current item over, one at the most with the
\* buffer, and does no more than that.
Hands(r, d) ==
  /\ pc[r] \in {"item", "hand over"} /\ at[r] <= Len(Ingest!Items(r))
  /\ Ingest!Copy(r, d) /\ (resilient => d <= 1) /\ PassedOn(r, d)
  /\ resilient' = resilient /\ offer'[r] = offer[r] /\ rejected'[r] = rejected[r]
  /\ attempts'[r] = attempts[r]

\* Handing an item over keeps what is good about the request.
LEMMA HandOver ==
  ASSUME Ingest!IngestionAssumption, Shape, NEW r \in Requests, Good(r), NEW d \in Nat, Hands(r, d)
  PROVE  Good(r)'
<1>1. /\ Placed(r) /\ Once(r) /\ Told(r) /\ pc[r] # "idle" /\ pc[r] # "done" /\ offer[r] \in Offers
      /\ Ingest!Copy(r, d) /\ PassedOn(r, d) /\ resilient' = resilient /\ offer'[r] = offer[r]
      /\ rejected'[r] = rejected[r] /\ attempts'[r] = attempts[r]
  BY DEF Good, Placed, Hands
<1>2. PICK n \in Nat : n = Len(Ingest!Items(r))
  BY <1>1, OfferTypes DEF Ingest!Items
<1>3. at[r] \in Nat \ {0} /\ at[r] <= n /\ at[r] \in 1 .. n
  <2>1. at[r] \in Nat \ {0}
    BY <1>1 DEF Placed
  <2>2. at[r] <= n
    BY <1>2, <2>1 DEF Hands
  <2> QED BY <2>1, <2>2
<1>4. /\ answer[r] = None /\ attempts[r] \in Nat /\ attempts[r] > 0
      /\ offer[r].path # "http" /\ copies[r] \in [1 .. n -> Nat] /\ rejected[r] \in Nat
  <2>1. pc[r] \in {"item", "hand over"}
    BY <1>1 DEF Hands
  <2>2. answer[r] = None /\ offer[r].path # "http"
    BY <1>1, <2>1 DEF Placed
  <2> QED BY <1>1, <1>2, <2>2 DEF Placed
<1>5. /\ at'[r] \in {at[r], at[r] + 1}
      /\ pc'[r] = (IF at'[r] = at[r] THEN "done" ELSE "item")
      /\ answer'[r] # "ok"
      /\ answer'[r] # None => pc'[r] = "done"
      /\ dropped[r] \subseteq dropped'[r]
      /\ at'[r] # at[r] => d > 0 \/ (offer[r].path \in {"metrics", "logs"} /\ at[r] \in dropped'[r])
  BY <1>1, <1>3, <1>4 DEF PassedOn, Ingest!IngestionAssumption
<1>6. /\ copies'[r] \in [1 .. n -> Nat]
      /\ copies'[r][at[r]] = copies[r][at[r]] + d
      /\ \A i \in 1 .. n : i # at[r] => copies'[r][i] = copies[r][i]
  BY <1>1, <1>3, <1>4, Copied
<1>7. Ingest!Items(r)' = Ingest!Items(r)
  BY <1>1 DEF Ingest!Items
<1>8. Placed(r)'
  <2>1. copies'[r] \in [1 .. Len(Ingest!Items(r)') -> Nat] /\ at'[r] <= Len(Ingest!Items(r)') + 1
    BY <1>6, <1>7, <1>2, <1>3, <1>5
  <2>2. /\ offer'[r] \in Offers /\ offer'[r].path # "http"
        /\ attempts'[r] > 0 /\ attempts'[r] \in Nat /\ rejected'[r] \in Nat
    BY <1>1, <1>4
  <2>3. pc'[r] \in Labels /\ pc'[r] \in {"item", "done"} /\ (answer'[r] # None => pc'[r] = "done")
    BY <1>5 DEF Labels
  <2>4. at'[r] \in Nat \ {0}
    BY <1>3, <1>5
  <2> QED BY <2>1, <2>2, <2>3, <2>4 DEF Placed
<1>9. Once(r)'
  <2> SUFFICES ASSUME resilient, NEW i \in 1 .. n
               PROVE  /\ copies'[r][i] <= attempts'[r]
                      /\ pc'[r] # "done" /\ i >= at'[r] => copies'[r][i] < attempts'[r]
    BY <1>1, <1>7, <1>2 DEF Once
  <2>1. /\ copies[r][i] <= attempts[r] /\ (i >= at[r] => copies[r][i] < attempts[r])
        /\ copies[r][i] \in Nat
    BY <1>1, <1>2, <1>4 DEF Once
  <2>2. d <= 1
    BY <1>1 DEF Hands
  <2>3. CASE i = at[r]
    <3>1. copies'[r][i] <= attempts[r]
      BY <1>6, <1>3, <1>4, <2>1, <2>3, <2>2
    <3>2. pc'[r] # "done" => ~(i >= at'[r])
      BY <1>3, <1>5, <2>3
    <3> QED BY <1>1, <3>1, <3>2
  <2>4. CASE i # at[r]
    <3>1. copies'[r][i] = copies[r][i]
      BY <1>6, <2>4
    <3>2. i >= at'[r] => i >= at[r]
      BY <1>3, <1>5
    <3>3. i >= at'[r] => copies[r][i] < attempts[r]
      BY <2>1, <3>2
    <3> QED BY <1>1, <2>1, <3>1, <3>3
  <2> QED BY <2>3, <2>4
<1>10. \A i \in 1 .. at[r] - 1 : copies'[r][i] = copies[r][i]
  <2>1. \A i \in 1 .. at[r] - 1 : i \in 1 .. n /\ i # at[r]
    BY <1>3
  <2> QED BY <1>6, <2>1
<1>11. /\ at'[r] = at[r] => Missing(r)' = Missing(r)
       /\ at'[r] # at[r] => /\ Missing(r)' \subseteq Missing(r) \cup {at[r]}
                            /\ copies'[r][at[r]] # 0 => Missing(r)' = Missing(r)
  BY <1>1, <1>10, <1>2, <1>3, <1>5, MissingNext
<1>12. d > 0 => copies'[r][at[r]] # 0
  <2>1. copies[r][at[r]] \in Nat
    BY <1>3, <1>4
  <2> QED BY <1>6, <2>1
<1>13. Told(r)'
  <2>1. CASE Missing(r)' = Missing(r)
    BY <1>1, <1>5, <2>1 DEF Told
  <2>2. CASE /\ offer[r].path \in {"metrics", "logs"} /\ at[r] \in dropped'[r]
             /\ Missing(r)' \subseteq Missing(r) \cup {at[r]}
    BY <1>1, <1>5, <2>2 DEF Told
  <2> QED BY <1>11, <1>12, <1>5, <2>1, <2>2
<1> QED BY <1>8, <1>9, <1>13 DEF Good

\* Every item was passed: the request succeeds.
LEMMA SucceedGood ==
  ASSUME Ingest!IngestionAssumption, Shape, NEW r \in Requests, Good(r), Ingest!Succeed(r)
  PROVE  Good(r)'
<1>1. /\ pc[r] = "item" /\ at[r] > Len(Ingest!Items(r))
      /\ UNCHANGED <<resilient, offer, at, rejected, dropped, copies, attempts>>
      /\ pc'[r] = "done"
  BY Moved DEF Ingest!Succeed, Ingest!Finished, Ingest!setup
<1>2. /\ offer[r] \in Offers /\ Len(Ingest!Items(r)) \in Nat
      /\ at[r] \in Nat /\ at[r] <= Len(Ingest!Items(r)) + 1 /\ offer[r].path # "http"
  BY <1>1, OfferTypes DEF Good, Placed, Ingest!Items
<1>3. at[r] = Len(Ingest!Items(r)) + 1
  BY <1>1, <1>2
<1>4. Ingest!Items(r)' = Ingest!Items(r) /\ Missing(r)' = Missing(r)
  BY <1>1 DEF Ingest!Items, Missing
<1>5. Placed(r)'
  BY <1>1, <1>4 DEF Good, Placed, Labels
<1>6. Once(r)'
  BY <1>1, <1>4 DEF Good, Once
<1>7. Told(r)'
  BY <1>1, <1>2, <1>3, <1>4 DEF Good, Told
<1> QED BY <1>5, <1>6, <1>7 DEF Good

\* An item is admitted, or it is skipped and counted as rejected.
LEMMA AdmitGood ==
  ASSUME Ingest!IngestionAssumption, Shape, NEW r \in Requests, Good(r), Ingest!AdmitItem(r)
  PROVE  Good(r)'
<1>1. /\ pc[r] = "item" /\ ~Ingest!Finished(r) /\ offer[r].path = "trace"
      /\ UNCHANGED <<resilient, offer, dropped, copies, answer, attempts>>
      /\ \/ pc'[r] = "hand over" /\ at' = at /\ rejected' = rejected
         \/ at'[r] = at[r] + 1 /\ rejected'[r] = rejected[r] + 1 /\ pc' = pc
  BY Moved DEF Ingest!AdmitItem, Ingest!Advance, Ingest!CountRejected, Ingest!setup, Shape
<1>2. /\ Placed(r) /\ Once(r) /\ Told(r) /\ offer[r] \in Offers /\ answer[r] = None
      /\ at[r] \in Nat \ {0} /\ rejected[r] \in Nat /\ attempts[r] \in Nat
  BY <1>1 DEF Good, Placed
<1>3. PICK n \in Nat : n = Len(Ingest!Items(r))
  BY <1>2, OfferTypes DEF Ingest!Items
<1>4. at[r] <= n
  <2>1. at[r] \in Nat /\ ~Ingest!Finished(r)
    BY <1>1, <1>2
  <2> QED BY <1>3, <2>1 DEF Ingest!Finished
<1>5. CASE pc'[r] = "hand over" /\ at' = at /\ rejected' = rejected
  BY <1>1, <1>2, <1>3, <1>4, <1>5, GoOn DEF Labels
<1>6. CASE at'[r] = at[r] + 1 /\ rejected'[r] = rejected[r] + 1 /\ pc' = pc
  <2>1. Ingest!Items(r)' = Ingest!Items(r)
    BY <1>1 DEF Ingest!Items
  <2>2. Placed(r)'
    <3>1. at'[r] <= n + 1 /\ at'[r] \in Nat \ {0} /\ rejected'[r] \in Nat
      BY <1>2, <1>3, <1>4, <1>6
    <3>2. copies'[r] \in [1 .. Len(Ingest!Items(r)') -> Nat] /\ attempts'[r] > 0 /\ attempts'[r] \in Nat
      BY <1>1, <1>2, <2>1 DEF Placed
    <3>3. pc'[r] = "item" /\ pc'[r] \in Labels /\ offer'[r] \in Offers /\ offer'[r].path # "http"
          /\ answer'[r] = None
      BY <1>1, <1>2, <1>6 DEF Labels
    <3> QED BY <1>3, <2>1, <3>1, <3>2, <3>3 DEF Placed
  <2>3. Once(r)'
    <3> SUFFICES ASSUME resilient, NEW i \in 1 .. n, i >= at'[r] \/ TRUE
                 PROVE  /\ copies[r][i] <= attempts[r]
                        /\ i >= at'[r] => copies[r][i] < attempts[r]
      BY <1>1, <1>3, <2>1 DEF Once
    <3>1. i >= at'[r] => i >= at[r]
      BY <1>2, <1>6
    <3> QED BY <1>1, <1>2, <1>3, <3>1 DEF Once
  <2>4. Told(r)'
    <3>1. \A i \in 1 .. at[r] - 1 : copies'[r][i] = copies[r][i]
      BY <1>1
    <3>2. at[r] <= Len(Ingest!Items(r)) /\ at'[r] # at[r] /\ pc[r] # "idle"
      BY <1>1, <1>2, <1>3, <1>4, <1>6
    <3>3. /\ Cardinality(Missing(r)) \in Nat /\ Cardinality(Missing(r)') \in Nat
          /\ Cardinality(Missing(r)') <= Cardinality(Missing(r)) + 1
      BY <1>2, <1>6, <3>1, <3>2, MissingNext
    <3>4. Cardinality(Missing(r)) <= rejected[r]
      BY <1>1, <1>2 DEF Told
    <3>5. Cardinality(Missing(r)') <= rejected'[r]
      BY <1>2, <1>6, <3>3, <3>4
    <3>6. answer'[r] # "ok"
      BY <1>1, <1>2 DEF Ingest!IngestionAssumption
    <3> QED BY <1>1, <3>5, <3>6 DEF Told
  <2> QED BY <2>2, <2>3, <2>4 DEF Good
<1> QED BY <1>1, <1>5, <1>6

-----------------------------------------------------------------------------
(* The steps that hand an item over, and that of the HTTP Ingest!handlers.        *)

\* One copy with the buffer, whether the buffer or the dead letter queue has it.
LEMMA BufferGood ==
  ASSUME Ingest!IngestionAssumption, Shape, NEW r \in Requests, Good(r), Ingest!Buffer(r)
  PROVE  Good(r)'
<1>1. /\ pc[r] = "hand over" /\ offer[r].path = "trace"
      /\ resilient' = resilient /\ offer'[r] = offer[r] /\ rejected'[r] = rejected[r]
      /\ dropped'[r] = dropped[r] /\ attempts'[r] = attempts[r]
  BY DEF Ingest!Buffer, Ingest!setup, Good, Placed
<1>2. PICK d \in Nat : d = 1 /\ d > 0 /\ d <= 1
  OBVIOUS
<1>3. \/ Ingest!Reply(r, "unavailable") /\ UNCHANGED <<at, copies>>
      \/ Ingest!Copy(r, d) /\ Ingest!Advance(r) /\ Ingest!Label(r, "item") /\ UNCHANGED answer
      \/ Ingest!Copy(r, d) /\ Ingest!Reply(r, "unavailable") /\ UNCHANGED at
  BY <1>2 DEF Ingest!Buffer, Ingest!Handed
<1>4. at[r] <= Len(Ingest!Items(r))
  BY <1>1 DEF Good, Placed
<1>5. CASE Ingest!Reply(r, "unavailable") /\ UNCHANGED <<at, copies>>
  <2>1. pc'[r] = "done" /\ answer'[r] # "ok"
    BY <1>5, Moved
  <2>2. pc[r] \notin {"idle", "done"}
        /\ pc'[r] \notin {"check", "count", "validate", "item", "hand over", "parse", "publish"}
    BY <1>1, <2>1
  <2> QED BY <1>5, <1>1, <2>1, <2>2, GoOn
<1>6. CASE Ingest!Copy(r, d) /\ Ingest!Advance(r) /\ Ingest!Label(r, "item") /\ UNCHANGED answer
  <2>1. at'[r] = at[r] + 1 /\ pc'[r] = "item" /\ answer'[r] = answer[r]
    BY <1>6, Moved DEF Ingest!Advance, Shape
  <2>2. dropped'[r] = dropped[r]
    BY <1>1
  <2>3. PassedOn(r, d)
    BY <1>2, <2>1, <2>2 DEF PassedOn
  <2>4. /\ pc[r] \in {"item", "hand over"} /\ Ingest!Copy(r, d)
        /\ resilient' = resilient /\ offer'[r] = offer[r] /\ rejected'[r] = rejected[r]
        /\ attempts'[r] = attempts[r]
    BY <1>6, <1>1
  <2>5. Hands(r, d)
    BY <1>4, <1>2, <2>3, <2>4 DEF Hands
  <2> QED BY <2>5, HandOver
<1>7. CASE Ingest!Copy(r, d) /\ Ingest!Reply(r, "unavailable") /\ UNCHANGED at
  <2>1. pc'[r] = "done" /\ answer'[r] # "ok"
    BY <1>7, Moved
  <2>2. at'[r] = at[r]
    BY <1>7
  <2>3. dropped'[r] = dropped[r]
    BY <1>1
  <2>4. PassedOn(r, d)
    BY <2>3, <2>1, <2>2 DEF PassedOn
  <2>5. /\ pc[r] \in {"item", "hand over"} /\ Ingest!Copy(r, d)
        /\ resilient' = resilient /\ offer'[r] = offer[r] /\ rejected'[r] = rejected[r]
        /\ attempts'[r] = attempts[r]
    BY <1>7, <1>1
  <2>6. Hands(r, d)
    BY <1>4, <1>2, <2>4, <2>5 DEF Hands
  <2> QED BY <2>6, HandOver
<1> QED BY <1>3, <1>5, <1>6, <1>7

\* Without the buffer the number of copies is of no interest.
LEMMA PublishGood ==
  ASSUME Ingest!IngestionAssumption, Shape, NEW r \in Requests, Good(r), Ingest!PublishDirect(r)
  PROVE  Good(r)'
<1>1. PICK out \in Ingest!PutRecord(r) :
        /\ Ingest!Copy(r, (IF out = "lost" THEN 0 ELSE 1) + (IF out # "stored" /\ dlq THEN 1 ELSE 0))
        /\ IF out = "stored" THEN Ingest!Advance(r) /\ Ingest!Label(r, "item") /\ UNCHANGED answer
                             ELSE Ingest!Reply(r, "unavailable") /\ UNCHANGED at
  BY DEF Ingest!PublishDirect
<1>2. /\ pc[r] = "hand over" /\ offer[r].path = "trace" /\ ~resilient
      /\ resilient' = resilient /\ offer'[r] = offer[r] /\ rejected'[r] = rejected[r]
      /\ dropped'[r] = dropped[r] /\ attempts'[r] = attempts[r]
  BY DEF Ingest!PublishDirect, Ingest!setup, Good, Placed
<1>3. at[r] <= Len(Ingest!Items(r))
  BY <1>2 DEF Good, Placed
<1>4. PICK d \in Nat : /\ d = (IF out = "lost" THEN 0 ELSE 1) + (IF out # "stored" /\ dlq THEN 1 ELSE 0)
                       /\ out = "stored" => d > 0
  OBVIOUS
<1>5. CASE out = "stored"
  <2>1. PassedOn(r, d)
    BY <1>1, <1>2, <1>4, <1>5, Moved DEF PassedOn, Ingest!Advance, Shape
  <2>2. Hands(r, d)
    BY <1>1, <1>2, <1>4, <1>3, <2>1 DEF Hands
  <2> QED BY <2>2, HandOver
<1>6. CASE out # "stored"
  <2>1. Ingest!Reply(r, "unavailable") /\ UNCHANGED at
    BY <1>1, <1>6
  <2>2. pc'[r] = "done" /\ answer'[r] # "ok"
    BY <2>1, Moved
  <2>3. at'[r] = at[r]
    BY <2>1
  <2>4. dropped'[r] = dropped[r]
    BY <1>2
  <2>5. PassedOn(r, d)
    BY <2>4, <2>2, <2>3 DEF PassedOn
  <2>6. Hands(r, d)
    BY <1>1, <1>2, <1>4, <1>3, <2>5 DEF Hands
  <2> QED BY <2>6, HandOver
<1> QED BY <1>5, <1>6

\* What is not stored is on record as dropped, and the service goes on.
LEMMA TelemetryGood ==
  ASSUME Ingest!IngestionAssumption, Shape, NEW r \in Requests, Good(r), Ingest!HandleTelemetryEvent(r)
  PROVE  Good(r)'
<1>1. PICK out \in (IF Ingest!Validate(r) THEN Ingest!PutRecord(r) ELSE {"lost"}) :
        /\ Ingest!Copy(r, IF out = "lost" THEN 0 ELSE 1)
        /\ dropped' = Ingest!Dropped(r, out)
  BY DEF Ingest!HandleTelemetryEvent
<1>2. /\ pc[r] = "item" /\ ~Ingest!Finished(r) /\ offer[r].path \in {"metrics", "logs"}
      /\ Ingest!Advance(r) /\ UNCHANGED <<resilient, offer, pc, rejected, answer, attempts>>
  BY DEF Ingest!HandleTelemetryEvent, Ingest!setup
<1>3. PICK n \in Nat : n = Len(Ingest!Items(r))
  <2>1. offer[r] \in Offers
    BY <1>2 DEF Good, Placed
  <2> QED BY <2>1, OfferTypes DEF Ingest!Items
<1>4. at[r] \in Nat /\ ~Ingest!Finished(r)
  BY <1>2 DEF Good, Placed
<1>5. at[r] <= Len(Ingest!Items(r))
  <2>1. at[r] <= n
    BY <1>3, <1>4 DEF Ingest!Finished
  <2> QED BY <1>3, <2>1
<1>6. PICK d \in {0, 1} : d = (IF out = "lost" THEN 0 ELSE 1) /\ (out = "stored" => d > 0)
  OBVIOUS
<1>7. /\ dropped[r] \subseteq dropped'[r]
      /\ (d > 0 /\ dropped'[r] = dropped[r]) \/ at[r] \in dropped'[r]
  BY <1>1, <1>6 DEF Ingest!Dropped, Shape
<1>8. PassedOn(r, d)
  BY <1>2, <1>7 DEF PassedOn, Ingest!Advance, Shape
<1>9. d \in Nat /\ d <= 1 /\ Ingest!Copy(r, d)
  BY <1>1, <1>6
<1>10. Hands(r, d)
  BY <1>2, <1>5, <1>8, <1>9 DEF Hands
<1> QED BY <1>9, <1>10, HandOver

\* The one record of an HTTP body is stored if that is what the client is told.
LEMMA BodyGood ==
  ASSUME Ingest!IngestionAssumption, Shape, NEW r \in Requests, Good(r), Ingest!ProcessTelemetryData(r)
  PROVE  Good(r)'
<1>1. PICK out \in Ingest!PutRecord(r) : Ingest!Copy(r, IF out = "lost" THEN 0 ELSE 1) /\ Ingest!Reply(r, Ingest!Outcome(out))
  BY DEF Ingest!ProcessTelemetryData
<1>2. /\ pc[r] = "publish" /\ UNCHANGED <<resilient, offer, at, rejected, dropped, attempts>>
  BY DEF Ingest!ProcessTelemetryData, Ingest!setup
<1>3. /\ Placed(r) /\ Once(r) /\ Told(r) /\ offer[r] \in Offers /\ offer[r].path = "http" /\ at[r] = 1
      /\ Len(Ingest!Items(r)) = 1 /\ copies[r] \in [1 .. 1 -> Nat] /\ attempts[r] \in Nat
      /\ rejected[r] \in Nat /\ attempts[r] > 0
  <2>1. offer[r] \in Offers /\ offer[r].path = "http"
    BY <1>2 DEF Good, Placed
  <2>2. Len(Ingest!Items(r)) = 1
    BY <2>1, OfferTypes DEF Ingest!Items
  <2> QED BY <1>2, <2>1, <2>2 DEF Good, Placed
<1>4. PICK d \in {0, 1} : d = (IF out = "lost" THEN 0 ELSE 1) /\ (Ingest!Outcome(out) = "ok" => d = 1)
  BY DEF Ingest!Outcome
<1>5. /\ copies'[r] \in [1 .. 1 -> Nat] /\ copies'[r][1] = copies[r][1] + d /\ copies[r][1] \in Nat
  <2>1. Ingest!Copy(r, d) /\ d \in Nat /\ at[r] \in 1 .. 1
    BY <1>1, <1>3, <1>4
  <2> QED BY <1>3, <2>1, Copied
<1>6. /\ pc'[r] = "done" /\ answer'[r] = Ingest!Outcome(out) /\ Ingest!Items(r)' = Ingest!Items(r) /\ at'[r] = 1
      /\ offer'[r] = offer[r] /\ attempts'[r] = attempts[r] /\ rejected'[r] = rejected[r]
      /\ resilient' = resilient
  BY <1>1, <1>2, <1>3, Moved DEF Ingest!Items
<1>7. Placed(r)'
  <2>1. Len(Ingest!Items(r)') = 1 /\ at'[r] <= Len(Ingest!Items(r)') + 1
    BY <1>3, <1>6
  <2>2. copies'[r] \in [1 .. Len(Ingest!Items(r)') -> Nat]
    BY <1>5, <2>1
  <2>3. /\ pc'[r] \in Labels /\ at'[r] \in Nat \ {0} /\ offer'[r] \in Offers
        /\ rejected'[r] \in Nat /\ attempts'[r] \in Nat /\ attempts'[r] > 0
    BY <1>3, <1>6 DEF Labels
  <2> QED BY <1>6, <2>1, <2>2, <2>3 DEF Placed
<1>8. Once(r)'
  <2> SUFFICES ASSUME resilient, NEW i \in 1 .. 1
               PROVE  copies'[r][i] <= attempts'[r]
    BY <1>3, <1>6 DEF Once
  <2>1. copies[r][1] < attempts[r]
    BY <1>2, <1>3 DEF Once
  <2> QED BY <1>3, <1>4, <1>5, <1>6, <2>1
<1>9. Told(r)'
  <2>1. answer'[r] = "ok" => copies'[r][1] > 0
    BY <1>4, <1>5, <1>6
  <2>2. Len(Ingest!Items(r)') = 1
    BY <1>3, <1>6
  <2>3. answer'[r] = "ok" => \A i \in 1 .. 1 : copies'[r][i] > 0
    BY <2>1
  <2>4. answer'[r] = "ok" => \A i \in 1 .. Len(Ingest!Items(r)') : copies'[r][i] > 0
    BY <2>2, <2>3
  <2> QED BY <1>3, <1>6, <2>4 DEF Told
<1> QED BY <1>7, <1>8, <1>9 DEF Good

-----------------------------------------------------------------------------
(* The invariant and what follows from it.                                 *)

\* No request has been sent at the start.
LEMMA IngestInit == Ingest!Init => IngestInv
<1> SUFFICES ASSUME Ingest!Init PROVE IngestInv
  OBVIOUS
<1>1. Shape
  BY DEF Ingest!Init, Ingest!handlers, Shape
<1>2. ASSUME NEW r \in Requests PROVE Good(r)
  <2>1. /\ pc[r] = "idle" /\ answer[r] = None /\ at[r] = 1 /\ rejected[r] = 0
        /\ attempts[r] = 0 /\ copies[r] = <<>>
    BY DEF Ingest!Init
  <2> QED BY <2>1 DEF Good, Placed, Once, Told, Labels
<1> QED BY <1>1, <1>2 DEF IngestInv

\* Every step of a request keeps what is good about it.
LEMMA OwnStep ==
  ASSUME Ingest!IngestionAssumption, Shape, NEW r \in Requests, Good(r), Ingest!Send(r) \/ Ingest!Resend(r) \/ Ingest!Handle(r)
  PROVE  Good(r)'
BY SendGood, ResendGood, CheckGood, SucceedGood, AdmitGood, BufferGood, PublishGood,
   TelemetryGood, BodyGood DEF Ingest!Handle

\* A step of one request, of the limiter or of the shutdown keeps the invariant.
LEMMA IngestNext == Ingest!IngestionAssumption /\ IngestInv /\ [Ingest!Next]_Ingest!vars => IngestInv'
<1> SUFFICES ASSUME Ingest!IngestionAssumption, IngestInv, [Ingest!Next]_Ingest!vars PROVE IngestInv'
  OBVIOUS
<1>1. Shape /\ \A r \in Requests : Good(r)
  BY DEF IngestInv
<1>2. ASSUME NEW r \in Requests, Ingest!Send(r) \/ Ingest!Resend(r) \/ Ingest!Handle(r) PROVE IngestInv'
  <2>1. Shape' /\ Good(r)'
    BY <1>1, <1>2, Alone, OwnStep
  <2>2. ASSUME NEW q \in Requests, q # r PROVE Good(q)'
    BY <1>1, <1>2, <2>2, Alone, Aside
  <2> QED BY <2>1, <2>2 DEF IngestInv
<1>3. CASE (\E t \in Tenants : Ingest!Refill(t)) \/ Ingest!CloseBuffer \/ UNCHANGED Ingest!vars
  <2>1. UNCHANGED <<resilient, Ingest!handlers>>
    BY <1>3 DEF Ingest!Refill, Ingest!CloseBuffer, Ingest!vars, Ingest!setup
  <2>2. Shape'
    BY <1>1, <2>1 DEF Shape, Ingest!handlers
  <2>3. ASSUME NEW r \in Requests PROVE Good(r)'
    BY <1>1, <2>1, Aside DEF Ingest!handlers
  <2> QED BY <2>2, <2>3 DEF IngestInv
<1> QED BY <1>2, <1>3 DEF Ingest!Next

\* The invariant holds in every state, whatever is offered and whatever fails.
LEMMA IngestInvariance == Ingest!Spec => []IngestInv
<1>1. Ingest!Init => IngestInv
  BY IngestInit
<1>2. IngestInv /\ [Ingest!Next]_Ingest!vars => IngestInv'
  BY InstancesAssumption, IngestNext
<1> QED BY <1>1, <1>2, PTL DEF Ingest!Spec

\* Cardinalities in Ingestion are those of the library.
LEMMA IngestCount == \A S : Ingest!Cardinality(S) = Cardinality(S)
BY DEF Ingest!Cardinality, Cardinality

\* The items of a request that nobody has.
Absent(r) == {i \in DOMAIN Ingest!Items(r) : copies[r][i] = 0}

\* A client that is told its request succeeded can rely on it: of a trace request
\* no more items are missing than the answer counts as rejected, of metrics and
\* logs only those whose failure was logged, and an HTTP body is stored.
THEOREM SuccessTold == Ingest!Spec => []SuccessIsTrue
<1>1. ASSUME IngestInv, NEW r \in Requests, answer[r] = "ok"
      PROVE  /\ offer[r].path = "http" => Absent(r) = {}
             /\ offer[r].path = "trace" => Cardinality(Absent(r)) <= rejected[r]
             /\ offer[r].path \in {"metrics", "logs"} => Absent(r) \subseteq dropped[r]
  <2>1. Placed(r) /\ Told(r) /\ pc[r] # "idle" /\ offer[r] \in Offers
    BY <1>1, InstancesAssumption DEF IngestInv, Good, Placed, Ingest!IngestionAssumption
  <2>2. PICK n \in Nat : n = Len(Ingest!Items(r)) /\ DOMAIN Ingest!Items(r) = 1 .. n
    BY <2>1, InstancesAssumption, OfferTypes DEF Ingest!Items
  <2>3. CASE offer[r].path = "http"
    BY <1>1, <2>1, <2>2, <2>3 DEF Told, Absent
  <2>4. CASE offer[r].path # "http"
    <3>1. at[r] = n + 1
      BY <1>1, <2>1, <2>2, <2>4 DEF Told
    <3>2. Absent(r) = Missing(r)
      BY <2>2, <3>1 DEF Missing, Absent
    <3> QED BY <2>1, <2>4, <3>2 DEF Told
  <2> QED BY <2>3, <2>4
<1>2. ASSUME IngestInv, NEW r \in Requests, answer[r] = "ok"
      PROVE  LET missing == {i \in DOMAIN Ingest!Items(r) : copies[r][i] = 0}
             IN  /\ offer[r].path = "http" => missing = {}
                 /\ offer[r].path = "trace" => Ingest!Cardinality(missing) <= rejected[r]
                 /\ offer[r].path \in {"metrics", "logs"} => missing \subseteq dropped[r]
  <2> DEFINE missing == {i \in DOMAIN Ingest!Items(r) : copies[r][i] = 0}
  <2>1. missing = Absent(r)
    BY DEF Absent
  <2> SUFFICES /\ offer[r].path = "http" => missing = {}
               /\ offer[r].path = "trace" => Ingest!Cardinality(missing) <= rejected[r]
               /\ offer[r].path \in {"metrics", "logs"} => missing \subseteq dropped[r]
    OBVIOUS
  <2> HIDE DEF missing
  <2> QED BY <1>1, <1>2, <2>1, IngestCount
<1>3. IngestInv => SuccessIsTrue
  BY <1>2 DEF SuccessIsTrue, Ingest!SuccessIsTrue
<1> QED BY <1>3, IngestInvariance, PTL

\* With the buffer, a request that was sent so many times has each of its items
\* delivered at most as many times.
THEOREM AttemptsBound == Ingest!Spec => []OncePerAttempt
<1>1. IngestInv => OncePerAttempt
  <2> SUFFICES ASSUME IngestInv, resilient, NEW r \in Requests, NEW i \in DOMAIN copies[r]
               PROVE  copies[r][i] <= attempts[r]
    BY DEF OncePerAttempt, Ingest!OncePerAttempt, OncePerAttempt
  <2>1. Placed(r) /\ Once(r)
    BY DEF IngestInv, Good
  <2>2. CASE pc[r] = "idle"
    <3>1. DOMAIN copies[r] = {}
      BY <2>1, <2>2 DEF Placed
    <3> QED BY <3>1
  <2>3. CASE pc[r] # "idle"
    BY <2>1, <2>3 DEF Placed, Once
  <2> QED BY <2>2, <2>3
<1> QED BY <1>1, IngestInvariance, PTL

-----------------------------------------------------------------------------
(* The types, and the counters of the validators.                          *)

Answers == {None, "ok", "invalid", "exhausted", "unavailable", "error"}

Entries ==
  /\ streams \in StreamSetups
  /\ answer \in [Requests -> Answers]
  /\ attempts \in [Requests -> 0 .. MaxAttempts]
  /\ tokens \in [Tenants -> 0 .. Burst]

\* The requests that a service's validator is at.
InValidation(s) == {r \in Requests : pc[r] = "validate" /\ offer[r].path = s}

Counted ==
  /\ DOMAIN concurrentRequests = Ingest!Services
  /\ \A s \in Ingest!Services :
       IsFiniteSet(InValidation(s)) /\ concurrentRequests[s] = Cardinality(InValidation(s))

\* A place that is not behind the last one.
LEMMA UpTo == \A k \in Nat \ {0}, n \in Nat : ~(k > n) => k \in 1 .. n
OBVIOUS

\* An item in hand has a tenant.
LEMMA ItemTenant ==
  ASSUME Ingest!IngestionAssumption, NEW r \in Requests, Placed(r), pc[r] \in {"item", "hand over"},
         ~Ingest!Finished(r)
  PROVE  Ingest!Tenant(r) \in Tenants
<1>1. offer[r] \in Offers /\ at[r] \in Nat \ {0}
  BY DEF Placed
<1>2. at[r] \in 1 .. Len(offer[r].items)
  <2>1. ~(at[r] > Len(offer[r].items)) /\ Len(offer[r].items) \in Nat
    BY <1>1, OfferTypes DEF Ingest!Finished, Ingest!Items
  <2> QED BY <1>1, <2>1, UpTo
<1>3. offer[r].items[at[r]] \in [tenant : Tenants, empty : BOOLEAN]
  <2>1. offer[r].items \in Seq([tenant : Tenants, empty : BOOLEAN])
    BY <1>1 DEF Ingest!IngestionAssumption
  <2> QED BY <1>2, <2>1, ElementOfSeq
<1> QED BY <1>3 DEF Ingest!Tenant, Ingest!Items

\* A token is only taken where there is one.
LEMMA TokenTaken ==
  ASSUME Ingest!IngestionAssumption, Entries, NEW t \in Tenants, tokens[t] > 0,
         tokens' = [tokens EXCEPT ![t] = tokens[t] - 1]
  PROVE  tokens' \in [Tenants -> 0 .. Burst]
<1>1. tokens[t] \in 0 .. Burst /\ Burst \in Nat
  BY DEF Entries, Ingest!IngestionAssumption
<1>2. tokens[t] - 1 \in 0 .. Burst
  BY <1>1
<1> QED BY <1>2 DEF Entries

\* What a step of a handler does to the entries of its type.
LEMMA EntriesStep ==
  ASSUME Ingest!IngestionAssumption, IngestInv, Entries, [Ingest!Next]_Ingest!vars
  PROVE  Entries'
<1>a. MaxAttempts \in Nat \ {0} /\ Burst \in Nat
  BY DEF Ingest!IngestionAssumption
<1>1. ASSUME NEW r \in Requests, Ingest!Send(r) \/ Ingest!Resend(r) PROVE Entries'
  <2>1. UNCHANGED <<streams, tokens>> /\ answer' \in [Requests -> Answers]
    BY <1>1 DEF Ingest!Send, Ingest!Resend, Ingest!setup, Entries, Answers
  <2>2. attempts[r] \in 0 .. MaxAttempts
    BY DEF Entries
  <2>3. attempts' \in [Requests -> 0 .. MaxAttempts]
    <3>1. CASE Ingest!Send(r)
      <4>1. attempts' = [attempts EXCEPT ![r] = 1] /\ 1 \in 0 .. MaxAttempts
        BY <1>a, <3>1 DEF Ingest!Send
      <4> QED BY <4>1 DEF Entries
    <3>2. CASE Ingest!Resend(r)
      <4>1. attempts' = [attempts EXCEPT ![r] = attempts[r] + 1] /\ attempts[r] < MaxAttempts
        BY <3>2 DEF Ingest!Resend
      <4>2. attempts[r] + 1 \in 0 .. MaxAttempts
        BY <1>a, <2>2, <4>1
      <4> QED BY <4>1, <4>2 DEF Entries
    <3> QED BY <1>1, <3>1, <3>2
  <2> QED BY <2>1, <2>3 DEF Entries
<1>2. ASSUME NEW r \in Requests, Ingest!Handle(r) PROVE Entries'
  <2>1. UNCHANGED <<streams, attempts>> /\ answer' \in [Requests -> Answers]
    BY <1>2 DEF Ingest!Handle, Ingest!checkMemoryPressure, Ingest!CountRequest,
       Ingest!ValidateRequest,
                Ingest!Succeed, Ingest!AdmitItem, Ingest!Buffer, Ingest!PublishDirect,
                Ingest!HandleTelemetryEvent, Ingest!HandleIngestion, Ingest!ProcessTelemetryData,
                Ingest!Outcome, Ingest!Reply, Ingest!setup, Entries, Answers
  <2>2. tokens' \in [Tenants -> 0 .. Burst]
    <3>1. tokens' = tokens \/ Ingest!AdmitItem(r) \/ Ingest!Buffer(r)
      BY <1>2 DEF Ingest!Handle, Ingest!checkMemoryPressure, Ingest!CountRequest,
                  Ingest!ValidateRequest, Ingest!Succeed, Ingest!PublishDirect,
                  Ingest!HandleTelemetryEvent, Ingest!HandleIngestion, Ingest!ProcessTelemetryData
    <3>2. Placed(r)
      BY DEF IngestInv, Good
    <3>3. CASE Ingest!AdmitItem(r)
      <4>1. Ingest!Tenant(r) \in Tenants
        BY <3>2, <3>3, ItemTenant DEF Ingest!AdmitItem
      <4>2. tokens' = tokens \/ (tokens[Ingest!Tenant(r)] > 0
                                   /\ tokens' = [tokens EXCEPT ![Ingest!Tenant(r)] = tokens[Ingest!Tenant(r)] - 1])
        BY <3>3 DEF Ingest!AdmitItem
      <4> QED BY <4>1, <4>2, TokenTaken DEF Entries
    <3>4. CASE Ingest!Buffer(r)
      <4>0. pc[r] = "hand over"
        BY <3>4 DEF Ingest!Buffer
      <4>1. Ingest!Tenant(r) \in Tenants
        <5>1. at[r] <= Len(Ingest!Items(r)) /\ at[r] \in Nat /\ Len(Ingest!Items(r)) \in Nat
          BY <3>2, <4>0, OfferTypes DEF Placed, Ingest!Items
        <5>2. ~Ingest!Finished(r)
          BY <5>1 DEF Ingest!Finished
        <5> QED BY <3>2, <4>0, <5>2, ItemTenant
      <4>2. tokens' = tokens \/ (tokens[Ingest!Tenant(r)] > 0
                                   /\ tokens' = [tokens EXCEPT ![Ingest!Tenant(r)] = tokens[Ingest!Tenant(r)] - 1])
        BY <3>4 DEF Ingest!Buffer
      <4> QED BY <4>1, <4>2, TokenTaken DEF Entries
    <3> QED BY <3>1, <3>3, <3>4 DEF Entries
  <2> QED BY <2>1, <2>2 DEF Entries
<1>3. ASSUME NEW t \in Tenants, Ingest!Refill(t) PROVE Entries'
  <2>1. tokens[t] \in 0 .. Burst
    BY DEF Entries
  <2>2. tokens[t] + 1 \in 0 .. Burst
    BY <1>a, <1>3, <2>1 DEF Ingest!Refill
  <2> QED BY <1>3, <2>2 DEF Ingest!Refill, Ingest!setup, Ingest!handlers, Entries
<1>4. CASE Ingest!CloseBuffer \/ UNCHANGED Ingest!vars
  BY <1>4 DEF Ingest!CloseBuffer, Ingest!vars, Ingest!setup, Ingest!handlers, Entries
<1> QED BY <1>1, <1>2, <1>3, <1>4 DEF Ingest!Next

\* A request that comes to no validator and leaves none is not counted anew.
LEMMA SameCounters ==
  ASSUME Shape, Counted, concurrentRequests' = concurrentRequests, NEW r \in Requests,
         Ingest!Send(r) \/ Ingest!Resend(r) \/ Ingest!Handle(r),
         pc[r] # "validate", pc'[r] # "validate"
  PROVE  Counted'
<1>1. \A q \in Requests : q # r => pc'[q] = pc[q] /\ offer'[q] = offer[q]
  BY Alone
<1>2. \A s : InValidation(s)' = InValidation(s)
  BY <1>1 DEF InValidation
<1> QED BY <1>2 DEF Counted

\* Each validator counts the requests it is at: a request that is refused gives
\* its place back too.
LEMMA CountedStep ==
  ASSUME Ingest!IngestionAssumption, IngestInv, Counted, [Ingest!Next]_Ingest!vars
  PROVE  Counted'
<1>a. Shape /\ \A r \in Requests : Placed(r)
  BY DEF IngestInv, Good
<1>1. ASSUME NEW r \in Requests, Ingest!Send(r) \/ Ingest!Resend(r) PROVE Counted'
  <2>1. concurrentRequests' = concurrentRequests /\ pc[r] # "validate" /\ pc'[r] # "validate"
    BY <1>a, <1>1, Moved DEF Ingest!Send, Ingest!Resend, Ingest!FirstStep, Placed,
                             Ingest!IngestionAssumption
  <2> QED BY <1>a, <1>1, <2>1, SameCounters
<1>2. ASSUME NEW r \in Requests, Ingest!Handle(r) PROVE Counted'
  <2>0. \A q \in Requests : q # r => pc'[q] = pc[q] /\ offer'[q] = offer[q]
    BY <1>a, <1>2, Alone
  <2>p. PICK p : p = offer[r].path
    OBVIOUS
  <2>1. CASE Ingest!CountRequest(r)
    <3>1. pc[r] = "count" /\ pc'[r] = "validate" /\ offer' = offer
      BY <1>a, <2>1, Moved DEF Ingest!CountRequest
    <3>2. p \in Ingest!Services
      BY <1>a, <2>p, <3>1, OfferTypes DEF Placed, Ingest!Services
    <3>3. InValidation(p)' = InValidation(p) \cup {r} /\ r \notin InValidation(p)
      BY <2>0, <2>p, <3>1 DEF InValidation
    <3>4. \A s : s # p => InValidation(s)' = InValidation(s)
      BY <2>0, <2>p, <3>1 DEF InValidation
    <3>5. concurrentRequests' = [concurrentRequests EXCEPT ![p] = concurrentRequests[p] + 1]
      BY <2>1, <2>p DEF Ingest!CountRequest
    <3>6. IsFiniteSet(InValidation(p)') /\ Cardinality(InValidation(p)') = Cardinality(InValidation(p)) + 1
      BY <3>2, <3>3, FS_AddElement DEF Counted
    <3>7. ASSUME NEW s \in Ingest!Services
          PROVE  IsFiniteSet(InValidation(s)') /\ concurrentRequests'[s] = Cardinality(InValidation(s)')
      BY <3>2, <3>4, <3>5, <3>6 DEF Counted
    <3> QED BY <3>5, <3>7 DEF Counted
  <2>2. CASE Ingest!ValidateRequest(r)
    <3>1. pc[r] = "validate" /\ pc'[r] # "validate" /\ offer' = offer
      BY <1>a, <2>2, Moved DEF Ingest!ValidateRequest
    <3>2. p \in Ingest!Services
      BY <1>a, <2>p, <3>1, OfferTypes DEF Placed, Ingest!Services
    <3>3. InValidation(p)' = InValidation(p) \ {r} /\ r \in InValidation(p)
      BY <2>0, <2>p, <3>1 DEF InValidation
    <3>4. \A s : s # p => InValidation(s)' = InValidation(s)
      BY <2>0, <2>p, <3>1 DEF InValidation
    <3>5. concurrentRequests' = [concurrentRequests EXCEPT ![p] = concurrentRequests[p] - 1]
      BY <2>2, <2>p DEF Ingest!ValidateRequest
    <3>6. IsFiniteSet(InValidation(p)') /\ Cardinality(InValidation(p)') = Cardinality(InValidation(p)) - 1
      BY <3>2, <3>3, FS_RemoveElement DEF Counted
    <3>7. ASSUME NEW s \in Ingest!Services
          PROVE  IsFiniteSet(InValidation(s)') /\ concurrentRequests'[s] = Cardinality(InValidation(s)')
      BY <3>2, <3>4, <3>5, <3>6 DEF Counted
    <3> QED BY <3>5, <3>7 DEF Counted
  <2>3. CASE ~Ingest!CountRequest(r) /\ ~Ingest!ValidateRequest(r)
    <3>1. concurrentRequests' = concurrentRequests /\ pc[r] # "validate"
      BY <1>2, <2>3 DEF Ingest!Handle, Ingest!checkMemoryPressure, Ingest!Succeed, Ingest!AdmitItem,
           Ingest!Buffer, Ingest!PublishDirect, Ingest!HandleTelemetryEvent, Ingest!HandleIngestion,
           Ingest!ProcessTelemetryData
    <3>2. pc'[r] # "validate"
      <4>1. pc' = pc \/ \E l : l # "validate" /\ pc' = [pc EXCEPT ![r] = l]
        BY <1>2, <2>3 DEF Ingest!Handle, Ingest!checkMemoryPressure, Ingest!Succeed,
           Ingest!AdmitItem,
             Ingest!Buffer, Ingest!PublishDirect, Ingest!HandleTelemetryEvent, Ingest!HandleIngestion,
             Ingest!ProcessTelemetryData, Ingest!Label, Ingest!Reply
      <4> QED BY <1>a, <3>1, <4>1 DEF Shape
    <3> QED BY <1>a, <1>2, <3>1, <3>2, SameCounters
  <2> QED BY <2>1, <2>2, <2>3
<1>3. CASE (\E t \in Tenants : Ingest!Refill(t)) \/ Ingest!CloseBuffer \/ UNCHANGED Ingest!vars
  <2>1. UNCHANGED <<pc, offer, concurrentRequests>>
    BY <1>3 DEF Ingest!Refill, Ingest!CloseBuffer, Ingest!vars, Ingest!handlers
  <2> QED BY <2>1 DEF Counted, InValidation
<1> QED BY <1>1, <1>2, <1>3 DEF Ingest!Next

\* The types of what takes telemetry in, and each validator's counter, whatever is
\* refused and wherever.
THEOREM IngestTypes == Ingest!Spec => []Ingest!TypeOK
<1>a. Ingest!IngestionAssumption
  BY InstancesAssumption
<1>1. Ingest!Init => Entries /\ Counted
  <2> SUFFICES ASSUME Ingest!Init PROVE Entries /\ Counted
    OBVIOUS
  <2>1. Entries
    BY <1>a DEF Ingest!Init, Entries, Answers, Ingest!IngestionAssumption
  <2>2. \A s : InValidation(s) = {}
    BY DEF Ingest!Init, InValidation
  <2> QED BY <2>1, <2>2, FS_EmptySet DEF Ingest!Init, Counted
<1>2. IngestInv /\ Entries /\ Counted /\ [Ingest!Next]_Ingest!vars => Entries' /\ Counted'
  BY <1>a, EntriesStep, CountedStep
<1>3. Entries /\ Counted => Ingest!TypeOK
  <2> SUFFICES ASSUME Entries, Counted PROVE Ingest!TypeOK
    OBVIOUS
  <2>1. ASSUME NEW s \in Ingest!Services
        PROVE  concurrentRequests[s] = Ingest!Cardinality({r \in Requests : pc[r] = "validate" /\ offer[r].path = s})
    <3>1. concurrentRequests[s] = Ingest!Cardinality(InValidation(s))
      BY IngestCount DEF Counted
    <3> QED BY <3>1 DEF InValidation
  <2> QED BY <2>1 DEF Entries, Answers, Ingest!TypeOK
<1> QED BY <1>1, <1>2, <1>3, IngestInvariance, PTL DEF Ingest!Spec
================================================================================
