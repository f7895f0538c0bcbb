------------------------------ MODULE PipelineProofs ------------------------------
(***************************************************************************)
(* Proofs about the batch processor and the consumer, for any events,      *)
(* streams, sizes and bounds.                                              *)
(***************************************************************************)
EXTENDS Pipeline, Integers, Sequences, FiniteSets, FiniteSetTheorems, SequenceTheorems, TLAPS


\* What counts a set in the batch processor's module counts it here.
LEMMA SameCount == \A S : Batch!Cardinality(S) = Cardinality(S)
  BY DEF Batch!Cardinality, Cardinality
-----------------------------------------------------------------------------
(* Sequences in an order.                                                  *)

Members(q) == {q[i] : i \in 1 .. Len(q)}

\* One event was accepted before another.
Before(t, e, f) == \E k, l \in 1 .. Len(t) : k < l /\ t[k] = e /\ t[l] = f

\* A sequence is in the order of t; one sequence comes before another.
Sorted(t, q)   == \A i, j \in 1 .. Len(q) : i < j => Before(t, q[i], q[j])
Ahead(t, q, r) == \A i \in 1 .. Len(q), j \in 1 .. Len(r) : Before(t, q[i], r[j])

\* A function on the first positions is a sequence.
LEMMA FunctionAsSequence ==
  ASSUME NEW S, NEW n \in Nat, NEW f \in [1 .. n -> S]
  PROVE  f \in Seq(S) /\ Len(f) = n
<1>1. f \in Seq(S)
  BY SeqDef, Zenon
<1>2. Len(f) \in Nat /\ 1 .. Len(f) = 1 .. n
  BY <1>1, LenProperties
<1> QED BY <1>1, <1>2

\* The order that a loop keeps, whatever positions it passes over.
LEMMA InOrderOf ==
  ASSUME NEW n \in Nat, NEW P \in SUBSET (1 .. n),
         NEW q \in {f \in [1 .. Cardinality(P) -> P] :
                      \A i, j \in 1 .. Cardinality(P) : i < j => f[i] < f[j]}
  PROVE  /\ IsFiniteSet(P) /\ Cardinality(P) \in Nat
         /\ q \in [1 .. Cardinality(P) -> P]
         /\ \A i, j \in 1 .. Cardinality(P) : i < j => q[i] < q[j]
         /\ \A p \in P : \E i \in 1 .. Cardinality(P) : q[i] = p
<1>1. IsFiniteSet(P) /\ Cardinality(P) \in Nat
  <2>1. IsFiniteSet(1 .. n)
    BY FS_Interval
  <2>2. IsFiniteSet(P)
    BY <2>1, FS_Subset
  <2> QED BY <2>2, FS_CardinalityType
<1>2. q \in [1 .. Cardinality(P) -> P]
      /\ \A i, j \in 1 .. Cardinality(P) : i < j => q[i] < q[j]
  OBVIOUS
<1>3. \A i, j \in 1 .. Cardinality(P) : q[i] = q[j] => i = j
  <2> SUFFICES ASSUME NEW i \in 1 .. Cardinality(P), NEW j \in 1 .. Cardinality(P), q[i] = q[j], i # j
               PROVE  FALSE
    OBVIOUS
  <2>1. q[i] \in 1 .. n /\ q[j] \in 1 .. n
    BY <1>2
  <2>2. i < j \/ j < i
    BY <1>1
  <2> QED BY <1>2, <2>1, <2>2
<1>4. q \in Injection(1 .. Cardinality(P), P)
  BY <1>2, <1>3 DEF Injection, IsInjective
<1>5. Cardinality(1 .. Cardinality(P)) = Cardinality(P)
  BY <1>1, FS_Interval
<1>6. q \in Surjection(1 .. Cardinality(P), P)
  BY <1>1, <1>4, <1>5, FS_Injection
<1> QED BY <1>1, <1>2, <1>6 DEF Surjection

\* What was accepted stays in its order when more is accepted.
LEMMA BeforeStays ==
  ASSUME NEW S, NEW t \in Seq(S), NEW e \in S
  PROVE  /\ \A x, y : Before(t, x, y) => Before(Append(t, e), x, y)
         /\ \A x \in Members(t) : Before(Append(t, e), x, e)
         /\ Members(Append(t, e)) = Members(t) \cup {e}
<1>1. /\ Len(Append(t, e)) = Len(t) + 1 /\ Len(t) \in Nat
      /\ \A i \in 1 .. Len(t) : Append(t, e)[i] = t[i]
      /\ Append(t, e)[Len(t) + 1] = e
  BY AppendProperties, LenProperties
<1>2. \A x, y : Before(t, x, y) => Before(Append(t, e), x, y)
  BY <1>1 DEF Before
<1>3. \A x \in Members(t) : Before(Append(t, e), x, e)
  <2> SUFFICES ASSUME NEW i \in 1 .. Len(t) PROVE Before(Append(t, e), t[i], e)
    BY DEF Members
  <2>1. i < Len(t) + 1 /\ i \in 1 .. Len(t) + 1 /\ Len(t) + 1 \in 1 .. Len(t) + 1
    BY <1>1
  <2> QED BY <1>1, <2>1 DEF Before
<1>4. Members(Append(t, e)) = Members(t) \cup {e}
  <2>1. 1 .. Len(t) + 1 = (1 .. Len(t)) \cup {Len(t) + 1}
    BY <1>1
  <2> QED BY <1>1, <2>1 DEF Members
<1> QED BY <1>2, <1>3, <1>4

\* What is before something else is another event, if each was accepted once.
LEMMA BeforeDiffers ==
  ASSUME NEW S, NEW t \in Seq(S), \A i, j \in 1 .. Len(t) : t[i] = t[j] => i = j,
         NEW x, NEW y, Before(t, x, y)
  PROVE  x # y /\ x \in Members(t) /\ y \in Members(t)
<1>1. PICK k, l \in 1 .. Len(t) : k < l /\ t[k] = x /\ t[l] = y
  BY DEF Before
<1>2. k # l
  BY <1>1, LenProperties
<1> QED BY <1>1, <1>2 DEF Members

-----------------------------------------------------------------------------
(* The batch processor: where an event is.                                 *)

\* What stream s accepted, t, is what Kinesis has, a, then the batch, b, then the
\* channel, c, in this order and without those that were given up, d.
InLine(s, t, a, b, c, d) ==
  /\ \A i, j \in 1 .. Len(t) : t[i] = t[j] => i = j
  /\ \A i \in 1 .. Len(t) : streamOf[t[i]] = s
  /\ Sorted(t, a) /\ Sorted(t, b) /\ Sorted(t, c)
  /\ Ahead(t, a, b) /\ Ahead(t, a, c) /\ Ahead(t, b, c)
  /\ Members(a) \cup Members(b) \cup Members(c) \subseteq Members(t)
  /\ Members(t) \subseteq Members(a) \cup Members(b) \cup Members(c) \cup d
  /\ d \cap (Members(a) \cup Members(b) \cup Members(c)) = {}

\* What is said of the five is said of sequences of publications.
Five(t, a, b, c) ==
  /\ t \in Seq(Publications) /\ a \in Seq(Publications)
  /\ b \in Seq(Publications) /\ c \in Seq(Publications)

\* PublishAsync puts an event at the end.
LEMMA LineGrows ==
  ASSUME NEW s, NEW t, NEW a, NEW b, NEW c, NEW d, Five(t, a, b, c), InLine(s, t, a, b, c, d),
         NEW e \in Publications, streamOf[e] = s, e \notin Members(t), e \notin d
  PROVE  InLine(s, Append(t, e), a, b, Append(c, e), d)
<1> DEFINE u == Append(t, e)
           r == Append(c, e)
<1>1. /\ Len(u) = Len(t) + 1 /\ Len(t) \in Nat /\ \A i \in 1 .. Len(t) : u[i] = t[i]
      /\ u[Len(t) + 1] = e
  BY AppendProperties, LenProperties DEF Five
<1>2. /\ Len(r) = Len(c) + 1 /\ Len(c) \in Nat /\ \A i \in 1 .. Len(c) : r[i] = c[i]
      /\ r[Len(c) + 1] = e
  BY AppendProperties, LenProperties DEF Five
<1>3. /\ \A x, y : Before(t, x, y) => Before(u, x, y)
      /\ \A x \in Members(t) : Before(u, x, e)
      /\ Members(u) = Members(t) \cup {e}
      /\ Members(r) = Members(c) \cup {e}
  BY BeforeStays DEF Five
<1>4. /\ \A i \in 1 .. Len(a) : a[i] \in Members(t)
      /\ \A i \in 1 .. Len(b) : b[i] \in Members(t)
      /\ \A i \in 1 .. Len(c) : c[i] \in Members(t)
      /\ \A i \in 1 .. Len(t) : t[i] # e
  BY DEF InLine, Members
<1>5. \A i, j \in 1 .. Len(u) : u[i] = u[j] => i = j
  BY <1>1, <1>4 DEF InLine
<1>6. \A i \in 1 .. Len(u) : streamOf[u[i]] = s
  BY <1>1 DEF InLine
<1>7. Sorted(u, a) /\ Sorted(u, b) /\ Ahead(u, a, b)
  BY <1>3 DEF InLine, Sorted, Ahead
<1>8. Sorted(u, r)
  <2> SUFFICES ASSUME NEW i \in 1 .. Len(r), NEW j \in 1 .. Len(r), i < j PROVE Before(u, r[i], r[j])
    BY DEF Sorted
  <2>1. i \in 1 .. Len(c)
    BY <1>2
  <2>2. CASE j = Len(c) + 1
    BY <1>2, <1>3, <1>4, <2>1, <2>2
  <2>3. CASE j # Len(c) + 1
    <3>1. j \in 1 .. Len(c)
      BY <1>2, <2>3
    <3> QED BY <1>2, <1>3, <2>1, <3>1 DEF InLine, Sorted
  <2> QED BY <2>2, <2>3
<1>9. Ahead(u, a, r)
  <2> SUFFICES ASSUME NEW i \in 1 .. Len(a), NEW j \in 1 .. Len(r) PROVE Before(u, a[i], r[j])
    BY DEF Ahead
  <2>1. CASE j = Len(c) + 1
    BY <1>2, <1>3, <1>4, <2>1
  <2>2. CASE j # Len(c) + 1
    <3>1. j \in 1 .. Len(c)
      BY <1>2, <2>2
    <3> QED BY <1>2, <1>3, <3>1 DEF InLine, Ahead
  <2> QED BY <2>1, <2>2
<1>10. Ahead(u, b, r)
  <2> SUFFICES ASSUME NEW i \in 1 .. Len(b), NEW j \in 1 .. Len(r) PROVE Before(u, b[i], r[j])
    BY DEF Ahead
  <2>1. CASE j = Len(c) + 1
    BY <1>2, <1>3, <1>4, <2>1
  <2>2. CASE j # Len(c) + 1
    <3>1. j \in 1 .. Len(c)
      BY <1>2, <2>2
    <3> QED BY <1>2, <1>3, <3>1 DEF InLine, Ahead
  <2> QED BY <2>1, <2>2
<1>11. /\ Members(a) \cup Members(b) \cup Members(r) \subseteq Members(u)
       /\ Members(u) \subseteq Members(a) \cup Members(b) \cup Members(r) \cup d
       /\ d \cap (Members(a) \cup Members(b) \cup Members(r)) = {}
  BY <1>3 DEF InLine
<1> QED BY <1>5, <1>6, <1>7, <1>8, <1>9, <1>10, <1>11 DEF InLine

\* The first event of the channel becomes the last of the batch.
LEMMA LineMoves ==
  ASSUME NEW s, NEW t, NEW a, NEW b, NEW c, NEW d, Five(t, a, b, c), InLine(s, t, a, b, c, d),
         c # <<>>
  PROVE  InLine(s, t, a, Append(b, Head(c)), Tail(c), d)
<1> DEFINE e == Head(c)
           q == Append(b, e)
           r == Tail(c)
<1>1. /\ e = c[1] /\ Len(c) \in Nat /\ Len(c) >= 1
      /\ Len(r) = Len(c) - 1 /\ \A i \in 1 .. Len(r) : r[i] = c[i + 1]
  BY HeadTailProperties, EmptySeq, LenProperties DEF Five
<1>2. /\ Len(q) = Len(b) + 1 /\ Len(b) \in Nat /\ \A i \in 1 .. Len(b) : q[i] = b[i]
      /\ q[Len(b) + 1] = e
  BY <1>1, AppendProperties, LenProperties, HeadTailProperties DEF Five
<1>3. Sorted(t, q)
  <2> SUFFICES ASSUME NEW i \in 1 .. Len(q), NEW j \in 1 .. Len(q), i < j PROVE Before(t, q[i], q[j])
    BY DEF Sorted
  <2>1. i \in 1 .. Len(b)
    BY <1>2
  <2>2. CASE j = Len(b) + 1
    BY <1>1, <1>2, <2>1, <2>2 DEF InLine, Ahead
  <2>3. CASE j # Len(b) + 1
    <3>1. j \in 1 .. Len(b)
      BY <1>2, <2>3
    <3> QED BY <1>2, <2>1, <3>1 DEF InLine, Sorted
  <2> QED BY <2>2, <2>3
<1>4. Sorted(t, r)
  BY <1>1 DEF InLine, Sorted
<1>5. Ahead(t, a, q)
  <2> SUFFICES ASSUME NEW i \in 1 .. Len(a), NEW j \in 1 .. Len(q) PROVE Before(t, a[i], q[j])
    BY DEF Ahead
  <2>1. CASE j = Len(b) + 1
    BY <1>1, <1>2, <2>1 DEF InLine, Ahead
  <2>2. CASE j # Len(b) + 1
    <3>1. j \in 1 .. Len(b)
      BY <1>2, <2>2
    <3> QED BY <1>2, <3>1 DEF InLine, Ahead
  <2> QED BY <2>1, <2>2
<1>6. Ahead(t, a, r)
  BY <1>1 DEF InLine, Ahead
<1>7. Ahead(t, q, r)
  <2> SUFFICES ASSUME NEW i \in 1 .. Len(q), NEW j \in 1 .. Len(r) PROVE Before(t, q[i], r[j])
    BY DEF Ahead
  <2>1. j + 1 \in 1 .. Len(c) /\ 1 < j + 1 /\ 1 \in 1 .. Len(c) /\ r[j] = c[j + 1]
    BY <1>1
  <2>2. CASE i = Len(b) + 1
    BY <1>1, <1>2, <2>1, <2>2 DEF InLine, Sorted
  <2>3. CASE i # Len(b) + 1
    <3>1. i \in 1 .. Len(b)
      BY <1>2, <2>3
    <3> QED BY <1>2, <2>1, <3>1 DEF InLine, Ahead
  <2> QED BY <2>2, <2>3
<1>8. Members(q) = Members(b) \cup {e}
  BY BeforeStays, <1>1, HeadTailProperties DEF Five
<1>9. Members(c) = Members(r) \cup {e}
  <2>1. Members(c) \subseteq Members(r) \cup {e}
    <3> SUFFICES ASSUME NEW i \in 1 .. Len(c), c[i] # e PROVE c[i] \in Members(r)
      BY DEF Members
    <3>1. i - 1 \in 1 .. Len(r) /\ r[i - 1] = c[i]
      BY <1>1
    <3> QED BY <3>1 DEF Members
  <2>2. Members(r) \cup {e} \subseteq Members(c)
    <3>1. e \in Members(c)
      BY <1>1 DEF Members
    <3>2. \A i \in 1 .. Len(r) : r[i] = c[i + 1] /\ i + 1 \in 1 .. Len(c)
      BY <1>1
    <3> QED BY <3>1, <3>2 DEF Members
  <2> QED BY <2>1, <2>2
<1>10. /\ Members(a) \cup Members(q) \cup Members(r) \subseteq Members(t)
       /\ Members(t) \subseteq Members(a) \cup Members(q) \cup Members(r) \cup d
       /\ d \cap (Members(a) \cup Members(q) \cup Members(r)) = {}
  BY <1>8, <1>9 DEF InLine
<1> QED BY <1>3, <1>4, <1>5, <1>6, <1>7, <1>10 DEF InLine

\* In one line every event stands once.
LEMMA LineDistinct ==
  ASSUME NEW s, NEW t, NEW a, NEW b, NEW c, NEW d, Five(t, a, b, c), InLine(s, t, a, b, c, d)
  PROVE  /\ \A i \in 1 .. Len(b), j \in 1 .. Len(b) : i # j => b[i] # b[j]
         /\ \A i \in 1 .. Len(b), j \in 1 .. Len(c) : b[i] # c[j]
         /\ \A i \in 1 .. Len(a), j \in 1 .. Len(b) : a[i] # b[j]
         /\ \A i \in 1 .. Len(a), j \in 1 .. Len(c) : a[i] # c[j]
<1>1. \A x, y : Before(t, x, y) => x # y
  BY BeforeDiffers DEF InLine, Five
<1>2. \A i \in 1 .. Len(b), j \in 1 .. Len(b) : i # j => b[i] # b[j]
  <2> SUFFICES ASSUME NEW i \in 1 .. Len(b), NEW j \in 1 .. Len(b), i # j PROVE b[i] # b[j]
    OBVIOUS
  <2>1. i < j \/ j < i
    OBVIOUS
  <2> QED BY <1>1, <2>1 DEF InLine, Sorted
<1> QED BY <1>1, <1>2 DEF InLine, Ahead

\* The elements at chosen positions, and the others.
Chosen(b, P, q)  == [i \in 1 .. Cardinality(P) |-> b[q[i]]]
PassedOver(b, P) == {b[i] : i \in (1 .. Len(b)) \ P}

\* PutRecords was acknowledged: some of the batch is at Kinesis, in its order, and
\* the rest is given up.
LEMMA LineSends ==
  ASSUME NEW s, NEW t, NEW a, NEW b, NEW c, NEW d, Five(t, a, b, c), InLine(s, t, a, b, c, d),
         NEW P \in SUBSET (1 .. Len(b)),
         NEW q \in {f \in [1 .. Cardinality(P) -> P] :
                      \A i, j \in 1 .. Cardinality(P) : i < j => f[i] < f[j]}
  PROVE  /\ a \o Chosen(b, P, q) \in Seq(Publications)
         /\ InLine(s, t, a \o Chosen(b, P, q), <<>>, c, d \cup PassedOver(b, P))
<1> USE DEF Chosen, PassedOver
<1> DEFINE n == Cardinality(P)
           r == Chosen(b, P, q)
           u == a \o r
           w == PassedOver(b, P)
<1>1. /\ n \in Nat /\ \A i \in 1 .. n : q[i] \in P /\ q[i] \in 1 .. Len(b)
      /\ \A i, j \in 1 .. n : i < j => q[i] < q[j]
      /\ \A p \in P : \E i \in 1 .. n : q[i] = p
  <2>1. Len(b) \in Nat
    BY LenProperties DEF Five
  <2> QED BY <2>1, InOrderOf
<1>2. r \in Seq(Publications) /\ Len(r) = n /\ \A i \in 1 .. n : r[i] = b[q[i]]
  <2>1. \A i \in 1 .. n : b[q[i]] \in Publications
    BY <1>1, ElementOfSeq DEF Five
  <2>2. r \in [1 .. n -> Publications]
    BY <2>1
  <2> QED BY <1>1, <2>2, FunctionAsSequence
<1> HIDE DEF n, r
<1>3. /\ u \in Seq(Publications) /\ Len(u) = Len(a) + n /\ Len(a) \in Nat
      /\ \A i \in 1 .. Len(u) : u[i] = IF i <= Len(a) THEN a[i] ELSE r[i - Len(a)]
  <2>1. a \in Seq(Publications) /\ Len(a) \in Nat
    BY LenProperties DEF Five
  <2>2. /\ u \in Seq(Publications) /\ Len(u) = Len(a) + Len(r)
        /\ \A i \in 1 .. Len(a) + Len(r) : u[i] = IF i <= Len(a) THEN a[i] ELSE r[i - Len(a)]
    BY <1>2, <2>1, ConcatProperties, Zenon
  <2> QED BY <1>2, <2>1, <2>2
<1>4. \A i \in 1 .. Len(u) :
        \/ i \in 1 .. Len(a) /\ u[i] = a[i]
        \/ i - Len(a) \in 1 .. n /\ i > Len(a) /\ u[i] = b[q[i - Len(a)]]
  BY <1>1, <1>2, <1>3
<1> HIDE DEF u
<1>5. Sorted(t, u)
  <2> SUFFICES ASSUME NEW i \in 1 .. Len(u), NEW j \in 1 .. Len(u), i < j PROVE Before(t, u[i], u[j])
    BY DEF Sorted
  <2>1. CASE i \in 1 .. Len(a) /\ u[i] = a[i] /\ j \in 1 .. Len(a) /\ u[j] = a[j]
    BY <2>1 DEF InLine, Sorted
  <2>2. CASE i \in 1 .. Len(a) /\ u[i] = a[i] /\ j - Len(a) \in 1 .. n /\ u[j] = b[q[j - Len(a)]]
    BY <1>1, <2>2 DEF InLine, Ahead
  <2>3. CASE /\ i - Len(a) \in 1 .. n /\ u[i] = b[q[i - Len(a)]]
             /\ j - Len(a) \in 1 .. n /\ u[j] = b[q[j - Len(a)]]
    <3>1. i - Len(a) < j - Len(a)
      BY <1>3
    <3>2. q[i - Len(a)] < q[j - Len(a)]
      BY <1>1, <2>3, <3>1
    <3> QED BY <1>1, <2>3, <3>2 DEF InLine, Sorted
  <2> QED BY <1>3, <1>4, <2>1, <2>2, <2>3
<1>6. Ahead(t, u, c)
  BY <1>1, <1>4 DEF InLine, Ahead
<1>7. Len(<<>>) = 0 /\ Members(<<>>) = {}
  BY DEF Members
<1>8. Sorted(t, <<>>) /\ Ahead(t, u, <<>>) /\ Ahead(t, <<>>, c)
  BY <1>7 DEF Sorted, Ahead
<1>9. Members(u) = Members(a) \cup {b[i] : i \in P}
  <2>1. Members(u) \subseteq Members(a) \cup {b[i] : i \in P}
    BY <1>1, <1>4 DEF Members
  <2>2. Members(a) \subseteq Members(u)
    <3>1. \A i \in 1 .. Len(a) : i \in 1 .. Len(u) /\ u[i] = a[i]
      BY <1>1, <1>3
    <3> QED BY <3>1 DEF Members
  <2>3. ASSUME NEW p \in P PROVE b[p] \in Members(u)
    <3>1. PICK i \in 1 .. n : q[i] = p
      BY <1>1
    <3>2. i + Len(a) \in 1 .. Len(u) /\ u[i + Len(a)] = r[i]
      BY <1>1, <1>3
    <3> QED BY <1>2, <3>1, <3>2 DEF Members
  <2> QED BY <2>1, <2>2, <2>3
<1>10. Members(b) = {b[i] : i \in P} \cup w
  BY DEF Members
<1>11. w \cap (Members(u) \cup Members(c)) = {}
  <2> SUFFICES ASSUME NEW k \in (1 .. Len(b)) \ P PROVE b[k] \notin Members(u) \cup Members(c)
    OBVIOUS
  <2>1. b[k] \notin Members(a) /\ b[k] \notin Members(c)
    BY LineDistinct DEF Members
  <2>2. \A i \in P : b[i] # b[k]
    BY LineDistinct
  <2> QED BY <1>9, <2>1, <2>2
<1> HIDE DEF w
<1>12. /\ Members(u) \cup Members(<<>>) \cup Members(c) \subseteq Members(t)
       /\ Members(t) \subseteq Members(u) \cup Members(<<>>) \cup Members(c) \cup (d \cup w)
       /\ (d \cup w) \cap (Members(u) \cup Members(<<>>) \cup Members(c)) = {}
  BY <1>7, <1>9, <1>10, <1>11 DEF InLine
<1>13. InLine(s, t, u, <<>>, c, d \cup w)
  BY <1>5, <1>6, <1>8, <1>12 DEF InLine
<1> QED BY <1>3, <1>13 DEF u, r, n, w

\* The batch is given up.
LEMMA LineGivesUp ==
  ASSUME NEW s, NEW t, NEW a, NEW b, NEW c, NEW d, Five(t, a, b, c), InLine(s, t, a, b, c, d)
  PROVE  InLine(s, t, a, <<>>, c, d \cup Members(b))
<1>1. Len(<<>>) = 0 /\ Members(<<>>) = {}
  BY DEF Members
<1>2. Members(b) \cap (Members(a) \cup Members(c)) = {}
  BY LineDistinct DEF Members
<1>3. Sorted(t, <<>>) /\ Ahead(t, a, <<>>) /\ Ahead(t, <<>>, c)
  BY <1>1 DEF Sorted, Ahead
<1> QED BY <1>1, <1>2, <1>3 DEF InLine

\* Stop lets go of what is left in the channels: of the stream's own all, and of
\* other streams what it likes.
LEMMA LineCloses ==
  ASSUME NEW s, NEW t, NEW a, NEW b, NEW c, NEW d, Five(t, a, b, c), InLine(s, t, a, b, c, d),
         NEW w, Members(c) \subseteq w, \A e \in w : e \in Members(c) \/ streamOf[e] # s
  PROVE  InLine(s, t, a, b, <<>>, d \cup w)
<1>1. Len(<<>>) = 0 /\ Members(<<>>) = {}
  BY DEF Members
<1>2. Members(c) \cap (Members(a) \cup Members(b)) = {}
  BY LineDistinct DEF Members
<1>3. Sorted(t, <<>>) /\ Ahead(t, a, <<>>) /\ Ahead(t, b, <<>>)
  BY <1>1 DEF Sorted, Ahead
<1>4. \A e \in Members(t) : streamOf[e] = s
  BY DEF InLine, Members
<1>5. w \cap (Members(a) \cup Members(b)) = {}
  BY <1>2, <1>4 DEF InLine
<1> QED BY <1>1, <1>3, <1>5 DEF InLine

\* What another stream gives up makes no difference to this one.
LEMMA LineElsewhere ==
  ASSUME NEW s, NEW t, NEW a, NEW b, NEW c, NEW d, InLine(s, t, a, b, c, d),
         NEW w, \A e \in w : streamOf[e] # s
  PROVE  InLine(s, t, a, b, c, d \cup w)
<1>1. \A e \in Members(t) : streamOf[e] = s
  BY DEF InLine, Members
<1> QED BY <1>1 DEF InLine

-----------------------------------------------------------------------------
(* The batch processor: its inductive invariant.                           *)

\* The sequences of a stream, as functions on the streams.
SequenceTypes ==
  /\ taken \in [Outlets -> Seq(Publications)] /\ delivered \in [Outlets -> Seq(Publications)]
  /\ eventBuffer \in [Outlets -> Seq(Publications)]
  /\ batchChannels \in [Outlets -> Seq(Publications)]

\* Who holds bp.mu tells whether the processor runs; only Start has streams left
\* to set up, and those have no goroutine and no channel yet.
MutexInv ==
  /\ mu = "start" => ~isRunning
  /\ mu = "stop" => isRunning
  /\ toStart # {} => mu = "start"
  /\ \A s \in toStart : goroutine[s] = "off" /\ s \notin channels

\* A goroutine that ended has left no batch, a stream without a channel has no
\* event in it, and a batch that is full is being flushed.
GoroutineInv ==
  \A s \in Outlets :
    /\ goroutine[s] = "off" => eventBuffer[s] = <<>>
    /\ s \notin channels => batchChannels[s] = <<>>
    /\ goroutine[s] \in {"off", "spawned", "running"} => Len(eventBuffer[s]) < batchSize

\* Every stream's events are in line, and what was given up had been accepted.
LinesInv ==
  /\ \A s \in Outlets :
       InLine(s, taken[s], delivered[s], eventBuffer[s], batchChannels[s], dropped)
  /\ \A e \in dropped : streamOf[e] \in Outlets /\ e \in Members(taken[streamOf[e]])

BatchInv ==
  Batch!TypeOK /\ SequenceTypes /\ MutexInv /\ GoroutineInv /\ Batch!CleanStop /\ LinesInv

\* What the proofs use of the constants.
LEMMA BatchConstants ==
  /\ streamOf \in [Publications -> Outlets]
  /\ batchSize \in Nat \ {0} /\ MaxRetryAttempts \in Nat \ {0}
BY PipelineAssumption DEF Batch!ProcessorAssumption

\* The sequences of one stream.
LEMMA FiveOf ==
  ASSUME SequenceTypes, NEW s \in Outlets
  PROVE  Five(taken[s], delivered[s], eventBuffer[s], batchChannels[s])
BY DEF SequenceTypes, Five

\* At the start everything is empty.
LEMMA BatchInit == Batch!Init => BatchInv
<1> SUFFICES ASSUME Batch!Init PROVE BatchInv
  OBVIOUS
<1>1. /\ <<>> \in Seq(Publications) /\ Len(<<>>) = 0 /\ Members(<<>>) = {}
  BY EmptySeq DEF Members
<1>2. /\ mu = "free" /\ isRunning = FALSE /\ shutdownCh = FALSE /\ toStart = {} /\ channels = {}
      /\ ctxDone = FALSE /\ crashed = FALSE /\ dropped = {}
      /\ taken = [s \in Outlets |-> <<>>] /\ delivered = [s \in Outlets |-> <<>>]
      /\ eventBuffer = [s \in Outlets |-> <<>>] /\ batchChannels = [s \in Outlets |-> <<>>]
      /\ goroutine = [s \in Outlets |-> "off"] /\ attempt = [s \in Outlets |-> 0]
  BY DEF Batch!Init
<1>3. SequenceTypes
  BY <1>1, <1>2 DEF SequenceTypes
<1>4. Batch!TypeOK
  <2>1. /\ attempt \in [Outlets -> 0 .. MaxRetryAttempts - 1]
        /\ \A s \in Outlets : eventBuffer[s] \in Seq(Publications) /\ Len(eventBuffer[s]) <= batchSize
    BY <1>1, <1>2, BatchConstants
  <2>2. goroutine \in [Outlets -> Batch!PCs]
    BY <1>2 DEF Batch!PCs
  <2> QED BY <1>2, <1>3, <2>1, <2>2 DEF Batch!TypeOK, SequenceTypes
<1>5. \A s \in Outlets : InLine(s, <<>>, <<>>, <<>>, <<>>, {})
  BY <1>1 DEF InLine, Sorted, Ahead
<1>6. LinesInv
  BY <1>2, <1>5 DEF LinesInv
<1> QED BY <1>1, <1>2, <1>3, <1>4, <1>6, BatchConstants DEF BatchInv, MutexInv, GoroutineInv, Batch!CleanStop

\* Start and Stop, but for the setting up of streams and the closing of channels,
\* touch no event.
LEMMA LifeKeeps ==
  ASSUME BatchInv, Batch!Start \/ Batch!EndStart \/ Batch!Stop \/ Batch!StopTimesOut \/ Batch!Cancel
  PROVE  BatchInv'
<1>1. UNCHANGED <<channels, batchChannels, goroutine, eventBuffer, attempt, taken, delivered, dropped>>
  BY DEF Batch!Start, Batch!EndStart, Batch!Stop, Batch!StopTimesOut, Batch!Cancel, Batch!historyVars,
         Batch!lifeVars
<1>2. SequenceTypes' /\ GoroutineInv' /\ LinesInv'
  BY <1>1 DEF BatchInv, SequenceTypes, GoroutineInv, LinesInv
<1>3. Batch!TypeOK' /\ MutexInv' /\ Batch!CleanStop'
  <2>1. CASE Batch!Start
    <3>1. /\ ~isRunning /\ mu = "free" /\ mu' = "start" /\ toStart' = Outlets
          /\ UNCHANGED <<isRunning, shutdownCh, ctxDone, crashed>>
      BY <2>1 DEF Batch!Start
    <3>2. channels = {} /\ \A s \in Outlets : goroutine[s] = "off"
      BY <3>1 DEF BatchInv, Batch!CleanStop
    <3> QED BY <1>1, <3>1, <3>2 DEF BatchInv, Batch!TypeOK, MutexInv, Batch!CleanStop
  <2>2. CASE Batch!EndStart
    BY <1>1, <2>2 DEF Batch!EndStart, BatchInv, Batch!TypeOK, MutexInv, Batch!CleanStop
  <2>3. CASE Batch!Stop
    BY <1>1, <2>3 DEF Batch!Stop, BatchInv, Batch!TypeOK, MutexInv, Batch!CleanStop
  <2>4. CASE Batch!StopTimesOut
    BY <1>1, <2>4 DEF Batch!StopTimesOut, BatchInv, Batch!TypeOK, MutexInv, Batch!CleanStop
  <2>5. CASE Batch!Cancel
    BY <1>1, <2>5 DEF Batch!Cancel, Batch!lifeVars, BatchInv, Batch!TypeOK, MutexInv, Batch!CleanStop
  <2> QED BY <2>1, <2>2, <2>3, <2>4, <2>5
<1> QED BY <1>2, <1>3 DEF BatchInv

\* Setting up a stream makes an empty channel where there was none.
LEMMA StartStreamKeeps ==
  ASSUME BatchInv, NEW s \in Outlets, Batch!StartStream(s)
  PROVE  BatchInv'
<1>1. /\ s \in toStart /\ toStart' = toStart \ {s} /\ channels' = channels \cup {s}
      /\ batchChannels' = [batchChannels EXCEPT ![s] = <<>>]
      /\ goroutine' = [goroutine EXCEPT ![s] = "spawned"]
      /\ UNCHANGED <<mu, isRunning, shutdownCh, eventBuffer, attempt, ctxDone, crashed,
                     taken, delivered, dropped>>
  BY DEF Batch!StartStream, Batch!historyVars
<1>2. mu = "start" /\ goroutine[s] = "off" /\ s \notin channels /\ ~isRunning
  BY <1>1 DEF BatchInv, MutexInv
<1>3. batchChannels[s] = <<>> /\ eventBuffer[s] = <<>>
  BY <1>2 DEF BatchInv, GoroutineInv
<1>4. batchChannels' = batchChannels
  BY <1>1, <1>3 DEF BatchInv, SequenceTypes
<1>5. goroutine' \in [Outlets -> Batch!PCs] /\ goroutine'[s] = "spawned"
      /\ \A u \in Outlets : u # s => goroutine'[u] = goroutine[u]
  BY <1>1 DEF BatchInv, Batch!TypeOK, Batch!PCs
<1>6. SequenceTypes' /\ LinesInv'
  BY <1>1, <1>4 DEF BatchInv, SequenceTypes, LinesInv
<1>7. Batch!TypeOK'
  BY <1>1, <1>4, <1>5 DEF BatchInv, Batch!TypeOK
<1>8. MutexInv' /\ Batch!CleanStop'
  BY <1>1, <1>2, <1>5 DEF BatchInv, MutexInv, Batch!CleanStop, Batch!TypeOK
<1>9. GoroutineInv'
  <2>1. Len(eventBuffer[s]) < batchSize
    BY <1>2 DEF BatchInv, GoroutineInv
  <2> QED BY <1>1, <1>4, <1>5, <2>1 DEF BatchInv, GoroutineInv
<1> QED BY <1>6, <1>7, <1>8, <1>9 DEF BatchInv

\* PublishAsync puts an event that was not accepted before at the end of its line.
LEMMA PublishKeeps ==
  ASSUME BatchInv, NEW e \in Publications, Batch!PublishAsync(e)
  PROVE  BatchInv'
<1> DEFINE s == streamOf[e]
<1>1. /\ s \in Outlets /\ s \in channels
      /\ batchChannels' = [batchChannels EXCEPT ![s] = Append(@, e)]
      /\ taken' = [taken EXCEPT ![s] = Append(@, e)]
      /\ UNCHANGED <<mu, isRunning, shutdownCh, toStart, channels, goroutine, eventBuffer, attempt,
                     ctxDone, crashed, delivered, dropped>>
  BY BatchConstants DEF Batch!PublishAsync, Batch!lifeVars
<1>2. ~ \E i \in 1 .. Len(taken[s]) : taken[s][i] = e
  BY DEF Batch!PublishAsync, Batch!Contains
<1>3. e \notin Members(taken[s]) /\ e \notin dropped
  BY <1>2 DEF Members, BatchInv, LinesInv
<1>4. Five(taken[s], delivered[s], eventBuffer[s], batchChannels[s])
  BY <1>1, FiveOf DEF BatchInv
<1>5. /\ Append(taken[s], e) \in Seq(Publications) /\ Append(batchChannels[s], e) \in Seq(Publications)
  BY <1>4, AppendProperties DEF Five
<1>6. /\ taken'[s] = Append(taken[s], e) /\ batchChannels'[s] = Append(batchChannels[s], e)
      /\ \A u \in Outlets : u # s => taken'[u] = taken[u] /\ batchChannels'[u] = batchChannels[u]
  BY <1>1 DEF BatchInv, SequenceTypes
<1>7. SequenceTypes'
  BY <1>1, <1>5 DEF BatchInv, SequenceTypes
<1>8. Batch!TypeOK'
  BY <1>1, <1>7 DEF BatchInv, Batch!TypeOK, SequenceTypes
<1>9. MutexInv' /\ Batch!CleanStop' /\ GoroutineInv'
  BY <1>1, <1>6 DEF BatchInv, MutexInv, Batch!CleanStop, GoroutineInv
<1>10. ASSUME NEW u \in Outlets
       PROVE  InLine(u, taken'[u], delivered'[u], eventBuffer'[u], batchChannels'[u], dropped')
  <2>1. InLine(u, taken[u], delivered[u], eventBuffer[u], batchChannels[u], dropped)
    BY DEF BatchInv, LinesInv
  <2>2. CASE u = s
    BY <1>1, <1>3, <1>4, <1>6, <2>1, <2>2, LineGrows
  <2>3. CASE u # s
    BY <1>1, <1>6, <2>1, <2>3
  <2> QED BY <2>2, <2>3
<1>11. \A x \in dropped' : streamOf[x] \in Outlets /\ x \in Members(taken'[streamOf[x]])
  <2>1. Members(Append(taken[s], e)) = Members(taken[s]) \cup {e}
    BY <1>4, BeforeStays DEF Five
  <2> QED BY <1>1, <1>6, <2>1 DEF BatchInv, LinesInv
<1> QED BY <1>7, <1>8, <1>9, <1>10, <1>11 DEF BatchInv, LinesInv

\* The goroutine of a stream that is not off may do to its own sequences what it
\* likes, if its events stay in line and what it gives up was its own.
LEMMA GoroutineKeeps ==
  ASSUME BatchInv, NEW s \in Outlets, goroutine[s] # "off",
         UNCHANGED <<mu, isRunning, shutdownCh, toStart, channels, ctxDone, taken>>,
         crashed' \in BOOLEAN, goroutine' \in [Outlets -> Batch!PCs],
         attempt' \in [Outlets -> 0 .. MaxRetryAttempts - 1], SequenceTypes',
         \A u \in Outlets : u # s =>
           /\ goroutine'[u] = goroutine[u] /\ delivered'[u] = delivered[u]
           /\ eventBuffer'[u] = eventBuffer[u] /\ batchChannels'[u] = batchChannels[u],
         NEW w, w \subseteq Members(taken[s]), dropped' = dropped \cup w,
         InLine(s, taken[s], delivered'[s], eventBuffer'[s], batchChannels'[s], dropped'),
         goroutine'[s] = "off" => eventBuffer'[s] = <<>>,
         s \notin channels => batchChannels'[s] = <<>>,
         Len(eventBuffer'[s]) <= batchSize,
         goroutine'[s] \in {"off", "spawned", "running"} => Len(eventBuffer'[s]) < batchSize
  PROVE  BatchInv'
<1>1. \A e \in Members(taken[s]) : e \in Publications /\ streamOf[e] = s
  <2>1. \A i \in 1 .. Len(taken[s]) : taken[s][i] \in Publications
    BY ElementOfSeq DEF BatchInv, SequenceTypes
  <2>2. \A i \in 1 .. Len(taken[s]) : streamOf[taken[s][i]] = s
    BY DEF BatchInv, LinesInv, InLine
  <2> QED BY <2>1, <2>2 DEF Members
<1>2. Batch!TypeOK'
  <2>1. \A u \in Outlets : eventBuffer'[u] \in Seq(Publications) /\ Len(eventBuffer'[u]) <= batchSize
    BY DEF BatchInv, Batch!TypeOK, SequenceTypes
  <2>2. dropped' \subseteq Publications
    BY <1>1 DEF BatchInv, Batch!TypeOK
  <2> QED BY <2>1, <2>2 DEF BatchInv, Batch!TypeOK, SequenceTypes
<1>3. MutexInv' /\ Batch!CleanStop'
  BY DEF BatchInv, MutexInv, Batch!CleanStop, Batch!TypeOK
<1>4. GoroutineInv'
  BY DEF BatchInv, GoroutineInv
<1>5. ASSUME NEW u \in Outlets
      PROVE  InLine(u, taken'[u], delivered'[u], eventBuffer'[u], batchChannels'[u], dropped')
  <2>1. CASE u = s
    BY <2>1
  <2>2. CASE u # s
    <3>1. InLine(u, taken[u], delivered[u], eventBuffer[u], batchChannels[u], dropped)
      BY DEF BatchInv, LinesInv
    <3>2. \A e \in w : streamOf[e] # u
      BY <1>1, <2>2
    <3>3. InLine(u, taken[u], delivered[u], eventBuffer[u], batchChannels[u], dropped \cup w)
      BY <3>1, <3>2, LineElsewhere
    <3> QED BY <2>2, <3>3
  <2> QED BY <2>1, <2>2
<1>6. \A e \in dropped' : streamOf[e] \in Outlets /\ e \in Members(taken'[streamOf[e]])
  BY <1>1 DEF BatchInv, LinesInv
<1> QED BY <1>2, <1>3, <1>4, <1>5, <1>6 DEF BatchInv, LinesInv

\* The facts about the goroutine of one stream.
LEMMA GoroutineFacts ==
  ASSUME BatchInv, NEW s \in Outlets
  PROVE  /\ Five(taken[s], delivered[s], eventBuffer[s], batchChannels[s])
         /\ InLine(s, taken[s], delivered[s], eventBuffer[s], batchChannels[s], dropped)
         /\ delivered[s] \in Seq(Publications) /\ eventBuffer[s] \in Seq(Publications)
         /\ batchChannels[s] \in Seq(Publications)
         /\ <<>> \in Seq(Publications) /\ Len(<<>>) = 0 /\ dropped = dropped \cup {}
         /\ Len(eventBuffer[s]) \in Nat /\ Len(eventBuffer[s]) <= batchSize
         /\ attempt \in [Outlets -> 0 .. MaxRetryAttempts - 1] /\ 0 \in 0 .. MaxRetryAttempts - 1
         /\ s \notin channels => batchChannels[s] = <<>>
         /\ crashed \in BOOLEAN /\ goroutine \in [Outlets -> Batch!PCs] /\ SequenceTypes
<1>1. Five(taken[s], delivered[s], eventBuffer[s], batchChannels[s])
  BY FiveOf DEF BatchInv
<1>2. InLine(s, taken[s], delivered[s], eventBuffer[s], batchChannels[s], dropped)
  BY DEF BatchInv, LinesInv
<1>3. /\ <<>> \in Seq(Publications) /\ Len(<<>>) = 0
      /\ Len(eventBuffer[s]) \in Nat /\ Len(eventBuffer[s]) <= batchSize
  BY EmptySeq, LenProperties DEF BatchInv, Batch!TypeOK
<1>4. /\ attempt \in [Outlets -> 0 .. MaxRetryAttempts - 1] /\ 0 \in 0 .. MaxRetryAttempts - 1
      /\ goroutine \in [Outlets -> Batch!PCs] /\ crashed \in BOOLEAN
  BY BatchConstants DEF BatchInv, Batch!TypeOK
<1>5. s \notin channels => batchChannels[s] = <<>>
  BY DEF BatchInv, GoroutineInv
<1> QED BY <1>1, <1>2, <1>3, <1>4, <1>5 DEF BatchInv, SequenceTypes, Five

\* Moving the goroutine of one stream to a label it has.
LEMMA Going ==
  ASSUME goroutine \in [Outlets -> Batch!PCs], NEW s \in Outlets,
         NEW label \in Batch!PCs, goroutine' = [goroutine EXCEPT ![s] = label]
  PROVE  /\ goroutine' \in [Outlets -> Batch!PCs] /\ goroutine'[s] = label
         /\ \A u \in Outlets : u # s => goroutine'[u] = goroutine[u]
OBVIOUS

\* The steps that move the goroutine and no event.
LEMMA MoveKeeps ==
  ASSUME BatchInv, NEW s \in Outlets, Batch!ReadChannel(s) \/ Batch!Tick(s) \/ Batch!Leave(s)
  PROVE  BatchInv'
<1>1. /\ goroutine[s] \in {"spawned", "running"} /\ crashed' \in BOOLEAN
      /\ UNCHANGED <<mu, isRunning, shutdownCh, toStart, channels, ctxDone, taken, delivered, dropped,
                     batchChannels, eventBuffer, attempt>>
      /\ \E label \in {"running", "flushing", "off", "final"} :
           /\ goroutine' = [goroutine EXCEPT ![s] = label]
           /\ label = "off" => eventBuffer[s] = <<>>
  BY GoroutineFacts DEF Batch!ReadChannel, Batch!Tick, Batch!Leave, Batch!Goto, Batch!lifeVars,
       Batch!historyVars
<1>2. PICK label \in {"running", "flushing", "off", "final"} :
        goroutine' = [goroutine EXCEPT ![s] = label] /\ (label = "off" => eventBuffer[s] = <<>>)
  BY <1>1
<1>3. label \in Batch!PCs
  BY DEF Batch!PCs
<1>4. Len(eventBuffer[s]) < batchSize
  BY <1>1 DEF BatchInv, GoroutineInv
<1>5. /\ goroutine' \in [Outlets -> Batch!PCs] /\ goroutine'[s] = label
      /\ \A u \in Outlets : u # s => goroutine'[u] = goroutine[u]
  BY <1>2, <1>3, Going DEF BatchInv, Batch!TypeOK
<1>6. SequenceTypes' /\ dropped' = dropped \cup {} /\ {} \subseteq Members(taken[s])
  BY <1>1 DEF BatchInv, SequenceTypes
<1>7. goroutine[s] # "off" /\ (goroutine'[s] = "off" => eventBuffer'[s] = <<>>)
  BY <1>1, <1>2, <1>5
<1>8. /\ InLine(s, taken[s], delivered'[s], eventBuffer'[s], batchChannels'[s], dropped')
      /\ attempt' \in [Outlets -> 0 .. MaxRetryAttempts - 1]
      /\ s \notin channels => batchChannels'[s] = <<>>
      /\ Len(eventBuffer'[s]) <= batchSize /\ Len(eventBuffer'[s]) < batchSize
  BY <1>1, <1>4, GoroutineFacts
<1> QED BY <1>1, <1>5, <1>6, <1>7, <1>8, GoroutineKeeps

\* The batch takes what the channel gives up.
LEMMA ReceiveKeeps ==
  ASSUME BatchInv, NEW s \in Outlets, Batch!Receive(s)
  PROVE  BatchInv'
<1> DEFINE b == Append(eventBuffer[s], Head(batchChannels[s]))
           c == Tail(batchChannels[s])
<1>1. /\ goroutine[s] = "running" /\ batchChannels[s] # <<>>
      /\ eventBuffer' = [eventBuffer EXCEPT ![s] = b] /\ batchChannels' = [batchChannels EXCEPT ![s] = c]
      /\ UNCHANGED <<mu, isRunning, shutdownCh, toStart, channels, ctxDone, taken, delivered, dropped,
                     attempt, crashed>>
      /\ IF Len(eventBuffer'[s]) >= batchSize
         THEN goroutine' = [goroutine EXCEPT ![s] = "flushing"] ELSE UNCHANGED goroutine
  BY DEF Batch!Receive, Batch!Goto, Batch!lifeVars, Batch!historyVars
<1>2. /\ Head(batchChannels[s]) \in Publications /\ c \in Seq(Publications)
  BY <1>1, GoroutineFacts, HeadTailProperties
<1>3. b \in Seq(Publications) /\ Len(b) = Len(eventBuffer[s]) + 1
  BY <1>2, GoroutineFacts, AppendProperties
<1>4. Len(eventBuffer[s]) < batchSize /\ s \in channels
  BY <1>1 DEF BatchInv, GoroutineInv
<1>5. InLine(s, taken[s], delivered[s], b, c, dropped \cup {})
  BY <1>1, GoroutineFacts, LineMoves
<1>6. eventBuffer'[s] = b
  BY <1>1 DEF BatchInv, SequenceTypes
<1>7. Len(b) <= batchSize /\ batchSize \in Nat /\ Len(b) \in Nat
  BY <1>3, <1>4, GoroutineFacts, BatchConstants
<1>8. /\ goroutine' \in [Outlets -> Batch!PCs]
      /\ \A u \in Outlets : u # s => goroutine'[u] = goroutine[u]
      /\ goroutine'[s] = IF Len(b) >= batchSize THEN "flushing" ELSE "running"
  BY <1>1, <1>6 DEF BatchInv, Batch!TypeOK, Batch!PCs
<1> HIDE DEF b, c
<1>9. /\ SequenceTypes' /\ batchChannels'[s] = c
      /\ \A u \in Outlets : u # s =>
           eventBuffer'[u] = eventBuffer[u] /\ batchChannels'[u] = batchChannels[u]
  BY <1>1, <1>2, <1>3 DEF BatchInv, SequenceTypes
<1>10. dropped' = dropped \cup {} /\ {} \subseteq Members(taken[s])
  BY <1>1
<1>11. goroutine'[s] # "off" /\ (goroutine'[s] \in {"off", "spawned", "running"} => Len(b) < batchSize)
  BY <1>7, <1>8
<1>12. /\ InLine(s, taken[s], delivered'[s], eventBuffer'[s], batchChannels'[s], dropped')
       /\ attempt' \in [Outlets -> 0 .. MaxRetryAttempts - 1] /\ crashed' \in BOOLEAN
       /\ Len(eventBuffer'[s]) <= batchSize
       /\ goroutine'[s] \in {"off", "spawned", "running"} => Len(eventBuffer'[s]) < batchSize
  BY <1>1, <1>5, <1>6, <1>7, <1>9, <1>10, <1>11, GoroutineFacts
<1>13. goroutine[s] # "off"
  BY <1>1
<1> QED BY <1>1, <1>4, <1>8, <1>9, <1>10, <1>11, <1>12, <1>13, GoroutineKeeps

\* What an acknowledgement, or giving up, makes of the sequences of one stream, if
\* the batch is cleared with it.
LEMMA Settles ==
  ASSUME BatchInv, NEW s \in Outlets, Batch!Acknowledged(s) \/ Batch!GiveUp(s), Batch!Reset(s),
         UNCHANGED <<taken, batchChannels>>
  PROVE  /\ SequenceTypes' /\ eventBuffer'[s] = <<>>
         /\ attempt' \in [Outlets -> 0 .. MaxRetryAttempts - 1]
         /\ \A u \in Outlets : u # s => delivered'[u] = delivered[u] /\ eventBuffer'[u] = eventBuffer[u]
         /\ InLine(s, taken[s], delivered'[s], eventBuffer'[s], batchChannels'[s], dropped')
         /\ \E w : w \subseteq Members(taken[s]) /\ dropped' = dropped \cup w
<1>1. /\ eventBuffer' = [eventBuffer EXCEPT ![s] = <<>>] /\ attempt' = [attempt EXCEPT ![s] = 0]
  BY DEF Batch!Reset
<1>2. /\ eventBuffer'[s] = <<>> /\ \A u \in Outlets : u # s => eventBuffer'[u] = eventBuffer[u]
      /\ attempt' \in [Outlets -> 0 .. MaxRetryAttempts - 1]
      /\ eventBuffer' \in [Outlets -> Seq(Publications)]
  BY <1>1, GoroutineFacts DEF SequenceTypes
<1>3. Members(eventBuffer[s]) \subseteq Members(taken[s])
  BY GoroutineFacts DEF InLine
<1>4. CASE Batch!Acknowledged(s)
  <2>1. PICK P \in SUBSET (1 .. Len(eventBuffer[s])) :
          \E q \in Batch!InAscendingOrder(P) :
            /\ delivered' = [delivered EXCEPT ![s] =
                               @ \o [i \in 1 .. Cardinality(P) |-> eventBuffer[s][q[i]]]]
            /\ dropped' = dropped \cup {eventBuffer[s][i] : i \in (1 .. Len(eventBuffer[s])) \ P}
    BY <1>4, SameCount DEF Batch!Acknowledged
  <2>2. PICK q \in {f \in [1 .. Cardinality(P) -> P] :
                      \A i, j \in 1 .. Cardinality(P) : i < j => f[i] < f[j]} :
          /\ delivered' = [delivered EXCEPT ![s] = delivered[s] \o Chosen(eventBuffer[s], P, q)]
          /\ dropped' = dropped \cup PassedOver(eventBuffer[s], P)
    BY <2>1, SameCount DEF Batch!InAscendingOrder, Chosen, PassedOver
  <2> DEFINE a == delivered[s] \o Chosen(eventBuffer[s], P, q)
             w == PassedOver(eventBuffer[s], P)
  <2>3. /\ a \in Seq(Publications)
        /\ InLine(s, taken[s], a, <<>>, batchChannels[s], dropped \cup w)
    BY GoroutineFacts, LineSends
  <2>4. w \subseteq Members(taken[s])
    BY <1>3 DEF Members, PassedOver
  <2>5. delivered' = [delivered EXCEPT ![s] = a] /\ dropped' = dropped \cup w
    BY <2>2
  <2> HIDE DEF a, w
  <2>6. /\ delivered'[s] = a /\ \A u \in Outlets : u # s => delivered'[u] = delivered[u]
        /\ delivered' \in [Outlets -> Seq(Publications)]
    BY <2>3, <2>5 DEF BatchInv, SequenceTypes
  <2> QED BY <1>2, <2>3, <2>4, <2>5, <2>6 DEF BatchInv, SequenceTypes
<1>5. CASE Batch!GiveUp(s)
  <2>1. delivered' = delivered /\ dropped' = dropped \cup Batch!ToSet(eventBuffer[s])
    BY <1>5 DEF Batch!GiveUp
  <2>2. Batch!ToSet(eventBuffer[s]) = Members(eventBuffer[s])
    BY GoroutineFacts, LenProperties DEF Batch!ToSet, Members
  <2>3. InLine(s, taken[s], delivered[s], <<>>, batchChannels[s], dropped \cup Members(eventBuffer[s]))
    BY GoroutineFacts, LineGivesUp
  <2> QED BY <1>2, <1>3, <2>1, <2>2, <2>3 DEF BatchInv, SequenceTypes
<1> QED BY <1>4, <1>5

\* The steps that are done with a batch.
LEMMA SettleKeeps ==
  ASSUME BatchInv, NEW s \in Outlets, goroutine[s] # "off",
         Batch!Acknowledged(s) \/ Batch!GiveUp(s), Batch!Reset(s),
         NEW label \in {"running", "off"}, Batch!Goto(s, label),
         UNCHANGED <<mu, isRunning, shutdownCh, toStart, channels, ctxDone, crashed, taken, batchChannels>>
  PROVE  BatchInv'
<1>1. /\ SequenceTypes' /\ eventBuffer'[s] = <<>>
      /\ attempt' \in [Outlets -> 0 .. MaxRetryAttempts - 1]
      /\ \A u \in Outlets : u # s => delivered'[u] = delivered[u] /\ eventBuffer'[u] = eventBuffer[u]
      /\ InLine(s, taken[s], delivered'[s], eventBuffer'[s], batchChannels'[s], dropped')
      /\ \E w : w \subseteq Members(taken[s]) /\ dropped' = dropped \cup w
  BY Settles
<1>2. PICK w : w \subseteq Members(taken[s]) /\ dropped' = dropped \cup w
  BY <1>1
<1>3. /\ goroutine' \in [Outlets -> Batch!PCs] /\ goroutine'[s] = label
      /\ \A u \in Outlets : u # s => goroutine'[u] = goroutine[u]
  BY GoroutineFacts, Going DEF Batch!Goto, Batch!PCs
<1>4. crashed' \in BOOLEAN /\ (s \notin channels => batchChannels'[s] = <<>>)
  BY GoroutineFacts
<1>5. Len(eventBuffer'[s]) <= batchSize /\ Len(eventBuffer'[s]) < batchSize
  BY <1>1, GoroutineFacts, BatchConstants
<1> QED BY <1>1, <1>2, <1>3, <1>4, <1>5, GoroutineKeeps

\* The steps that keep the batch for another attempt.
LEMMA RetryKeeps ==
  ASSUME BatchInv, NEW s \in Outlets, goroutine[s] # "off",
         NEW label \in {"flushing", "backoff"}, Batch!Goto(s, label),
         attempt' \in [Outlets -> 0 .. MaxRetryAttempts - 1],
         UNCHANGED <<mu, isRunning, shutdownCh, toStart, channels, ctxDone, crashed, taken, batchChannels,
                     eventBuffer, delivered, dropped>>
  PROVE  BatchInv'
<1>1. /\ goroutine' \in [Outlets -> Batch!PCs] /\ goroutine'[s] = label
      /\ \A u \in Outlets : u # s => goroutine'[u] = goroutine[u]
  BY GoroutineFacts, Going DEF Batch!Goto, Batch!PCs
<1>2. SequenceTypes' /\ dropped' = dropped \cup {} /\ {} \subseteq Members(taken[s])
  BY DEF BatchInv, SequenceTypes
<1>3. /\ InLine(s, taken[s], delivered'[s], eventBuffer'[s], batchChannels'[s], dropped')
      /\ crashed' \in BOOLEAN /\ (s \notin channels => batchChannels'[s] = <<>>)
      /\ Len(eventBuffer'[s]) <= batchSize
  BY GoroutineFacts
<1> QED BY <1>1, <1>2, <1>3, GoroutineKeeps

\* An attempt at a batch: sent, kept for another attempt, or given up.
LEMMA AttemptKeeps ==
  ASSUME BatchInv, NEW s \in Outlets,
         Batch!FlushSucceeds(s) \/ Batch!FlushFails(s) \/ Batch!Backoff(s)
           \/ Batch!handleGracefulShutdown(s)
  PROVE  BatchInv'
<1>1. /\ goroutine[s] # "off"
      /\ UNCHANGED <<mu, isRunning, shutdownCh, toStart, channels, ctxDone, crashed, taken, batchChannels>>
  BY DEF Batch!FlushSucceeds, Batch!FlushFails, Batch!Backoff, Batch!handleGracefulShutdown, Batch!lifeVars
<1>2. CASE Batch!FlushSucceeds(s)
  BY <1>1, <1>2, SettleKeeps DEF Batch!FlushSucceeds
<1>3. CASE Batch!FlushFails(s)
  <2>1. CASE attempt[s] + 1 < MaxRetryAttempts
    <3>1. /\ attempt' = [attempt EXCEPT ![s] = @ + 1] /\ Batch!Goto(s, "backoff")
          /\ UNCHANGED <<eventBuffer, delivered, dropped>>
      BY <1>3, <2>1 DEF Batch!FlushFails
    <3>2. attempt' \in [Outlets -> 0 .. MaxRetryAttempts - 1]
      BY <2>1, <3>1, GoroutineFacts, BatchConstants
    <3> QED BY <1>1, <3>1, <3>2, RetryKeeps
  <2>2. CASE ~(attempt[s] + 1 < MaxRetryAttempts)
    BY <1>1, <1>3, <2>2, SettleKeeps DEF Batch!FlushFails
  <2> QED BY <2>1, <2>2
<1>4. CASE Batch!Backoff(s)
  <2>1. CASE Batch!Goto(s, "flushing") /\ UNCHANGED <<eventBuffer, attempt, delivered, dropped>>
    BY <1>1, <2>1, RetryKeeps, GoroutineFacts
  <2>2. CASE Batch!GiveUp(s) /\ Batch!Reset(s) /\ Batch!Goto(s, "running")
    BY <1>1, <2>2, SettleKeeps
  <2> QED BY <1>4, <2>1, <2>2 DEF Batch!Backoff
<1>5. CASE Batch!handleGracefulShutdown(s)
  BY <1>1, <1>5, SettleKeeps DEF Batch!handleGracefulShutdown
<1> QED BY <1>2, <1>3, <1>4, <1>5

\* Stop ends well once every goroutine is off: what is in the channels is given up
\* with them.
LEMMA StopKeeps ==
  ASSUME BatchInv, Batch!StopCompletes
  PROVE  BatchInv'
<1> DEFINE w == UNION {Batch!ToSet(batchChannels[u]) : u \in channels}
<1>1. /\ mu = "stop" /\ mu' = "free" /\ isRunning' = FALSE /\ channels' = {}
      /\ \A s \in Outlets : goroutine[s] = "off"
      /\ batchChannels' = [s \in Outlets |-> <<>>] /\ dropped' = dropped \cup w
      /\ UNCHANGED <<shutdownCh, toStart, goroutine, eventBuffer, attempt, ctxDone, crashed, taken, delivered>>
  BY DEF Batch!StopCompletes, Batch!CloseChannels
<1>2. channels \subseteq Outlets /\ toStart = {}
  BY <1>1 DEF BatchInv, Batch!TypeOK, MutexInv
<1>3. \A s \in Outlets : Batch!ToSet(batchChannels[s]) = Members(batchChannels[s])
  BY LenProperties DEF Batch!ToSet, Members, BatchInv, SequenceTypes
<1>4. \A s \in Outlets : \A e \in Members(batchChannels[s]) :
        streamOf[e] = s /\ e \in Members(taken[s]) /\ e \in Publications
  <2> SUFFICES ASSUME NEW s \in Outlets, NEW e \in Members(batchChannels[s])
               PROVE  streamOf[e] = s /\ e \in Members(taken[s]) /\ e \in Publications
    OBVIOUS
  <2>1. e \in Members(taken[s])
    BY GoroutineFacts DEF InLine
  <2>2. PICK i \in 1 .. Len(taken[s]) : e = taken[s][i]
    BY <2>1 DEF Members
  <2>3. taken[s] \in Seq(Publications)
    BY DEF BatchInv, SequenceTypes
  <2> QED BY <2>1, <2>2, <2>3, ElementOfSeq, GoroutineFacts DEF InLine
<1>5. SequenceTypes' /\ <<>> \in Seq(Publications)
  BY <1>1, EmptySeq DEF BatchInv, SequenceTypes
<1>6. w \subseteq Publications /\ \A e \in w : streamOf[e] \in Outlets /\ e \in Members(taken[streamOf[e]])
  BY <1>2, <1>3, <1>4
<1>7. Batch!TypeOK'
  BY <1>1, <1>5, <1>6 DEF BatchInv, Batch!TypeOK, SequenceTypes
<1>8. MutexInv' /\ GoroutineInv' /\ Batch!CleanStop'
  BY <1>1, <1>2 DEF BatchInv, MutexInv, GoroutineInv, Batch!CleanStop
<1>9. ASSUME NEW s \in Outlets
      PROVE  InLine(s, taken'[s], delivered'[s], eventBuffer'[s], batchChannels'[s], dropped')
  <2>1. Members(batchChannels[s]) \subseteq w
    <3>1. CASE s \in channels
      BY <1>3, <3>1
    <3>2. CASE s \notin channels
      <4>1. batchChannels[s] = <<>>
        BY <3>2, GoroutineFacts
      <4> QED BY <4>1 DEF Members
    <3> QED BY <3>1, <3>2
  <2>2. \A e \in w : e \in Members(batchChannels[s]) \/ streamOf[e] # s
    BY <1>2, <1>3, <1>4
  <2>3. InLine(s, taken[s], delivered[s], eventBuffer[s], <<>>, dropped \cup w)
    BY <2>1, <2>2, GoroutineFacts, LineCloses
  <2> QED BY <1>1, <2>3
<1>10. \A e \in dropped' : streamOf[e] \in Outlets /\ e \in Members(taken'[streamOf[e]])
  BY <1>1, <1>6 DEF BatchInv, LinesInv
<1> QED BY <1>5, <1>7, <1>8, <1>9, <1>10 DEF BatchInv, LinesInv

-----------------------------------------------------------------------------
(* The batch processor: its theorems.                                      *)

\* Between Start, Stop, publishers and the goroutines, in whatever order they run,
\* the events of a stream stay in line.
THEOREM BatchInvariance == Batch!Spec => []BatchInv
<1>1. ASSUME BatchInv, [Batch!Next]_Batch!vars PROVE BatchInv'
  <2>1. CASE Batch!Start \/ Batch!EndStart \/ Batch!Stop \/ Batch!StopTimesOut \/ Batch!Cancel
    BY <1>1, <2>1, LifeKeeps
  <2>2. CASE Batch!StopCompletes
    BY <1>1, <2>2, StopKeeps
  <2>3. ASSUME NEW s \in Outlets, Batch!StartStream(s) PROVE BatchInv'
    BY <1>1, <2>3, StartStreamKeeps
  <2>4. ASSUME NEW s \in Outlets, Batch!processBatch(s) PROVE BatchInv'
    BY <1>1, <2>4, MoveKeeps, ReceiveKeeps, AttemptKeeps DEF Batch!processBatch
  <2>5. ASSUME NEW e \in Publications, Batch!PublishAsync(e) PROVE BatchInv'
    BY <1>1, <2>5, PublishKeeps
  <2>6. CASE UNCHANGED Batch!vars
    BY <1>1, <2>6 DEF Batch!vars, BatchInv, Batch!TypeOK, SequenceTypes, MutexInv, GoroutineInv,
                      Batch!CleanStop, LinesInv
  <2> QED BY <1>1, <2>1, <2>2, <2>3, <2>4, <2>5, <2>6 DEF Batch!Next
<1> QED BY <1>1, BatchInit, PTL DEF Batch!Spec

\* A place and another one: the set that Custody counts.
LEMMA OnePlace ==
  ASSUME NEW A, NEW B, NEW C, NEW D, NEW e,
         e \in A \cup B \cup C \cup D,
         ~(e \in A /\ e \in B), ~(e \in A /\ e \in C), ~(e \in A /\ e \in D),
         ~(e \in B /\ e \in C), ~(e \in B /\ e \in D), ~(e \in C /\ e \in D)
  PROVE  Cardinality({place \in {<<1, A>>, <<2, B>>, <<3, C>>, <<4, D>>} : e \in place[2]}) = 1
<1> DEFINE P == {place \in {<<1, A>>, <<2, B>>, <<3, C>>, <<4, D>>} : e \in place[2]}
<1>1. CASE e \in A
  <2>1. P = {<<1, A>>}
    BY <1>1
  <2> QED BY <2>1, FS_Singleton
<1>2. CASE e \in B
  <2>1. P = {<<2, B>>}
    BY <1>2
  <2> QED BY <2>1, FS_Singleton
<1>3. CASE e \in C
  <2>1. P = {<<3, C>>}
    BY <1>3
  <2> QED BY <2>1, FS_Singleton
<1>4. CASE e \in D
  <2>1. P = {<<4, D>>}
    BY <1>4
  <2> QED BY <2>1, FS_Singleton
<1> QED BY <1>1, <1>2, <1>3, <1>4

\* An event that PublishAsync took is in exactly one place: the channel, the batch,
\* Kinesis, or given up.
THEOREM BatchCustodyHolds == Batch!Spec => []BatchCustody
<1>1. BatchInv => BatchCustody
  <2> SUFFICES ASSUME BatchInv, NEW s \in Outlets, NEW e \in Batch!ToSet(taken[s])
               PROVE  Cardinality({place \in {<<1, Batch!ToSet(batchChannels[s])>>,
                                              <<2, Batch!ToSet(eventBuffer[s])>>,
                                              <<3, Batch!ToSet(delivered[s])>>, <<4, dropped>>} :
                                     e \in place[2]}) = 1
    BY SameCount DEF BatchCustody, Batch!Custody
  <2>1. /\ Batch!ToSet(taken[s]) = Members(taken[s])
        /\ Batch!ToSet(batchChannels[s]) = Members(batchChannels[s])
        /\ Batch!ToSet(eventBuffer[s]) = Members(eventBuffer[s])
        /\ Batch!ToSet(delivered[s]) = Members(delivered[s])
    BY LenProperties DEF Batch!ToSet, Members, BatchInv, SequenceTypes
  <2>2. /\ ~(e \in Members(batchChannels[s]) /\ e \in Members(eventBuffer[s]))
        /\ ~(e \in Members(batchChannels[s]) /\ e \in Members(delivered[s]))
        /\ ~(e \in Members(eventBuffer[s]) /\ e \in Members(delivered[s]))
    BY GoroutineFacts, LineDistinct DEF Members
  <2>3. /\ e \in Members(delivered[s]) \cup Members(eventBuffer[s]) \cup Members(batchChannels[s]) \cup dropped
        /\ dropped \cap (Members(delivered[s]) \cup Members(eventBuffer[s]) \cup Members(batchChannels[s])) = {}
    BY <2>1, GoroutineFacts DEF InLine
  <2> QED BY <2>1, <2>2, <2>3, OnePlace
<1> QED BY <1>1, BatchInvariance, PTL

\* What Kinesis acknowledged of a stream is in the order in which PublishAsync took
\* it, across retries, ticks, restarts and final flushes.
THEOREM InOrderHolds == Batch!Spec => []InOrder
<1>1. BatchInv => InOrder
  BY DEF BatchInv, LinesInv, InLine, Sorted, Before, InOrder, Batch!InOrder
<1> QED BY <1>1, BatchInvariance, PTL

-----------------------------------------------------------------------------
(* The consumer: its inductive invariant.                                  *)

Positions(s) == 1 .. MaxRecords[s]

\* The state of the process, and the functions on the streams.
ProcessTypes ==
  /\ DOMAIN shard = Inlets /\ DOMAIN iterator = Inlets /\ DOMAIN events = Inlets
  /\ DOMAIN rows = Inlets /\ DOMAIN logged = Inlets /\ DOMAIN reported = Inlets
  /\ open \in [Inlets -> BOOLEAN] /\ expired \in [Inlets -> BOOLEAN]
  /\ poller \in [Inlets -> Consumer!PCs]
  /\ app \in Consumer!AppStates
  /\ stopChan \in BOOLEAN /\ timedOut \in BOOLEAN
  /\ starts \in 0 .. MaxStarts
  /\ starts = 0 => app = "down"
  /\ kept \in 0 .. MaxOpenConns /\ outages \in 0 .. MaxOutages

\* What belongs to a stream has its type; what was logged and reported was in the
\* shard; a goroutine has a batch while it is inserting, and lives in the process.
StreamTypes(s) ==
  /\ shard[s] \in Seq(Consumer!Formats) /\ Len(shard[s]) <= MaxRecords[s]
  /\ iterator[s] \in IF app = "down" THEN {0} ELSE 1 .. Len(shard[s]) + 1
  /\ events[s] \in Seq(Positions(s))
  /\ rows[s] \in [Positions(s) -> 0 .. 2]
  /\ logged[s] \subseteq 1 .. Len(shard[s]) /\ reported[s] \subseteq 1 .. Len(shard[s])
  /\ poller[s] \in {"batch", "fallback"} <=> events[s] # <<>>
  /\ app = "down" => poller[s] = "off"

\* A batch holds records that parse, in their order, each once; while the shard is
\* open the iterator is past them.
BatchInOrder(s) ==
  /\ \A i \in 1 .. Len(events[s]) :
       /\ events[s][i] \in 1 .. Len(shard[s]) /\ shard[s][events[s][i]] # "garbage"
       /\ open[s] => events[s][i] < iterator[s]
  /\ \A i, j \in 1 .. Len(events[s]) : i < j => events[s][i] < events[s][j]

\* What the iterator has passed is in hand, logged, stored or of a dropped kind.
PassedBy(s) ==
  app # "down" =>
    \A i \in 1 .. iterator[s] - 1 :
      \/ i \in Members(events[s]) \/ i \in logged[s] \/ rows[s][i] > 0
      \/ i \in reported[s] /\ shard[s][i] = IF s = "metrics" THEN "proto" ELSE "json"

\* In a process that was started once, an open shard is read once: what is stored
\* is behind the iterator and no longer in the batch.
StoredOnce(s) ==
  /\ starts = 0 => \A i \in Positions(s) : rows[s][i] = 0
  /\ open[s] /\ starts <= 1 =>
       \A i \in Positions(s) :
         /\ rows[s][i] <= 1
         /\ rows[s][i] > 0 /\ app # "down" => i < iterator[s] /\ i \notin Members(events[s])

StreamInv(s) == StreamTypes(s) /\ BatchInOrder(s) /\ PassedBy(s) /\ StoredOnce(s)

\* The traces that parse, have an error in the log and are not stored.
Missing == {i \in logged["traces"] : shard["traces"][i] # "garbage" /\ rows["traces"][i] = 0}

MissingInv ==
  kept < MaxOpenConns /\ app # "closing" /\ "traces" \in Inlets =>
    Cardinality(Missing) <= outages

ConsumerInv ==
  ProcessTypes /\ (\A s \in Inlets : StreamInv(s)) /\ Consumer!CleanStop /\ MissingInv

\* What the proofs use of the constants.
LEMMA ConsumerConstants ==
  /\ Inlets \subseteq {"traces", "metrics", "logs"}
  /\ \A s \in Inlets : MaxRecords[s] \in Nat \ {0}
  /\ MaxStarts \in Nat \ {0} /\ MaxOpenConns \in Nat \ {0} /\ MaxOutages \in Nat
BY PipelineAssumption DEF Consumer!ConsumerAssumption, Consumer!PoolAssumption

\* What counts a set in the consumer's module counts it here.
LEMMA SameCount2 == \A S : Consumer!Cardinality(S) = Cardinality(S)
  BY DEF Consumer!Cardinality, Cardinality

\* The numbers of a stream.
LEMMA StreamFacts ==
  ASSUME ConsumerInv, NEW s \in Inlets
  PROVE  /\ StreamInv(s)
         /\ Len(shard[s]) \in Nat /\ Len(events[s]) \in Nat
         /\ MaxRecords[s] \in Nat \ {0} /\ iterator[s] \in Nat
         /\ \A i \in 1 .. Len(shard[s]) : shard[s][i] \in Consumer!Formats
         /\ \A i \in 1 .. Len(events[s]) : events[s][i] \in Positions(s)
<1>1. StreamInv(s) /\ StreamTypes(s)
  BY DEF ConsumerInv, StreamInv
<1>2. Len(shard[s]) \in Nat /\ Len(events[s]) \in Nat
  BY <1>1, LenProperties DEF StreamTypes
<1>3. /\ \A i \in 1 .. Len(shard[s]) : shard[s][i] \in Consumer!Formats
      /\ \A i \in 1 .. Len(events[s]) : events[s][i] \in Positions(s)
  BY <1>1, ElementOfSeq DEF StreamTypes
<1>4. iterator[s] \in Nat
  BY <1>1, <1>2 DEF StreamTypes
<1> QED BY <1>1, <1>2, <1>3, <1>4, ConsumerConstants

\* A step that leaves a stream alone keeps what holds of it.
LEMMA StreamElsewhere ==
  ASSUME NEW s \in Inlets, StreamInv(s), starts' = starts, app' = "down" <=> app = "down",
         /\ shard'[s] = shard[s] /\ open'[s] = open[s] /\ iterator'[s] = iterator[s]
         /\ poller'[s] = poller[s] /\ events'[s] = events[s] /\ rows'[s] = rows[s]
         /\ logged'[s] = logged[s] /\ reported'[s] = reported[s]
  PROVE  StreamInv(s)'
<1>1. Positions(s)' = Positions(s)
  BY DEF Positions
<1>2. StreamTypes(s)'
  BY <1>1 DEF StreamInv, StreamTypes
<1>3. BatchInOrder(s)'
  BY DEF StreamInv, BatchInOrder
<1>4. PassedBy(s)'
  BY DEF StreamInv, PassedBy, Members
<1>5. StoredOnce(s)'
  BY <1>1 DEF StreamInv, StoredOnce, Members
<1> QED BY <1>2, <1>3, <1>4, <1>5 DEF StreamInv

\* The missing traces are finitely many.
LEMMA MissingFinite ==
  ASSUME ConsumerInv, "traces" \in Inlets
  PROVE  IsFiniteSet(Missing) /\ Cardinality(Missing) \in Nat
<1>1. IsFiniteSet(1 .. Len(shard["traces"]))
  BY StreamFacts, FS_Interval
<1>2. Missing \subseteq 1 .. Len(shard["traces"])
  BY StreamFacts DEF Missing, StreamInv, StreamTypes
<1> QED BY <1>1, <1>2, FS_Subset, FS_CardinalityType

\* A step after which no more traces are missing, of a process that does not end.
LEMMA MissingKept ==
  ASSUME ConsumerInv, ProcessTypes', Missing' \subseteq Missing, kept <= kept', outages <= outages',
         app = "closing" => app' = "closing"
  PROVE  MissingInv'
<1> SUFFICES ASSUME kept' < MaxOpenConns, app' # "closing", "traces" \in Inlets
             PROVE  Cardinality(Missing') <= outages'
  BY DEF MissingInv
<1>1. Cardinality(Missing) <= outages
  BY ConsumerConstants DEF ConsumerInv, MissingInv, ProcessTypes
<1>2. Cardinality(Missing') <= Cardinality(Missing) /\ Cardinality(Missing') \in Nat
  BY MissingFinite, FS_Subset, FS_CardinalityType
<1> QED BY <1>1, <1>2, MissingFinite DEF ConsumerInv, ProcessTypes

\* At the start nothing was read.
LEMMA ConsumerInit == Consumer!Init => ConsumerInv
<1> SUFFICES ASSUME Consumer!Init PROVE ConsumerInv
  OBVIOUS
<1>1. /\ shard = [s \in Inlets |-> <<>>] /\ open = [s \in Inlets |-> TRUE]
      /\ expired = [s \in Inlets |-> FALSE] /\ iterator = [s \in Inlets |-> 0]
      /\ poller = [s \in Inlets |-> "off"] /\ events = [s \in Inlets |-> <<>>]
      /\ kept = 0 /\ outages = 0 /\ app = "down" /\ stopChan = FALSE /\ timedOut = FALSE /\ starts = 0
      /\ rows = [s \in Inlets |-> [i \in Positions(s) |-> 0]]
      /\ logged = [s \in Inlets |-> {}] /\ reported = [s \in Inlets |-> {}]
  BY DEF Consumer!Init, Consumer!NewClickHouseClient, Consumer!Positions, Positions
<1>2. ProcessTypes
  <2>1. /\ DOMAIN shard = Inlets /\ DOMAIN iterator = Inlets /\ DOMAIN events = Inlets
        /\ DOMAIN rows = Inlets /\ DOMAIN logged = Inlets /\ DOMAIN reported = Inlets
    BY <1>1
  <2>2. /\ open \in [Inlets -> BOOLEAN] /\ expired \in [Inlets -> BOOLEAN]
        /\ poller \in [Inlets -> Consumer!PCs]
    BY <1>1 DEF Consumer!PCs
  <2>3. /\ app \in Consumer!AppStates /\ stopChan \in BOOLEAN /\ timedOut \in BOOLEAN
        /\ app = "down" /\ starts = 0 /\ kept = 0 /\ outages = 0
    BY <1>1 DEF Consumer!AppStates
  <2>4. 0 \in 0 .. MaxStarts /\ 0 \in 0 .. MaxOpenConns /\ 0 \in 0 .. MaxOutages
    BY ConsumerConstants
  <2> QED BY <2>1, <2>2, <2>3, <2>4 DEF ProcessTypes
<1>3. ASSUME NEW s \in Inlets PROVE StreamInv(s)
  <2>1. /\ shard[s] = <<>> /\ iterator[s] = 0 /\ poller[s] = "off" /\ events[s] = <<>>
        /\ rows[s] = [i \in Positions(s) |-> 0] /\ logged[s] = {} /\ reported[s] = {}
    BY <1>1
  <2>2. MaxRecords[s] \in Nat \ {0}
    BY ConsumerConstants
  <2> QED BY <1>1, <2>1, <2>2 DEF StreamInv, StreamTypes, BatchInOrder, PassedBy, StoredOnce
<1>4. Consumer!CleanStop
  BY <1>1 DEF Consumer!CleanStop
<1>5. "traces" \in Inlets => Missing = {}
  BY <1>1 DEF Missing
<1>6. MissingInv
  <2>1. Cardinality({}) = 0 /\ outages = 0
    BY <1>1, FS_EmptySet
  <2> QED BY <1>5, <2>1 DEF MissingInv
<1> QED BY <1>2, <1>3, <1>4, <1>6 DEF ConsumerInv

\* Shutdown, and the end of the wait for Stop, touch no stream.
LEMMA ShutdownKeeps ==
  ASSUME ConsumerInv, Consumer!Shutdown \/ Consumer!StopReturns \/ Consumer!StopTimesOut
  PROVE  ConsumerInv'
<1>1. /\ UNCHANGED <<shard, open, expired, iterator, poller, events, starts, rows, logged, reported,
                     kept, outages>>
      /\ app \in {"running", "stopping"} /\ app' \in {"stopping", "closing"}
      /\ stopChan' \in BOOLEAN /\ timedOut' \in BOOLEAN
  BY DEF Consumer!Shutdown, Consumer!StopReturns, Consumer!StopTimesOut, Consumer!poolVars,
         Consumer!kinesisVars, ConsumerInv, ProcessTypes
<1>2. ProcessTypes'
  BY <1>1 DEF ConsumerInv, ProcessTypes, Consumer!AppStates
<1>3. \A s \in Inlets : StreamInv(s)'
  BY <1>1, StreamElsewhere DEF ConsumerInv
<1>4. Consumer!CleanStop'
  <2>1. CASE Consumer!Shutdown
    BY <2>1 DEF Consumer!Shutdown, Consumer!CleanStop
  <2>2. CASE Consumer!StopReturns
    <3>1. \A s \in Inlets : poller[s] = "off" /\ events[s] = <<>>
      BY <2>2 DEF Consumer!StopReturns, ConsumerInv, StreamInv, StreamTypes
    <3> QED BY <1>1, <3>1 DEF Consumer!CleanStop
  <2>3. CASE Consumer!StopTimesOut
    BY <2>3 DEF Consumer!StopTimesOut, Consumer!CleanStop
  <2> QED BY <2>1, <2>2, <2>3
<1>5. Missing' = Missing
  BY <1>1 DEF Missing
<1>6. MissingInv'
  BY <1>1, <1>2, <1>5, MissingKept DEF ConsumerInv, ProcessTypes
<1> QED BY <1>2, <1>3, <1>4, <1>6 DEF ConsumerInv

\* A start gives every stream an iterator, in a process that has read nothing.
LEMMA StartKeeps ==
  ASSUME ConsumerInv, Consumer!Start
  PROVE  ConsumerInv'
<1>1. /\ app = "down" /\ app' = "running" /\ starts < MaxStarts /\ starts' = starts + 1
      /\ iterator' = [s \in Inlets |-> 1] /\ poller' = [s \in Inlets |-> "select"]
      /\ UNCHANGED <<shard, open, expired, events, stopChan, timedOut, rows, logged, reported, kept, outages>>
  BY DEF Consumer!Start, Consumer!poolVars, Consumer!kinesisVars
<1>2. ProcessTypes'
  <2>1. starts' \in 0 .. MaxStarts /\ starts' # 0
    BY <1>1, ConsumerConstants DEF ConsumerInv, ProcessTypes
  <2>2. DOMAIN iterator' = Inlets /\ poller' \in [Inlets -> Consumer!PCs] /\ app' \in Consumer!AppStates
    BY <1>1 DEF Consumer!PCs, Consumer!AppStates
  <2> QED BY <1>1, <2>1, <2>2 DEF ConsumerInv, ProcessTypes
<1>3. ASSUME NEW s \in Inlets PROVE StreamInv(s)'
  <2>1. iterator'[s] = 1 /\ poller'[s] = "select" /\ poller[s] = "off" /\ Positions(s)' = Positions(s)
    BY <1>1, StreamFacts DEF StreamInv, StreamTypes, Positions
  <2>2. events[s] = <<>>
    BY <2>1, StreamFacts DEF StreamInv, StreamTypes
  <2>3. StreamTypes(s)'
    BY <1>1, <2>1, <2>2, StreamFacts DEF StreamInv, StreamTypes
  <2>4. BatchInOrder(s)' /\ PassedBy(s)'
    BY <1>1, <2>1, <2>2 DEF BatchInOrder, PassedBy
  <2>5. StoredOnce(s)'
    <3>1. CASE starts = 0
      <4>1. \A i \in Positions(s) : rows[s][i] = 0
        BY <3>1, StreamFacts DEF StreamInv, StoredOnce
      <4> QED BY <1>1, <2>1, <3>1, <4>1 DEF StoredOnce
    <3>2. CASE starts # 0
      <4>1. starts' # 0 /\ ~(starts' <= 1)
        BY <1>1, <3>2 DEF ConsumerInv, ProcessTypes
      <4> QED BY <4>1 DEF StoredOnce
    <3> QED BY <3>1, <3>2
  <2> QED BY <2>3, <2>4, <2>5 DEF StreamInv
<1>4. Consumer!CleanStop'
  BY <1>1 DEF Consumer!CleanStop
<1>5. Missing' = Missing
  BY <1>1 DEF Missing
<1>6. MissingInv'
  BY <1>1, <1>2, <1>5, MissingKept DEF ConsumerInv, ProcessTypes
<1> QED BY <1>2, <1>3, <1>4, <1>6 DEF ConsumerInv

\* The end of the process takes its memory and its connections with it; the rows
\* stay.
LEMMA EndKeeps ==
  ASSUME ConsumerInv, Consumer!Exit \/ Consumer!Crash
  PROVE  ConsumerInv'
<1>1. /\ app # "down" /\ app' = "down" /\ stopChan' = FALSE /\ timedOut' = FALSE
      /\ iterator' = [s \in Inlets |-> 0] /\ expired' = [s \in Inlets |-> FALSE]
      /\ poller' = [s \in Inlets |-> "off"] /\ events' = [s \in Inlets |-> <<>>]
      /\ logged' = [s \in Inlets |-> {}] /\ reported' = [s \in Inlets |-> {}]
      /\ kept' = 0 /\ outages' = 0 /\ UNCHANGED <<shard, open, starts, rows>>
  BY DEF Consumer!Exit, Consumer!Crash, Consumer!End, Consumer!Close, Consumer!kinesisVars
<1>2. ProcessTypes'
  <2>1. /\ DOMAIN iterator' = Inlets /\ DOMAIN events' = Inlets
        /\ DOMAIN logged' = Inlets /\ DOMAIN reported' = Inlets
        /\ expired' \in [Inlets -> BOOLEAN] /\ poller' \in [Inlets -> Consumer!PCs]
    BY <1>1 DEF Consumer!PCs
  <2>2. /\ app' \in Consumer!AppStates /\ stopChan' \in BOOLEAN /\ timedOut' \in BOOLEAN
        /\ app' = "down" /\ kept' = 0 /\ outages' = 0 /\ UNCHANGED <<shard, open, starts, rows>>
    BY <1>1 DEF Consumer!AppStates
  <2>3. 0 \in 0 .. MaxOpenConns /\ 0 \in 0 .. MaxOutages
    BY ConsumerConstants
  <2> QED BY <2>1, <2>2, <2>3 DEF ConsumerInv, ProcessTypes
<1>3. ASSUME NEW s \in Inlets PROVE StreamInv(s)'
  <2>1. /\ iterator'[s] = 0 /\ poller'[s] = "off" /\ events'[s] = <<>> /\ logged'[s] = {}
        /\ reported'[s] = {} /\ Positions(s)' = Positions(s)
    BY <1>1 DEF Positions
  <2>2. StreamTypes(s)'
    BY <1>1, <2>1, StreamFacts DEF StreamInv, StreamTypes
  <2>3. BatchInOrder(s)' /\ PassedBy(s)'
    BY <1>1, <2>1 DEF BatchInOrder, PassedBy
  <2>4. StoredOnce(s)'
    BY <1>1, <2>1, StreamFacts DEF StreamInv, StoredOnce
  <2> QED BY <2>2, <2>3, <2>4 DEF StreamInv
<1>4. Consumer!CleanStop'
  BY <1>1 DEF Consumer!CleanStop
<1>5. MissingInv'
  <2>1. "traces" \in Inlets => Missing' = {}
    BY <1>1 DEF Missing
  <2>2. Cardinality({}) = 0 /\ outages' = 0
    BY <1>1, FS_EmptySet
  <2> QED BY <2>1, <2>2 DEF MissingInv
<1> QED BY <1>2, <1>3, <1>4, <1>5 DEF ConsumerInv

\* What Kinesis does to a stream, and the end of its goroutine, leaves its batch,
\* its rows and its log alone.
LEMMA KinesisKeeps ==
  ASSUME ConsumerInv, NEW s \in Inlets,
         (\E format \in Consumer!Formats : Consumer!PutRecord(s, format)) \/ Consumer!CloseShard(s)
           \/ Consumer!Expire(s) \/ Consumer!Leave(s)
  PROVE  ConsumerInv'
<1>1. /\ UNCHANGED <<iterator, events, app, stopChan, timedOut, starts, rows, logged, reported, kept, outages>>
      /\ \A u \in Inlets \ {s} :
           shard'[u] = shard[u] /\ open'[u] = open[u] /\ poller'[u] = poller[u]
      /\ DOMAIN shard' = Inlets /\ open' \in [Inlets -> BOOLEAN] /\ expired' \in [Inlets -> BOOLEAN]
      /\ poller' \in [Inlets -> Consumer!PCs]
  BY DEF Consumer!PutRecord, Consumer!CloseShard, Consumer!Expire, Consumer!Leave, Consumer!poolVars,
         Consumer!kinesisVars, Consumer!processVars, Consumer!PCs, ConsumerInv, ProcessTypes
<1>2. /\ poller'[s] = poller[s] \/ (poller[s] = "select" /\ poller'[s] = "off")
      /\ open'[s] => open[s]
      /\ \/ shard'[s] = shard[s]
         \/ /\ Len(shard[s]) < MaxRecords[s]
            /\ \E format \in Consumer!Formats : shard'[s] = Append(shard[s], format)
  <2>1. CASE \E format \in Consumer!Formats : Consumer!PutRecord(s, format)
    BY <2>1 DEF Consumer!PutRecord, ConsumerInv, ProcessTypes
  <2>2. CASE Consumer!CloseShard(s)
    BY <2>2 DEF Consumer!CloseShard, ConsumerInv, ProcessTypes
  <2>3. CASE Consumer!Expire(s)
    BY <2>3 DEF Consumer!Expire, Consumer!kinesisVars
  <2>4. CASE Consumer!Leave(s)
    BY <2>4 DEF Consumer!Leave, Consumer!kinesisVars, ConsumerInv, ProcessTypes
  <2> QED BY <2>1, <2>2, <2>3, <2>4
<1>3. /\ shard'[s] \in Seq(Consumer!Formats) /\ Len(shard'[s]) \in Nat
      /\ Len(shard[s]) <= Len(shard'[s]) /\ Len(shard'[s]) <= MaxRecords[s]
      /\ \A i \in 1 .. Len(shard[s]) : shard'[s][i] = shard[s][i]
  <2>1. /\ shard[s] \in Seq(Consumer!Formats) /\ Len(shard[s]) \in Nat /\ Len(shard[s]) <= MaxRecords[s]
        /\ MaxRecords[s] \in Nat
    BY StreamFacts DEF StreamInv, StreamTypes
  <2>2. CASE shard'[s] = shard[s]
    BY <2>1, <2>2
  <2>3. CASE /\ Len(shard[s]) < MaxRecords[s]
             /\ \E format \in Consumer!Formats : shard'[s] = Append(shard[s], format)
    <3>1. PICK format \in Consumer!Formats : shard'[s] = Append(shard[s], format)
      BY <2>3
    <3>2. /\ Append(shard[s], format) \in Seq(Consumer!Formats)
          /\ Len(Append(shard[s], format)) = Len(shard[s]) + 1
          /\ \A i \in 1 .. Len(shard[s]) : Append(shard[s], format)[i] = shard[s][i]
      BY <2>1, AppendProperties
    <3> QED BY <2>1, <2>3, <3>1, <3>2
  <2> QED BY <1>2, <2>2, <2>3
<1>4. ProcessTypes'
  BY <1>1 DEF ConsumerInv, ProcessTypes
<1>5. StreamInv(s)'
  <2>1. Positions(s)' = Positions(s) /\ StreamInv(s)
    BY StreamFacts DEF Positions
  <2>2. StreamTypes(s)'
    BY <1>1, <1>2, <1>3, <2>1, StreamFacts DEF StreamInv, StreamTypes
  <2>3. BatchInOrder(s)'
    BY <1>1, <1>2, <1>3, <2>1, StreamFacts DEF StreamInv, BatchInOrder
  <2>4. PassedBy(s)'
    BY <1>1, <1>3, <2>1, StreamFacts DEF StreamInv, StreamTypes, PassedBy, Members
  <2>5. StoredOnce(s)'
    BY <1>1, <1>2, <2>1 DEF StreamInv, StoredOnce, Members
  <2> QED BY <2>2, <2>3, <2>4, <2>5 DEF StreamInv
<1>6. \A u \in Inlets : StreamInv(u)'
  BY <1>1, <1>5, StreamElsewhere DEF ConsumerInv
<1>7. Consumer!CleanStop'
  BY <1>1, <1>2 DEF ConsumerInv, Consumer!CleanStop
<1>8. "traces" \in Inlets => Missing' = Missing
  BY <1>1, <1>3, StreamFacts DEF Missing, StreamInv, StreamTypes
<1>9. MissingInv'
  <2>1. CASE "traces" \in Inlets
    BY <1>1, <1>4, <1>8, <2>1, MissingKept DEF ConsumerInv, ProcessTypes
  <2>2. CASE "traces" \notin Inlets
    BY <2>2 DEF MissingInv
  <2> QED BY <2>1, <2>2
<1> QED BY <1>4, <1>6, <1>7, <1>9 DEF ConsumerInv

\* A poll puts the records that parse in a batch, in their order, logs the others,
\* and moves the iterator behind them, or leaves it at the end of a closed shard.
LEMMA PollKeeps ==
  ASSUME ConsumerInv, NEW s \in Inlets, NEW last, Consumer!Poll(s, last)
  PROVE  ConsumerInv'
<1> DEFINE first == iterator[s]
           P == {i \in first .. last : shard[s][i] # "garbage"}
<1>1. /\ poller[s] = "select" /\ app # "closing" /\ last \in first - 1 .. Len(shard[s])
      /\ iterator' = [iterator EXCEPT ![s] = IF ~open[s] /\ last = Len(shard[s]) THEN first ELSE last + 1]
      /\ logged' = [logged EXCEPT ![s] = @ \cup {i \in first .. last : shard[s][i] = "garbage"}]
      /\ UNCHANGED <<shard, open, expired, app, stopChan, timedOut, starts, rows, reported, kept, outages>>
  BY DEF Consumer!Poll, Consumer!ctxDone, Consumer!NextIterator, Consumer!poolVars,
         Consumer!kinesisVars, Consumer!processVars
<1>2. PICK q \in {f \in [1 .. Cardinality(P) -> P] :
                    \A i, j \in 1 .. Cardinality(P) : i < j => f[i] < f[j]} :
        /\ events' = [events EXCEPT ![s] = q]
        /\ poller' = [poller EXCEPT ![s] = IF q = <<>> THEN "select" ELSE "batch"]
  BY SameCount2 DEF Consumer!Poll, Consumer!Parsed, Consumer!InAscendingOrder
<1>3. /\ app \in {"running", "stopping"} /\ first \in 1 .. Len(shard[s]) + 1 /\ Len(shard[s]) \in Nat
      /\ last \in Int /\ first - 1 <= last /\ last <= Len(shard[s]) /\ events[s] = <<>>
      /\ MaxRecords[s] \in Nat /\ Len(shard[s]) <= MaxRecords[s]
  <2>1. app # "down" /\ app \in Consumer!AppStates
    BY <1>1, StreamFacts DEF StreamInv, StreamTypes, ConsumerInv, ProcessTypes
  <2>2. app \in {"running", "stopping"}
    BY <1>1, <2>1 DEF Consumer!AppStates
  <2>3. /\ first \in 1 .. Len(shard[s]) + 1 /\ Len(shard[s]) \in Nat /\ events[s] = <<>>
        /\ MaxRecords[s] \in Nat /\ Len(shard[s]) <= MaxRecords[s]
    BY <1>1, <2>1, StreamFacts DEF StreamInv, StreamTypes
  <2>4. last \in Int /\ first - 1 <= last /\ last <= Len(shard[s])
    BY <1>1, <2>3
  <2> QED BY <2>2, <2>3, <2>4
<1>4. P \subseteq 1 .. Len(shard[s]) /\ \A i \in P : first <= i /\ i <= last /\ shard[s][i] # "garbage"
  BY <1>3
<1>5. /\ q \in Seq(P) /\ Len(q) = Cardinality(P) /\ Cardinality(P) \in Nat /\ Members(q) = P
      /\ \A i, j \in 1 .. Len(q) : i < j => q[i] < q[j]
  <2>1. /\ Cardinality(P) \in Nat /\ q \in [1 .. Cardinality(P) -> P]
        /\ \A i, j \in 1 .. Cardinality(P) : i < j => q[i] < q[j]
        /\ \A p \in P : \E i \in 1 .. Cardinality(P) : q[i] = p
    <3> HIDE DEF P
    <3> QED BY <1>2, <1>3, <1>4, InOrderOf
  <2>2. q \in Seq(P) /\ Len(q) = Cardinality(P)
    <3> HIDE DEF P
    <3> QED BY <2>1, FunctionAsSequence
  <2> HIDE DEF P
  <2> QED BY <2>1, <2>2 DEF Members
<1>6. /\ iterator'[s] = IF ~open[s] /\ last = Len(shard[s]) THEN first ELSE last + 1
      /\ logged'[s] = logged[s] \cup {i \in first .. last : shard[s][i] = "garbage"}
      /\ events'[s] = q /\ poller'[s] = IF q = <<>> THEN "select" ELSE "batch"
      /\ \A u \in Inlets \ {s} : /\ iterator'[u] = iterator[u] /\ logged'[u] = logged[u]
                                 /\ events'[u] = events[u] /\ poller'[u] = poller[u]
  BY <1>1, <1>2 DEF ConsumerInv, ProcessTypes
<1>7. ProcessTypes'
  <2>1. /\ DOMAIN iterator' = Inlets /\ DOMAIN logged' = Inlets /\ DOMAIN events' = Inlets
    BY <1>1, <1>2 DEF ConsumerInv, ProcessTypes
  <2>2. poller' \in [Inlets -> Consumer!PCs]
    BY <1>2 DEF ConsumerInv, ProcessTypes, Consumer!PCs
  <2> QED BY <1>1, <2>1, <2>2 DEF ConsumerInv, ProcessTypes
<1>8. StreamInv(s)'
  <2>1. Positions(s)' = Positions(s) /\ StreamInv(s) /\ Positions(s) = 1 .. MaxRecords[s]
    BY StreamFacts DEF Positions
  <2>2. StreamTypes(s)'
    <3>1. /\ logged'[s] \subseteq 1 .. Len(shard[s]) /\ iterator'[s] \in 1 .. Len(shard[s]) + 1
      BY <1>3, <1>6, <2>1 DEF StreamInv, StreamTypes
    <3>2. q \in Seq(Positions(s))
      <4>1. P \subseteq Positions(s)
        BY <1>3, <1>4, <2>1
      <4> HIDE DEF P
      <4> QED BY <1>5, <4>1
    <3>3. poller'[s] \in {"batch", "fallback"} <=> events'[s] # <<>>
      BY <1>6
    <3> HIDE <1>2, <1>5
    <3> QED BY <1>1, <1>3, <1>6, <2>1, <3>1, <3>2, <3>3 DEF StreamInv, StreamTypes
  <2>3. BatchInOrder(s)'
    <3>1. \A i \in 1 .. Len(q) : q[i] \in P
      <4> HIDE DEF P
      <4> QED BY <1>5, ElementOfSeq
    <3>2. \A i \in 1 .. Len(q) :
            /\ q[i] \in 1 .. Len(shard[s]) /\ shard[s][q[i]] # "garbage"
            /\ open[s] => q[i] < iterator'[s]
      <4> HIDE DEF P
      <4> QED BY <1>3, <1>4, <1>6, <3>1
    <3> QED BY <1>1, <1>5, <1>6, <3>2 DEF BatchInOrder
  <2>4. PassedBy(s)'
    <3> SUFFICES ASSUME NEW i \in 1 .. iterator'[s] - 1
                 PROVE  \/ i \in P \/ i \in logged'[s] \/ rows[s][i] > 0
                        \/ i \in reported[s] /\ shard[s][i] = IF s = "metrics" THEN "proto" ELSE "json"
      BY <1>1, <1>5, <1>6 DEF PassedBy
    <3>1. CASE i \in 1 .. first - 1
      <4>1. i \notin Members(events[s])
        BY <1>3 DEF Members
      <4> QED BY <1>3, <1>6, <2>1, <3>1, <4>1 DEF StreamInv, PassedBy
    <3>2. CASE i \in first .. last
      BY <1>6, <3>2
    <3> QED BY <1>3, <1>6, <3>1, <3>2
  <2>5. StoredOnce(s)'
    <3>1. starts = 0 => \A i \in Positions(s) : rows[s][i] = 0
      BY <2>1 DEF StreamInv, StoredOnce
    <3>2. ASSUME open[s], starts <= 1, NEW i \in Positions(s)
          PROVE  rows[s][i] <= 1 /\ (rows[s][i] > 0 => i < iterator'[s] /\ i \notin P)
      <4>1. rows[s][i] <= 1 /\ (rows[s][i] > 0 => i < first)
        BY <1>3, <2>1, <3>2 DEF StreamInv, StoredOnce
      <4>2. i \in Int /\ iterator'[s] = last + 1
        BY <1>6, <2>1, <3>2
      <4> QED BY <1>3, <1>4, <4>1, <4>2
    <3> HIDE DEF P
    <3> QED BY <1>1, <1>5, <1>6, <2>1, <3>1, <3>2 DEF StoredOnce
  <2> QED BY <2>2, <2>3, <2>4, <2>5 DEF StreamInv
<1>9. \A u \in Inlets : StreamInv(u)'
  BY <1>1, <1>6, <1>8, StreamElsewhere DEF ConsumerInv
<1>10. Consumer!CleanStop'
  BY <1>1 DEF Consumer!CleanStop
<1>11. MissingInv'
  <2>1. CASE "traces" \in Inlets
    <3>1. Missing' \subseteq Missing
      BY <1>1, <1>6, <2>1 DEF Missing
    <3> QED BY <1>1, <1>7, <3>1, MissingKept DEF ConsumerInv, ProcessTypes
  <2>2. CASE "traces" \notin Inlets
    BY <2>2 DEF MissingInv
  <2> QED BY <2>1, <2>2
<1> QED BY <1>7, <1>9, <1>10, <1>11 DEF ConsumerInv

\* What a batch insert tells: it says that all is well only of records it drops.
LEMMA BatchInsertTells ==
  ASSUME ConsumerInv, NEW s \in Inlets, NEW ok \in BOOLEAN, Consumer!batchInsert(s, ok)
  PROVE  /\ kept' \in 0 .. MaxOpenConns /\ outages' \in 0 .. MaxOutages
         /\ kept <= kept' /\ outages <= outages'
         /\ ok => \A i \in Members(events[s]) : shard[s][i] = IF s = "metrics" THEN "proto" ELSE "json"
<1>1. \/ s = "traces" /\ Consumer!InsertTraceProtobufBatch(Consumer!Protos(s), Consumer!ctxDone, ok)
      \/ s = "metrics" /\ Consumer!InsertMetricProtobufBatch(Consumer!Elements(events[s]), Consumer!Protos(s), ok)
      \/ s = "logs" /\ Consumer!InsertLogProtobufBatch(Consumer!Protos(s), Consumer!ctxDone, ok)
  BY ConsumerConstants DEF Consumer!batchInsert
<1>2. kept \in 0 .. MaxOpenConns /\ outages \in 0 .. MaxOutages
  BY DEF ConsumerInv, ProcessTypes
<1>3. /\ Consumer!Elements(events[s]) = Members(events[s])
      /\ Consumer!Protos(s) = {i \in Members(events[s]) : shard[s][i] = "proto"}
  BY DEF Consumer!Elements, Consumer!Protos, Members
<1>4. \A i \in Members(events[s]) : shard[s][i] \in {"proto", "json"}
  BY StreamFacts DEF Members, StreamInv, BatchInOrder, Consumer!Formats
<1>5. /\ kept' \in 0 .. MaxOpenConns /\ outages' \in 0 .. MaxOutages
      /\ kept <= kept' /\ outages <= outages'
  <2>1. \/ UNCHANGED <<kept, outages>>
        \/ kept < MaxOpenConns /\ kept' = kept + 1 /\ UNCHANGED outages
        \/ outages < MaxOutages /\ outages' = outages + 1 /\ UNCHANGED kept
    <3>1. CASE s = "traces" /\ Consumer!InsertTraceProtobufBatch(Consumer!Protos(s), Consumer!ctxDone, ok)
      BY <3>1 DEF Consumer!InsertTraceProtobufBatch, Consumer!PrepareBatch, Consumer!Abandon,
         Consumer!Refused, Consumer!poolVars
    <3>2. CASE s = "metrics" /\ Consumer!InsertMetricProtobufBatch(Consumer!Elements(events[s]),
                                                                 Consumer!Protos(s), ok)
      BY <3>2 DEF Consumer!InsertMetricProtobufBatch, Consumer!poolVars
    <3>3. CASE s = "logs" /\ Consumer!InsertLogProtobufBatch(Consumer!Protos(s), Consumer!ctxDone, ok)
      BY <3>3 DEF Consumer!InsertLogProtobufBatch, Consumer!PrepareBatch, Consumer!Abandon,
         Consumer!Refused, Consumer!poolVars
    <3> QED BY <1>1, <3>1, <3>2, <3>3
  <2> QED BY <1>2, <2>1, ConsumerConstants
<1>6. ASSUME ok, NEW i \in Members(events[s])
      PROVE  shard[s][i] = IF s = "metrics" THEN "proto" ELSE "json"
  <2>1. CASE s = "metrics"
    <3>1. Consumer!InsertMetricProtobuf(i \in Consumer!Protos(s))
      BY <1>1, <1>3, <1>6, <2>1 DEF Consumer!InsertMetricProtobufBatch
    <3> QED BY <1>3, <2>1, <3>1 DEF Consumer!InsertMetricProtobuf
  <2>2. CASE s # "metrics"
    <3>1. Consumer!Protos(s) = {}
      BY <1>1, <1>6, <2>2 DEF Consumer!InsertTraceProtobufBatch, Consumer!InsertLogProtobufBatch,
         Consumer!AppendSpanToBatch, Consumer!AppendLogToBatch
    <3> QED BY <1>3, <1>4, <2>2, <3>1
  <2> QED BY <2>1, <2>2
<1> QED BY <1>5, <1>6

\* A batch that was inserted is reported; one that was refused is kept for the
\* record by record inserts.
LEMMA BatchKeeps ==
  ASSUME ConsumerInv, NEW s \in Inlets, Consumer!processBatch(s)
  PROVE  ConsumerInv'
<1>1. PICK ok \in BOOLEAN :
        /\ Consumer!batchInsert(s, ok)
        /\ IF ok
           THEN /\ poller' = [poller EXCEPT ![s] = "select"]
                /\ reported' = [reported EXCEPT ![s] = @ \cup Members(events[s])]
                /\ events' = [events EXCEPT ![s] = <<>>]
           ELSE /\ poller' = [poller EXCEPT ![s] = "fallback"]
                /\ UNCHANGED <<reported, events>>
  BY DEF Consumer!processBatch, Consumer!Elements, Members
<1>2. /\ poller[s] = "batch"
      /\ UNCHANGED <<shard, open, expired, iterator, app, stopChan, timedOut, starts, rows, logged>>
  BY DEF Consumer!processBatch, Consumer!kinesisVars, Consumer!processVars
<1>3. /\ kept' \in 0 .. MaxOpenConns /\ outages' \in 0 .. MaxOutages
      /\ kept <= kept' /\ outages <= outages'
      /\ ok => \A i \in Members(events[s]) : shard[s][i] = IF s = "metrics" THEN "proto" ELSE "json"
  BY <1>1, BatchInsertTells
<1>4. /\ poller'[s] = IF ok THEN "select" ELSE "fallback"
      /\ reported'[s] = IF ok THEN reported[s] \cup Members(events[s]) ELSE reported[s]
      /\ events'[s] = IF ok THEN <<>> ELSE events[s]
      /\ \A u \in Inlets \ {s} :
           poller'[u] = poller[u] /\ reported'[u] = reported[u] /\ events'[u] = events[u]
      /\ DOMAIN reported' = Inlets /\ DOMAIN events' = Inlets /\ poller' \in [Inlets -> Consumer!PCs]
  <2>1. CASE ok
    BY <1>1, <2>1 DEF ConsumerInv, ProcessTypes, Consumer!PCs
  <2>2. CASE ~ok
    BY <1>1, <2>2 DEF ConsumerInv, ProcessTypes, Consumer!PCs
  <2> QED BY <2>1, <2>2
<1>5. ProcessTypes'
  BY <1>2, <1>3, <1>4 DEF ConsumerInv, ProcessTypes
<1>6. StreamInv(s)'
  <2>1. /\ Positions(s)' = Positions(s) /\ StreamInv(s) /\ app # "down" /\ events[s] # <<>>
    BY <1>2, StreamFacts DEF Positions, StreamInv, StreamTypes
  <2>2. Members(events'[s]) \subseteq Members(events[s])
    BY <1>4 DEF Members
  <2>3. Members(events[s]) \subseteq 1 .. Len(shard[s])
    BY <2>1 DEF StreamInv, BatchInOrder, Members
  <2>4. StreamTypes(s)'
    <3>1. events'[s] \in Seq(Positions(s)) /\ reported'[s] \subseteq 1 .. Len(shard[s])
      BY <1>4, <2>1, <2>3 DEF StreamInv, StreamTypes
    <3> QED BY <1>2, <1>4, <2>1, <3>1 DEF StreamInv, StreamTypes
  <2>5. BatchInOrder(s)'
    BY <1>2, <1>4, <2>1 DEF StreamInv, BatchInOrder
  <2>6. PassedBy(s)'
    BY <1>2, <1>3, <1>4, <2>1 DEF StreamInv, PassedBy
  <2>7. StoredOnce(s)'
    BY <1>2, <2>1, <2>2 DEF StreamInv, StoredOnce
  <2> QED BY <2>4, <2>5, <2>6, <2>7 DEF StreamInv
<1>7. \A u \in Inlets : StreamInv(u)'
  BY <1>2, <1>4, <1>6, StreamElsewhere DEF ConsumerInv
<1>8. Consumer!CleanStop'
  BY <1>2 DEF ConsumerInv, Consumer!CleanStop
<1>9. Missing' = Missing
  BY <1>2 DEF Missing
<1>10. MissingInv'
  BY <1>2, <1>3, <1>5, <1>9, MissingKept DEF ConsumerInv
<1> QED BY <1>5, <1>7, <1>8, <1>10 DEF ConsumerInv

\* The first of a batch and the others.
LEMMA HeadAndTail ==
  ASSUME NEW S, NEW q \in Seq(S), q # <<>>, NEW n \in Nat, S \subseteq 1 .. n,
         \A i, j \in 1 .. Len(q) : i < j => q[i] < q[j]
  PROVE  /\ Head(q) \in S /\ Head(q) \in Members(q) /\ Tail(q) \in Seq(S)
         /\ Tail(q) # <<>> <=> Len(q) > 1
         /\ Head(q) \notin Members(Tail(q)) /\ Members(q) = {Head(q)} \cup Members(Tail(q))
         /\ \A i \in 1 .. Len(Tail(q)) : Tail(q)[i] \in Members(q)
         /\ \A i, j \in 1 .. Len(Tail(q)) : i < j => Tail(q)[i] < Tail(q)[j]
<1>1. /\ Head(q) \in S /\ Tail(q) \in Seq(S) /\ Len(Tail(q)) = Len(q) - 1 /\ Len(q) \in Nat
      /\ \A i \in 1 .. Len(Tail(q)) : Tail(q)[i] = q[i + 1]
  BY HeadTailProperties, LenProperties
<1>2. Len(q) > 0 /\ Head(q) = q[1]
  BY EmptySeq
<1>3. Tail(q) # <<>> <=> Len(q) > 1
  <2>1. Tail(q) = <<>> <=> Len(Tail(q)) = 0
    BY <1>1, EmptySeq
  <2> QED BY <1>1, <2>1
<1>4. Head(q) \in Members(q)
  BY <1>1, <1>2 DEF Members
<1>5. \A i \in 1 .. Len(Tail(q)) : Tail(q)[i] \in Members(q) /\ i + 1 \in 1 .. Len(q)
  BY <1>1 DEF Members
<1>6. Head(q) \notin Members(Tail(q))
  <2>1. q[1] \in Int /\ 1 \in 1 .. Len(q)
    <3>1. Head(q) \in Int
      <4>1. \A x \in S : x \in Int
        OBVIOUS
      <4> QED BY <1>1, <4>1, Zenon
    <3>2. Len(q) \in Nat /\ Len(q) # 0
      BY <1>1, <1>2
    <3> QED BY <1>2, <3>1, <3>2
  <2>2. ASSUME NEW i \in 1 .. Len(Tail(q)) PROVE q[1] < q[i + 1]
    <3>1. i + 1 \in 1 .. Len(q) /\ 1 < i + 1
      BY <1>5
    <3> QED BY <2>1, <3>1
  <2> QED BY <1>1, <1>2, <2>1, <2>2 DEF Members
<1>7. Members(q) = {Head(q)} \cup Members(Tail(q))
  <2>1. ASSUME NEW i \in 1 .. Len(q) PROVE q[i] \in {Head(q)} \cup Members(Tail(q))
    <3>1. CASE i = 1
      BY <1>2, <3>1
    <3>2. CASE i # 1
      <4>1. i - 1 \in 1 .. Len(Tail(q)) /\ Tail(q)[i - 1] = q[i]
        BY <1>1, <3>2
      <4> QED BY <4>1 DEF Members
    <3> QED BY <3>1, <3>2
  <2> QED BY <1>4, <1>5, <2>1 DEF Members
<1>8. \A i, j \in 1 .. Len(Tail(q)) : i < j => Tail(q)[i] < Tail(q)[j]
  BY <1>1, <1>5
<1> QED BY <1>1, <1>3, <1>4, <1>5, <1>6, <1>7, <1>8

\* What the insert of one record tells: it says that all is well only of a trace
\* that it stored, and refuses one only with the database, the pool or the context.
LEMMA SingleInsertTells ==
  ASSUME ConsumerInv, NEW s \in Inlets, NEW ok \in BOOLEAN, NEW stored \in BOOLEAN,
         Consumer!singleInsert(s, ok, stored)
  PROVE  /\ kept' = kept /\ outages' \in 0 .. MaxOutages /\ outages <= outages'
         /\ ok => stored
         /\ s = "traces" /\ ~ok => outages' = outages + 1 \/ ~(kept < MaxOpenConns) \/ app = "closing"
<1>1. \/ s = "traces" /\ Consumer!InsertTrace(Consumer!ctxDone, ok, stored)
      \/ s = "metrics" /\ Consumer!InsertMetric(ok, stored)
      \/ s = "logs" /\ Consumer!InsertLog(ok, stored)
  BY ConsumerConstants DEF Consumer!singleInsert
<1>2. outages \in 0 .. MaxOutages /\ MaxOutages \in Nat
  BY ConsumerConstants DEF ConsumerInv, ProcessTypes
<1>3. CASE s = "traces" /\ Consumer!InsertTrace(Consumer!ctxDone, ok, stored)
  <2>1. CASE ok /\ stored /\ UNCHANGED <<kept, outages>>
    BY <1>2, <2>1
  <2>2. CASE ~ok /\ Consumer!Refused(Consumer!ctxDone)
    <3>1. /\ kept' = kept
          /\ \/ outages < MaxOutages /\ outages' = outages + 1
             \/ (~(kept < MaxOpenConns) \/ app = "closing") /\ outages' = outages
      BY <2>2 DEF Consumer!Refused, Consumer!PrepareBatch, Consumer!ctxDone, Consumer!poolVars
    <3> QED BY <1>2, <2>2, <3>1
  <2> QED BY <1>3, <2>1, <2>2 DEF Consumer!InsertTrace, Consumer!poolVars
<1>4. CASE s = "metrics" /\ Consumer!InsertMetric(ok, stored)
  BY <1>2, <1>4 DEF Consumer!InsertMetric, Consumer!parseMetricsData, Consumer!poolVars
<1>5. CASE s = "logs" /\ Consumer!InsertLog(ok, stored)
  BY <1>2, <1>5 DEF Consumer!InsertLog, Consumer!parseLogsData, Consumer!poolVars
<1> QED BY <1>1, <1>3, <1>4, <1>5

\* The record by record inserts: the first record of the batch is stored or logged,
\* and leaves the batch.
LEMMA DirectKeeps ==
  ASSUME ConsumerInv, NEW s \in Inlets, Consumer!processRecordDirect(s)
  PROVE  ConsumerInv'
<1> DEFINE q == events[s]
           h == Head(q)
<1>1. PICK ok \in BOOLEAN, stored \in BOOLEAN :
        /\ Consumer!singleInsert(s, ok, stored)
        /\ rows' = IF stored THEN [rows EXCEPT ![s][h] = IF @ < 2 THEN @ + 1 ELSE @] ELSE rows
        /\ logged' = IF ok THEN logged ELSE [logged EXCEPT ![s] = @ \cup {h}]
        /\ events' = [events EXCEPT ![s] = Tail(@)]
        /\ poller' = [poller EXCEPT ![s] = IF Len(q) > 1 THEN "fallback" ELSE "select"]
  BY DEF Consumer!processRecordDirect, Consumer!NextRecord, Consumer!Store
<1>2. /\ poller[s] = "fallback"
      /\ UNCHANGED <<shard, open, expired, iterator, app, stopChan, timedOut, starts, reported>>
  BY DEF Consumer!processRecordDirect, Consumer!kinesisVars, Consumer!processVars
<1>3. /\ kept' = kept /\ outages' \in 0 .. MaxOutages /\ outages <= outages'
      /\ ok => stored
      /\ s = "traces" /\ ~ok => outages' = outages + 1 \/ ~(kept < MaxOpenConns) \/ app = "closing"
  BY <1>1, SingleInsertTells
<1>4. /\ StreamInv(s) /\ app # "down" /\ q # <<>> /\ q \in Seq(Positions(s))
      /\ MaxRecords[s] \in Nat /\ Positions(s) = 1 .. MaxRecords[s] /\ Positions(s)' = Positions(s)
      /\ \A i, j \in 1 .. Len(q) : i < j => q[i] < q[j]
  BY <1>2, StreamFacts DEF Positions, StreamInv, StreamTypes, BatchInOrder
<1>5. /\ h \in Positions(s) /\ h \in Members(q) /\ Tail(q) \in Seq(Positions(s))
      /\ Tail(q) # <<>> <=> Len(q) > 1
      /\ h \notin Members(Tail(q)) /\ Members(q) = {h} \cup Members(Tail(q))
      /\ \A i \in 1 .. Len(Tail(q)) : Tail(q)[i] \in Members(q)
      /\ \A i, j \in 1 .. Len(Tail(q)) : i < j => Tail(q)[i] < Tail(q)[j]
  <2> HIDE DEF q
  <2> QED BY <1>4, HeadAndTail
<1>6. \A i \in Members(q) :
        /\ i \in 1 .. Len(shard[s]) /\ shard[s][i] # "garbage"
        /\ open[s] => i < iterator[s]
  BY <1>4 DEF StreamInv, BatchInOrder, Members
<1>7. /\ rows[s] \in [Positions(s) -> 0 .. 2] /\ rows'[s] \in [Positions(s) -> 0 .. 2]
      /\ \A i \in Positions(s) : i # h => rows'[s][i] = rows[s][i]
      /\ rows'[s][h] \in {rows[s][h], rows[s][h] + 1}
      /\ stored => rows'[s][h] > 0
      /\ \A i \in Positions(s) : rows[s][i] > 0 => rows'[s][i] > 0
      /\ \A u \in Inlets \ {s} : rows'[u] = rows[u]
      /\ DOMAIN rows' = Inlets
  <2>1. rows[s] \in [Positions(s) -> 0 .. 2] /\ DOMAIN rows = Inlets
    BY <1>4 DEF StreamInv, StreamTypes, ConsumerInv, ProcessTypes
  <2>2. CASE stored
    <3>1. rows'[s] = [rows[s] EXCEPT ![h] = IF @ < 2 THEN @ + 1 ELSE @]
      BY <1>1, <2>1, <2>2
    <3>2. rows[s][h] \in 0 .. 2
      BY <1>5, <2>1
    <3>3. /\ DOMAIN rows' = Inlets /\ \A u \in Inlets \ {s} : rows'[u] = rows[u]
      BY <1>1, <2>1, <2>2
    <3> HIDE DEF h, q
    <3> QED BY <1>5, <2>1, <2>2, <3>1, <3>2, <3>3
  <2>3. CASE ~stored
    BY <1>1, <1>5, <2>1, <2>3
  <2> QED BY <2>2, <2>3
<1>8. /\ logged'[s] = IF ok THEN logged[s] ELSE logged[s] \cup {h}
      /\ events'[s] = Tail(q) /\ poller'[s] = IF Len(q) > 1 THEN "fallback" ELSE "select"
      /\ \A u \in Inlets \ {s} :
           logged'[u] = logged[u] /\ events'[u] = events[u] /\ poller'[u] = poller[u]
      /\ DOMAIN logged' = Inlets /\ DOMAIN events' = Inlets
  BY <1>1 DEF ConsumerInv, ProcessTypes
<1>9. ProcessTypes'
  <2>1. poller' \in [Inlets -> Consumer!PCs]
    BY <1>1 DEF ConsumerInv, ProcessTypes, Consumer!PCs
  <2> QED BY <1>2, <1>3, <1>7, <1>8, <2>1 DEF ConsumerInv, ProcessTypes
<1> HIDE DEF h, q
<1>10. StreamInv(s)'
  <2>1. StreamTypes(s)'
    <3>1. logged'[s] \subseteq 1 .. Len(shard[s])
      BY <1>4, <1>5, <1>6, <1>8 DEF StreamInv, StreamTypes
    <3>2. poller'[s] \in {"batch", "fallback"} <=> events'[s] # <<>>
      BY <1>5, <1>8
    <3> QED BY <1>2, <1>4, <1>5, <1>7, <1>8, <3>1, <3>2 DEF StreamInv, StreamTypes
  <2>2. BatchInOrder(s)'
    BY <1>2, <1>5, <1>6, <1>8 DEF BatchInOrder
  <2>3. PassedBy(s)'
    <3> SUFFICES ASSUME NEW i \in 1 .. iterator[s] - 1
                 PROVE  \/ i \in Members(Tail(q)) \/ i \in logged'[s] \/ rows'[s][i] > 0
                        \/ i \in reported[s] /\ shard[s][i] = IF s = "metrics" THEN "proto" ELSE "json"
      BY <1>2, <1>8 DEF PassedBy
    <3>1. i \in Positions(s)
      BY <1>4, StreamFacts DEF StreamInv, StreamTypes
    <3>2. CASE i = h
      BY <1>3, <1>7, <1>8, <3>2
    <3>3. CASE i # h
      <4>1. \/ i \in Members(q) \/ i \in logged[s] \/ rows[s][i] > 0
            \/ i \in reported[s] /\ shard[s][i] = IF s = "metrics" THEN "proto" ELSE "json"
        BY <1>4 DEF StreamInv, PassedBy, q
      <4> QED BY <1>5, <1>7, <1>8, <3>1, <3>3, <4>1
    <3> QED BY <3>2, <3>3
  <2>4. StoredOnce(s)'
    <3>1. starts # 0
      BY <1>4 DEF ConsumerInv, ProcessTypes
    <3>2. ASSUME open[s], starts <= 1, NEW i \in Positions(s)
          PROVE  rows'[s][i] <= 1 /\ (rows'[s][i] > 0 => i < iterator[s] /\ i \notin Members(Tail(q)))
      <4>1. /\ rows[s][i] <= 1 /\ (rows[s][i] > 0 => i < iterator[s] /\ i \notin Members(q))
            /\ rows[s][i] \in 0 .. 2
        BY <1>4, <1>7, <3>2 DEF StreamInv, StoredOnce, q
      <4>2. CASE i = h
        BY <1>5, <1>6, <1>7, <3>2, <4>1, <4>2
      <4>3. CASE i # h
        BY <1>5, <1>7, <4>1, <4>3
      <4> QED BY <4>2, <4>3
    <3> QED BY <1>2, <1>4, <1>8, <3>1, <3>2 DEF StoredOnce
  <2> QED BY <2>1, <2>2, <2>3, <2>4 DEF StreamInv
<1>11. \A u \in Inlets : StreamInv(u)'
  BY <1>2, <1>7, <1>8, <1>10, StreamElsewhere DEF ConsumerInv
<1>12. Consumer!CleanStop'
  BY <1>2 DEF ConsumerInv, Consumer!CleanStop
<1>13. MissingInv'
  <2>1. CASE "traces" \notin Inlets
    BY <2>1 DEF MissingInv
  <2>2. CASE "traces" \in Inlets /\ (s # "traces" \/ ok)
    <3>1. logged'["traces"] = logged["traces"]
      BY <1>8, <2>2
    <3>2. \A i \in logged["traces"] : rows'["traces"][i] = 0 => rows["traces"][i] = 0
      <4>1. CASE s # "traces"
        BY <1>7, <2>2, <4>1
      <4>2. CASE s = "traces"
        <5>1. logged["traces"] \subseteq Positions(s)
          BY <1>4, <4>2, StreamFacts DEF StreamInv, StreamTypes
        <5> QED BY <1>7, <4>2, <5>1
      <4> QED BY <4>1, <4>2
    <3>3. Missing' \subseteq Missing
      BY <1>2, <3>1, <3>2 DEF Missing
    <3> QED BY <1>2, <1>3, <1>9, <3>3, MissingKept DEF ConsumerInv, ProcessTypes
  <2>3. CASE "traces" \in Inlets /\ s = "traces" /\ ~ok
    <3> SUFFICES ASSUME kept' < MaxOpenConns, app' # "closing"
                 PROVE  Cardinality(Missing') <= outages'
      BY DEF MissingInv
    <3>1. outages' = outages + 1 /\ Cardinality(Missing) <= outages /\ outages \in Nat
      BY <1>2, <1>3, <2>3 DEF ConsumerInv, MissingInv, ProcessTypes
    <3>2. Missing' \subseteq Missing \cup {h}
      <4>1. logged["traces"] \subseteq Positions(s)
        BY <1>4, <2>3, StreamFacts DEF StreamInv, StreamTypes
      <4> QED BY <1>2, <1>7, <1>8, <2>3, <4>1 DEF Missing
    <3>3. /\ IsFiniteSet(Missing \cup {h}) /\ Cardinality(Missing \cup {h}) \in Nat
          /\ Cardinality(Missing \cup {h}) <= Cardinality(Missing) + 1 /\ Cardinality(Missing) \in Nat
      <4>1. IsFiniteSet(Missing) /\ Cardinality(Missing) \in Nat
        BY <2>3, MissingFinite
      <4>2. /\ IsFiniteSet(Missing \cup {h})
            /\ Cardinality(Missing \cup {h}) \in {Cardinality(Missing), Cardinality(Missing) + 1}
        BY <4>1, FS_AddElement
      <4> QED BY <4>1, <4>2
    <3>4. Cardinality(Missing') <= Cardinality(Missing \cup {h}) /\ Cardinality(Missing') \in Nat
      BY <3>2, <3>3, FS_Subset, FS_CardinalityType
    <3> QED BY <3>1, <3>3, <3>4
  <2> QED BY <2>1, <2>2, <2>3
<1> QED BY <1>9, <1>11, <1>12, <1>13 DEF ConsumerInv

\* The invariant of the consumer holds in every state.
LEMMA ConsumerInvariance == Consumer!Spec => []ConsumerInv
<1>1. ASSUME ConsumerInv, [Consumer!Next]_Consumer!vars PROVE ConsumerInv'
  <2>1. CASE Consumer!Start
    BY <1>1, <2>1, StartKeeps
  <2>2. CASE Consumer!Shutdown \/ Consumer!StopReturns \/ Consumer!StopTimesOut
    BY <1>1, <2>2, ShutdownKeeps
  <2>3. CASE Consumer!Exit \/ Consumer!Crash
    BY <1>1, <2>3, EndKeeps
  <2>4. ASSUME NEW s \in Inlets,
               \/ \E format \in Consumer!Formats : Consumer!PutRecord(s, format)
               \/ Consumer!CloseShard(s) \/ Consumer!Expire(s) \/ Consumer!Leave(s)
        PROVE  ConsumerInv'
    BY <1>1, <2>4, KinesisKeeps
  <2>5. ASSUME NEW s \in Inlets,
               \/ \E last \in 0 .. MaxRecords[s] : Consumer!Poll(s, last)
               \/ Consumer!processBatch(s) \/ Consumer!processRecordDirect(s)
        PROVE  ConsumerInv'
    BY <1>1, <2>5, PollKeeps, BatchKeeps, DirectKeeps
  <2>6. CASE UNCHANGED Consumer!vars
    <3>1. UNCHANGED consumerVars
      BY <2>6 DEF Consumer!vars, Consumer!poolVars, consumerVars
    <3>2. \A s \in Inlets : StreamInv(s)'
      BY <1>1, <3>1, StreamElsewhere DEF ConsumerInv, consumerVars
    <3>3. Consumer!CleanStop' /\ ProcessTypes' /\ MissingInv'
      BY <1>1, <3>1 DEF ConsumerInv, consumerVars, Consumer!CleanStop, ProcessTypes, MissingInv, Missing
    <3> QED BY <3>2, <3>3 DEF ConsumerInv
  <2> QED BY <1>1, <2>1, <2>2, <2>3, <2>4, <2>5, <2>6 DEF Consumer!Next
<1> QED BY <1>1, ConsumerInit, PTL DEF Consumer!Spec

\* The consumer's state has its type, and a goroutine has a batch exactly while it
\* is inserting.
THEOREM ConsumerTypes == Consumer!Spec => []Consumer!TypeOK
<1>1. ConsumerInv => Consumer!TypeOK
  <2> SUFFICES ASSUME ConsumerInv PROVE Consumer!TypeOK
    OBVIOUS
  <2>1. ASSUME NEW s \in Inlets
        PROVE  /\ shard[s] \in Seq(Consumer!Formats) /\ Len(shard[s]) <= MaxRecords[s]
               /\ iterator[s] \in IF app = "down" THEN {0} ELSE 1 .. Len(shard[s]) + 1
               /\ events[s] \in Seq(Consumer!Positions(s))
               /\ rows[s] \in [Consumer!Positions(s) -> 0 .. 2]
               /\ logged[s] \subseteq Consumer!Positions(s) /\ reported[s] \subseteq Consumer!Positions(s)
               /\ poller[s] \in {"batch", "fallback"} <=> events[s] # <<>>
    <3>1. /\ Consumer!Positions(s) = Positions(s) /\ Positions(s) = 1 .. MaxRecords[s] /\ StreamTypes(s)
          /\ Len(shard[s]) \in Nat /\ Len(shard[s]) <= MaxRecords[s] /\ MaxRecords[s] \in Nat
      BY StreamFacts DEF Consumer!Positions, Positions, StreamInv, StreamTypes
    <3>2. logged[s] \subseteq Positions(s) /\ reported[s] \subseteq Positions(s)
      BY <3>1 DEF StreamTypes
    <3> QED BY <3>1, <3>2 DEF StreamTypes
  <2> QED BY <2>1 DEF ConsumerInv, ProcessTypes, Consumer!TypeOK, Consumer!PoolTypeOK
<1> QED BY <1>1, ConsumerInvariance, PTL

\* No record is passed by without a trace: it is in hand, stored, logged, or of a
\* kind whose batch insert drops it and reports it.
THEOREM AccountedHolds == Consumer!Spec => []Accounted
<1>1. ConsumerInv => Accounted
  <2> SUFFICES ASSUME ConsumerInv, app # "down", NEW s \in Inlets, NEW i \in 1 .. iterator[s] - 1
               PROVE  \/ i \in Consumer!Elements(events[s]) \/ i \in logged[s] \/ rows[s][i] > 0
                      \/ Consumer!Dropped(s, i)
    BY DEF Accounted, Consumer!Accounted
  <2> QED BY DEF ConsumerInv, StreamInv, PassedBy, Members, Consumer!Elements, Consumer!Dropped
<1> QED BY <1>1, ConsumerInvariance, PTL

\* While the pool has a connection, no more parsed traces are missing from the
\* database than calls of it failed.
THEOREM StoredUntilDryHolds == Consumer!Spec => []StoredUntilDry
<1>1. ConsumerInv => StoredUntilDry
  <2> SUFFICES ASSUME ConsumerInv, kept < MaxOpenConns, app # "closing", NEW s \in Inlets \cap {"traces"}
               PROVE  Cardinality({i \in logged[s] : shard[s][i] # "garbage" /\ rows[s][i] = 0}) <= outages
    BY SameCount2 DEF StoredUntilDry, Consumer!StoredUntilDry
  <2>1. s = "traces" /\ "traces" \in Inlets
    OBVIOUS
  <2>2. Cardinality(Missing) <= outages
    BY <2>1 DEF ConsumerInv, MissingInv
  <2> QED BY <2>1, <2>2 DEF Missing
<1> QED BY <1>1, ConsumerInvariance, PTL

\* A record is stored twice only after a second start or at the end of a closed
\* shard, and never by the fallback alone.
THEOREM DuplicatesHolds == Consumer!Spec => []Duplicates
<1>1. ConsumerInv => Duplicates
  <2> SUFFICES ASSUME ConsumerInv, NEW s \in Inlets, NEW i \in Positions(s), rows[s][i] > 1
               PROVE  starts > 1 \/ ~open[s]
    BY DEF Duplicates, Consumer!Duplicates, Consumer!Positions, Positions
  <2>1. rows[s][i] \in 0 .. 2 /\ starts \in Nat
    BY StreamFacts, ConsumerConstants DEF StreamInv, StreamTypes, ConsumerInv, ProcessTypes
  <2>2. open[s] /\ starts <= 1 => rows[s][i] <= 1
    BY DEF ConsumerInv, StreamInv, StoredOnce
  <2> QED BY <2>1, <2>2
<1> QED BY <1>1, ConsumerInvariance, PTL

\* A stop that succeeded has left no goroutine and no batch, of the processor or of
\* the consumer.
THEOREM CleanStopHolds == Batch!Spec /\ Consumer!Spec => []CleanStop
<1>1. BatchInv /\ ConsumerInv => CleanStop
  BY DEF BatchInv, ConsumerInv, CleanStop
<1> QED BY <1>1, BatchInvariance, ConsumerInvariance, PTL

\* The processor's fields and goroutines have their types, a batch its size and a
\* retry loop its attempts.
THEOREM BatchTypes == Batch!Spec => []Batch!TypeOK
<1>1. BatchInv => Batch!TypeOK
  BY DEF BatchInv
<1> QED BY <1>1, BatchInvariance, PTL
=============================================================================
