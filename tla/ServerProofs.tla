----------------------------- MODULE ServerProofs -----------------------------
(* Proofs about Server, for all values of its constants: of the health check,    *)
(* the answers to failing requests, the database monitor, the migrations and the *)
(* rate limiters, whose names are those of Server with a prefix, and of the       *)
(* whole.  IngestionProofs, CircuitBreakerProofs and SecretsProofs have the proofs *)
(* of the other parts.                                                           *)
EXTENDS IngestionProofs, CircuitBreakerProofs
-----------------------------------------------------------------------------
(* The answers to failing requests, for any requests, codes and pools.     *)

\* Between its abort and its end a request refers to an error.
Refers(r) == step[r] \notin {"serve", "done"}

\* The error is the request's own: in no pool, no other request's, and as it was
\* raised.
OwnsIt(r) ==
  /\ err[r] \in Errors!Errors \ pooled
  /\ code[err[r]] = raised[r]
  /\ \A q \in Failing : q # r /\ Refers(q) => err[q] # err[r]

\* What a request was answered is its error, or nothing of any error.
AnsweredOwn(r) ==
  sent[r] = None \/ sent[r].code = None
    \/ sent[r] = [status |-> Errors!getHTTPStatus(raised[r]), code |-> raised[r]]

\* The inductive invariant.
ErrorsInv ==
  /\ DOMAIN step = Failing /\ DOMAIN raised = Failing /\ DOMAIN err = Failing
  /\ DOMAIN sent = Failing /\ DOMAIN code = Errors!Errors /\ pooled \subseteq Errors!Errors
  /\ \A r \in Failing : Refers(r) => OwnsIt(r)
  /\ \A r \in Failing : step[r] = "serve" => sent[r] = None
  /\ \A r \in Failing : AnsweredOwn(r)

\* Nothing was raised at the start.
LEMMA ErrorsInit == Errors!Init => ErrorsInv
BY DEF Errors!Init, ErrorsInv, Refers, OwnsIt, AnsweredOwn

\* A step that leaves the errors and the answers alone keeps the invariant, if it
\* takes no request back to life.
LEMMA RequestSteps ==
  ASSUME ErrorsInv, NEW r \in Failing, Refers(r), NEW l, step' = [step EXCEPT ![r] = l], l # "serve",
         UNCHANGED <<raised, err, code, pooled, sent>>
  PROVE  ErrorsInv'
<1>1. /\ \A q \in Failing : Refers(q)' => Refers(q)
      /\ \A q \in Failing : step'[q] = "serve" => step[q] = "serve"
      /\ DOMAIN step' = Failing
  BY DEF Refers, ErrorsInv
<1>2. \A q \in Failing : Refers(q)' => OwnsIt(q)'
  BY <1>1 DEF ErrorsInv, OwnsIt
<1>3. \A q \in Failing : AnsweredOwn(q)'
  BY DEF ErrorsInv, AnsweredOwn
<1> QED BY <1>1, <1>2, <1>3 DEF ErrorsInv

\* New gives a request an error that nobody has.
LEMMA AbortKeeps ==
  ASSUME ErrorsInv, NEW r \in Failing, Errors!Abort(r)
  PROVE  ErrorsInv'
<1>1. PICK c \in Codes : Errors!New(r, Errors!AsAPIError(c)) /\ raised' = [raised EXCEPT ![r] = Errors!AsAPIError(c)]
  BY DEF Errors!Abort
<1>2. PICK e \in pooled \cup (Errors!Errors \ Errors!InUse) :
        /\ err' = [err EXCEPT ![r] = e] /\ code' = [code EXCEPT ![e] = Errors!AsAPIError(c)]
        /\ pooled' = pooled \ {e}
  BY <1>1 DEF Errors!New
<1>3. step[r] = "serve" /\ step' = [step EXCEPT ![r] = "log"] /\ sent' = sent
  BY DEF Errors!Abort, Errors!Goto
<1>4. \A q \in Failing : Refers(q) => err[q] # e /\ q # r
  <2> SUFFICES ASSUME NEW q \in Failing, Refers(q) PROVE err[q] # e /\ q # r
    OBVIOUS
  <2>1. err[q] \in Errors!InUse /\ err[q] \notin pooled
    BY DEF Errors!InUse, Refers, ErrorsInv, OwnsIt
  <2> QED BY <1>3, <2>1 DEF Refers
<1>5. e \in Errors!Errors
  BY DEF ErrorsInv
<1>6. /\ DOMAIN step' = Failing /\ DOMAIN raised' = Failing /\ DOMAIN err' = Failing
      /\ DOMAIN sent' = Failing /\ DOMAIN code' = Errors!Errors /\ pooled' \subseteq Errors!Errors
  BY <1>1, <1>2, <1>3 DEF ErrorsInv
<1>7. /\ err'[r] = e /\ code'[e] = Errors!AsAPIError(c) /\ raised'[r] = Errors!AsAPIError(c)
      /\ \A q \in Failing : q # r => err'[q] = err[q] /\ raised'[q] = raised[q] /\ (Refers(q)' <=> Refers(q))
  BY <1>1, <1>2, <1>3, <1>5 DEF ErrorsInv, Refers
<1>8. ASSUME NEW q \in Failing, Refers(q)' PROVE OwnsIt(q)'
  <2>1. CASE q = r
    BY <1>2, <1>4, <1>5, <1>7, <2>1 DEF OwnsIt
  <2>2. CASE q # r
    <3>1. Refers(q) /\ OwnsIt(q) /\ err'[q] = err[q] /\ err[q] # e /\ raised'[q] = raised[q]
      BY <1>4, <1>7, <1>8, <2>2 DEF ErrorsInv
    <3>2. code'[err[q]] = code[err[q]] /\ err[q] \in Errors!Errors \ pooled'
      BY <1>2, <1>6, <3>1 DEF OwnsIt, ErrorsInv
    <3>3. \A p \in Failing : p # q /\ Refers(p)' => err'[p] # err'[q]
      BY <1>7, <2>2, <3>1 DEF OwnsIt
    <3> QED BY <3>1, <3>2, <3>3 DEF OwnsIt
  <2> QED BY <2>1, <2>2
<1>9. /\ \A q \in Failing : step'[q] = "serve" => sent'[q] = None
      /\ sent[r] = None
  BY <1>3 DEF ErrorsInv
<1>10. \A q \in Failing : AnsweredOwn(q)'
  <2> SUFFICES ASSUME NEW q \in Failing PROVE AnsweredOwn(q)'
    OBVIOUS
  <2>1. CASE q = r
    BY <1>3, <1>9, <2>1 DEF AnsweredOwn
  <2>2. CASE q # r
    BY <1>3, <1>7, <2>2 DEF AnsweredOwn, ErrorsInv
  <2> QED BY <2>1, <2>2
<1> QED BY <1>6, <1>8, <1>9, <1>10 DEF ErrorsInv

\* The response is sent while the error is still the request's.
LEMMA SendKeeps ==
  ASSUME ErrorsInv, NEW r \in Failing, Errors!SendResponse(r) \/ Errors!Recover(r)
  PROVE  ErrorsInv'
<1>1. /\ Refers(r) /\ UNCHANGED <<raised, err, code, pooled>>
      /\ step' = [step EXCEPT ![r] = "release"] \/ step' = [step EXCEPT ![r] = "done"]
      /\ \/ sent' = [sent EXCEPT ![r] = [status |-> Errors!getHTTPStatus(code[err[r]]), code |-> code[err[r]]]]
         \/ sent' = [sent EXCEPT ![r] = [status |-> 500, code |-> None]]
  BY DEF Errors!SendResponse, Errors!Recover, Errors!Send, Errors!Goto, Errors!After, Refers
<1>2. /\ \A q \in Failing : Refers(q)' => Refers(q)
      /\ \A q \in Failing : step'[q] = "serve" => step[q] = "serve" /\ q # r
      /\ DOMAIN step' = Failing /\ DOMAIN sent' = Failing
  BY <1>1 DEF Refers, ErrorsInv
<1>3. \A q \in Failing : Refers(q)' => OwnsIt(q)'
  BY <1>1, <1>2 DEF ErrorsInv, OwnsIt
<1>4. \A q \in Failing : q # r => sent'[q] = sent[q]
  BY <1>1 DEF ErrorsInv
<1>5. AnsweredOwn(r)'
  <2>1. code[err[r]] = raised[r]
    BY <1>1 DEF ErrorsInv, OwnsIt
  <2>2. \/ sent'[r] = [status |-> Errors!getHTTPStatus(raised[r]), code |-> raised[r]]
        \/ sent'[r] = [status |-> 500, code |-> None]
    BY <1>1, <2>1 DEF ErrorsInv
  <2> QED BY <1>1, <2>2 DEF AnsweredOwn
<1>6. \A q \in Failing : q # r => AnsweredOwn(q)'
  BY <1>1, <1>4 DEF AnsweredOwn, ErrorsInv
<1> QED BY <1>1, <1>2, <1>3, <1>4, <1>5, <1>6 DEF ErrorsInv

\* An error enters the pool as its request ends.
LEMMA ReleaseKeeps ==
  ASSUME ErrorsInv, NEW r \in Failing, Errors!Release(r)
  PROVE  ErrorsInv'
<1>1. /\ Refers(r) /\ step' = [step EXCEPT ![r] = "done"] /\ pooled' = pooled \cup {err[r]}
      /\ UNCHANGED <<raised, err, code, sent>>
  BY DEF Errors!Release, Errors!Goto, Errors!After, Refers
<1>2. /\ \A q \in Failing : Refers(q)' => Refers(q) /\ q # r
      /\ \A q \in Failing : step'[q] = "serve" => step[q] = "serve"
      /\ DOMAIN step' = Failing
  BY <1>1 DEF Refers, ErrorsInv
<1>3. OwnsIt(r)
  BY <1>1 DEF ErrorsInv
<1>4. ASSUME NEW q \in Failing, Refers(q)' PROVE OwnsIt(q)'
  <2>1. OwnsIt(q) /\ err[q] # err[r]
    BY <1>2, <1>3, <1>4 DEF ErrorsInv, OwnsIt
  <2> QED BY <1>1, <1>2, <2>1 DEF OwnsIt
<1>5. pooled' \subseteq Errors!Errors
  BY <1>1, <1>3 DEF ErrorsInv, OwnsIt
<1>6. \A q \in Failing : AnsweredOwn(q)'
  BY <1>1 DEF ErrorsInv, AnsweredOwn
<1> QED BY <1>1, <1>2, <1>4, <1>5, <1>6 DEF ErrorsInv

\* What holds in every state, whatever requests do at once and whenever memory is
\* collected: an error that is in use is its request's own.
LEMMA ErrorsInvariance == Errors!Spec => []ErrorsInv
<1>1. ASSUME ErrorsInv, [Errors!Next]_Errors!vars PROVE ErrorsInv'
  <2>1. ASSUME NEW r \in Failing, Errors!Abort(r) PROVE ErrorsInv'
    BY <1>1, <2>1, AbortKeeps
  <2>2. ASSUME NEW r \in Failing, Errors!GetFields(r) \/ Errors!PutFields(r) \/ Errors!Respond(r) PROVE ErrorsInv'
    <3>1. /\ Refers(r) /\ UNCHANGED <<raised, err, code, pooled, sent>>
          /\ \E l \in {"put fields", "recover", "respond", "send"} : step' = [step EXCEPT ![r] = l]
      BY <2>2 DEF Errors!GetFields, Errors!PutFields, Errors!Respond, Errors!Goto, Errors!After, Refers
    <3> QED BY <1>1, <3>1, RequestSteps
  <2>3. ASSUME NEW r \in Failing, Errors!SendResponse(r) \/ Errors!Recover(r) PROVE ErrorsInv'
    BY <1>1, <2>3, SendKeeps
  <2>4. ASSUME NEW r \in Failing, Errors!Release(r) PROVE ErrorsInv'
    BY <1>1, <2>4, ReleaseKeeps
  <2>5. CASE Errors!Collect
    <3>1. UNCHANGED <<step, raised, err, code, sent>> /\ pooled' = {}
      BY <2>5 DEF Errors!Collect
    <3> QED BY <1>1, <3>1 DEF ErrorsInv, Refers, OwnsIt, AnsweredOwn
  <2>6. CASE UNCHANGED Errors!vars
    BY <1>1, <2>6 DEF Errors!vars, ErrorsInv, Refers, OwnsIt, AnsweredOwn
  <2> QED BY <1>1, <2>1, <2>2, <2>3, <2>4, <2>5, <2>6 DEF Errors!Next, Errors!Middleware
<1> QED BY <1>1, ErrorsInit, PTL DEF Errors!Spec

\* No request is answered with another one's error, however many share the pools.
THEOREM NobodyElses == Errors!Spec => []OwnError
<1>1. ErrorsInv => OwnError
  BY DEF ErrorsInv, AnsweredOwn, OwnError, Errors!OwnError
<1> QED BY <1>1, ErrorsInvariance, PTL
\* The requests that have given a slice back to its pool.
GaveBack == {r \in Failing : step[r] \in {"respond", "send", "release", "done"}}

\* The pool holds no more pointers than requests have put there.
Pooling ==
  /\ err \in [Failing -> {0} \cup Errors!Errors] /\ DOMAIN step = Failing
  /\ pointers \in Nat /\ pointers <= Cardinality(GaveBack)

\* Cardinalities in ErrorHandler are those of the library.
LEMMA ErrorsCount == \A S : Errors!Cardinality(S) = Cardinality(S) /\ (Errors!IsFiniteSet(S) <=> IsFiniteSet(S))
BY DEF Errors!Cardinality, Cardinality, Errors!IsFiniteSet, IsFiniteSet

\* Only a request that logs its failure puts a pointer there, and it does so once.
LEMMA PoolingNext == ASSUME InstancesAssumption PROVE ErrorsInv /\ Pooling /\ [Errors!Next]_Errors!vars => Pooling'
<1> SUFFICES ASSUME ErrorsInv, Pooling, [Errors!Next]_Errors!vars PROVE Pooling'
  OBVIOUS
<1>0. IsFiniteSet(Failing)
  BY InstancesAssumption, ErrorsCount DEF InstancesAssumption, Errors!ErrorAssumption
<1>1. /\ IsFiniteSet(GaveBack) /\ IsFiniteSet(GaveBack')
      /\ Cardinality(GaveBack) \in Nat /\ Cardinality(GaveBack') \in Nat
  <2>1. GaveBack \subseteq Failing /\ GaveBack' \subseteq Failing
    BY DEF GaveBack
  <2> QED BY <1>0, <2>1, FS_Subset, FS_CardinalityType
<1>2. ASSUME GaveBack \subseteq GaveBack', pointers' \in Nat, pointers' <= pointers,
             err' \in [Failing -> {0} \cup Errors!Errors], DOMAIN step' = Failing
      PROVE  Pooling'
  <2>1. Cardinality(GaveBack) <= Cardinality(GaveBack')
    BY <1>1, <1>2, FS_Subset
  <2> QED BY <1>1, <1>2, <2>1 DEF Pooling
<1>3. ASSUME NEW r \in Failing, NEW l, step[r] # "done", step[r] \in {"respond", "send", "release"} => l \in {"send", "release", "done"},
             step' = [step EXCEPT ![r] = l], pointers' \in Nat, pointers' <= pointers,
             err' \in [Failing -> {0} \cup Errors!Errors]
      PROVE  Pooling'
  <2>1. GaveBack \subseteq GaveBack' /\ DOMAIN step' = Failing
    BY <1>3 DEF GaveBack, Pooling
  <2> QED BY <1>2, <1>3, <2>1
<1>4. ASSUME NEW r \in Failing, Errors!Abort(r) PROVE Pooling'
  <2>1. /\ step[r] = "serve" /\ step' = [step EXCEPT ![r] = "log"] /\ pointers' = pointers
        /\ \E c : Errors!New(r, c)
    BY <1>4 DEF Errors!Abort, Errors!Goto
  <2>2. PICK e \in pooled \cup (Errors!Errors \ Errors!InUse) : err' = [err EXCEPT ![r] = e]
    BY <2>1 DEF Errors!New
  <2>3. err' \in [Failing -> {0} \cup Errors!Errors]
    BY <2>2 DEF Pooling, ErrorsInv
  <2>4. pointers' \in Nat /\ pointers' <= pointers
    BY <2>1 DEF Pooling
  <2> QED BY <1>3, <2>1, <2>3, <2>4
<1>5. ASSUME NEW r \in Failing, Errors!GetFields(r) PROVE Pooling'
  <2>1. step[r] = "log" /\ err' = err /\ \E l : step' = [step EXCEPT ![r] = l]
    BY <1>5 DEF Errors!GetFields, Errors!Goto
  <2>2. pointers' = pointers \/ (pointers > 0 /\ pointers' = pointers - 1)
    BY <1>5 DEF Errors!GetFields
  <2>3. pointers' \in Nat /\ pointers' <= pointers
    BY <2>2 DEF Pooling
  <2>4. err' \in [Failing -> {0} \cup Errors!Errors]
    BY <2>1 DEF Pooling
  <2> QED BY <1>3, <2>1, <2>3, <2>4
<1>6. ASSUME NEW r \in Failing, Errors!PutFields(r) PROVE Pooling'
  <2>1. step[r] = "put fields" /\ step' = [step EXCEPT ![r] = "respond"] /\ pointers' = pointers + 1 /\ err' = err
    BY <1>6 DEF Errors!PutFields, Errors!Goto
  <2>2. GaveBack' = GaveBack \cup {r} /\ r \notin GaveBack
    BY <2>1 DEF GaveBack, Pooling
  <2>3. Cardinality(GaveBack') = Cardinality(GaveBack) + 1
    BY <1>1, <2>2, FS_AddElement
  <2>4. pointers' \in Nat /\ pointers' <= Cardinality(GaveBack')
    <3>1. pointers \in Nat /\ pointers <= Cardinality(GaveBack) /\ pointers' = pointers + 1
      BY <2>1 DEF Pooling
    <3> QED BY <1>1, <2>3, <3>1
  <2>5. DOMAIN step' = Failing /\ err' \in [Failing -> {0} \cup Errors!Errors]
    BY <2>1 DEF Pooling
  <2> QED BY <2>4, <2>5 DEF Pooling
<1>7. ASSUME NEW r \in Failing,
             \/ Errors!Respond(r) \/ Errors!SendResponse(r) \/ Errors!Release(r) \/ Errors!Recover(r)
      PROVE  Pooling'
  <2>1. /\ step[r] \in {"respond", "send", "release", "recover"} /\ err' = err /\ pointers' = pointers
        /\ \E l \in {"send", "release", "done"} : step' = [step EXCEPT ![r] = l]
    BY <1>7 DEF Errors!Respond, Errors!SendResponse, Errors!Release, Errors!Recover, Errors!Goto, Errors!After
  <2>2. pointers' \in Nat /\ pointers' <= pointers /\ err' \in [Failing -> {0} \cup Errors!Errors]
    BY <2>1 DEF Pooling
  <2>3. PICK l \in {"send", "release", "done"} : step' = [step EXCEPT ![r] = l]
    BY <2>1
  <2> QED BY <1>3, <2>1, <2>2, <2>3
<1>8. CASE Errors!Collect
  <2>1. pointers' = 0 /\ UNCHANGED <<step, err>>
    BY <1>8 DEF Errors!Collect
  <2> QED BY <1>2, <2>1 DEF Pooling, GaveBack
<1>9. CASE UNCHANGED Errors!vars
  BY <1>9 DEF Errors!vars, Pooling, GaveBack
<1> QED BY <1>4, <1>5, <1>6, <1>7, <1>8, <1>9 DEF Errors!Next, Errors!Middleware

\* The variables of the error handling stay in their types; a pointer in the pool
\* stands for a request that logged its failure.
THEOREM ErrorTypes == Errors!Spec => []Errors!TypeOK
<1>1. Errors!Init => Pooling
  <2>1. GaveBack \subseteq Failing
    BY DEF GaveBack
  <2>2. IsFiniteSet(GaveBack)
    BY <2>1, FS_Subset, InstancesAssumption, ErrorsCount DEF InstancesAssumption, Errors!ErrorAssumption
  <2>3. Cardinality(GaveBack) \in Nat
    BY <2>2, FS_CardinalityType
  <2> QED BY <2>3 DEF Errors!Init, Pooling
<1>2. Errors!Spec => []Pooling
  BY <1>1, PoolingNext, ErrorsInvariance, InstancesAssumption, PTL DEF Errors!Spec
<1>3. ErrorsInv /\ Pooling => Errors!TypeOK
  <2> SUFFICES ASSUME ErrorsInv, Pooling PROVE Errors!TypeOK
    OBVIOUS
  <2>1. IsFiniteSet(Failing) /\ GaveBack \subseteq Failing
    BY InstancesAssumption, ErrorsCount DEF InstancesAssumption, Errors!ErrorAssumption, GaveBack
  <2>2. Cardinality(GaveBack) <= Cardinality(Failing) /\ Cardinality(Failing) \in Nat /\ Cardinality(GaveBack) \in Nat
    BY <2>1, FS_Subset, FS_CardinalityType
  <2>3. pointers \in 0 .. Cardinality(Failing)
    BY <2>2 DEF Pooling
  <2> QED BY <2>3, ErrorsCount DEF ErrorsInv, Pooling, Errors!TypeOK
<1> QED BY <1>2, <1>3, ErrorsInvariance, PTL

-----------------------------------------------------------------------------
(* The migrations of the database, for any runners and any migrations.     *)

Stages == {"idle", "read", "next", "apply"}

\* The statements of a migration have these positions.
StatementsOf(v) == 1 .. Len(Files[v])

\* The runners' variables, and the statements that were executed.
RunnerTypes ==
  /\ stage \in [Runners -> Stages]
  /\ version \in [Runners -> 1 .. Len(Files) + 1]
  /\ statement \in [Runners -> Nat \ {0}]
  /\ DOMAIN applied = Runners
  /\ executed \in [Migrate!Versions -> SUBSET Nat]
  /\ \A v \in Migrate!Versions : executed[v] \subseteq StatementsOf(v)
  /\ recorded \subseteq Migrate!Versions

\* The migrations before this one are recorded.
RecordedBefore(v) == \A w \in 1 .. v - 1 : w \in recorded

\* A runner has passed recorded migrations only, and what it was told is true.
PassedRecorded(p) ==
  /\ applied[p] \subseteq recorded
  /\ stage[p] \in {"next", "apply"} => RecordedBefore(version[p])
  /\ stage[p] = "next" => statement[p] = 1

\* The statements before the next one were executed.
Applying(p) ==
  stage[p] = "apply" =>
    /\ version[p] \in Migrate!Versions /\ statement[p] <= Len(Files[version[p]]) + 1
    /\ 1 .. statement[p] - 1 \subseteq executed[version[p]]

\* The inductive invariant.
MigrateInv ==
  /\ RunnerTypes
  /\ \A p \in Runners : PassedRecorded(p) /\ Applying(p)
  /\ RecordedWasRun

\* What the assumption says of the sequences.
LEMMA FileTypes ==
  ASSUME Migrate!MigrationsAssumption
  PROVE  /\ Len(Files) \in Nat /\ Migrate!Versions = 1 .. Len(Files)
         /\ \A v \in Migrate!Versions : Len(Files[v]) \in Nat /\ DOMAIN Files[v] = StatementsOf(v)
BY DEF Migrate!MigrationsAssumption, Migrate!Versions, StatementsOf

\* Nothing is recorded and nothing executed at the start.
LEMMA MigrateInit == Migrate!MigrationsAssumption /\ Migrate!Init => MigrateInv
<1> SUFFICES ASSUME Migrate!MigrationsAssumption, Migrate!Init PROVE MigrateInv
  OBVIOUS
<1>1. RunnerTypes
  BY FileTypes DEF Migrate!Init, RunnerTypes, Stages
<1>2. \A p \in Runners : PassedRecorded(p) /\ Applying(p)
  BY DEF Migrate!Init, PassedRecorded, Applying
<1>3. RecordedWasRun
  BY DEF Migrate!Init, RecordedWasRun, Migrate!RecordedWasRun
<1> QED BY <1>1, <1>2, <1>3 DEF MigrateInv

\* What a runner has passed and executed stays so while others record and execute.
LEMMA OtherRunners ==
  ASSUME MigrateInv, NEW q \in Runners,
         stage'[q] = stage[q], applied'[q] = applied[q], version'[q] = version[q],
         statement'[q] = statement[q], recorded \subseteq recorded',
         \A v \in Migrate!Versions : executed[v] \subseteq executed'[v]
  PROVE  PassedRecorded(q)' /\ Applying(q)'
BY DEF MigrateInv, PassedRecorded, Applying, RecordedBefore

\* A step of a runner that records and executes nothing.
LEMMA RecordsNothing ==
  ASSUME MigrateInv, NEW p \in Runners, UNCHANGED <<recorded, executed>>, RunnerTypes',
         PassedRecorded(p)', Applying(p)',
         \A q \in Runners : q # p =>
           /\ stage'[q] = stage[q] /\ applied'[q] = applied[q] /\ version'[q] = version[q]
           /\ statement'[q] = statement[q]
  PROVE  MigrateInv'
<1>1. \A q \in Runners : q # p => PassedRecorded(q)' /\ Applying(q)'
  BY OtherRunners
<1>2. RecordedWasRun'
  BY DEF MigrateInv, RecordedWasRun, Migrate!RecordedWasRun
<1> QED BY <1>1, <1>2 DEF MigrateInv

\* A run begins, or ends.
LEMMA RunEnds ==
  ASSUME MigrateInv, NEW p \in Runners, NEW l \in {"idle", "read"}, Migrate!Goto(p, l),
         UNCHANGED <<applied, version, statement, recorded, executed>>
  PROVE  MigrateInv'
<1>1. RunnerTypes'
  BY DEF MigrateInv, RunnerTypes, Migrate!Goto, Stages
<1>2. /\ stage'[p] \notin {"next", "apply"} /\ applied'[p] = applied[p]
      /\ \A q \in Runners : q # p => stage'[q] = stage[q]
  BY DEF MigrateInv, RunnerTypes, Migrate!Goto
<1>3. PassedRecorded(p)' /\ Applying(p)'
  BY <1>2 DEF MigrateInv, PassedRecorded, Applying
<1> QED BY <1>1, <1>2, <1>3, RecordsNothing

\* The first migration has none before it.
LEMMA ReadingKeeps ==
  ASSUME Migrate!MigrationsAssumption, MigrateInv, NEW p \in Runners, Migrate!GetAppliedMigrations(p)
  PROVE  MigrateInv'
<1>1. RunnerTypes'
  BY FileTypes DEF Migrate!GetAppliedMigrations, MigrateInv, RunnerTypes, Migrate!Goto, Stages
<1>2. /\ stage'[p] = "next" /\ version'[p] = 1 /\ statement'[p] = 1 /\ applied'[p] \subseteq recorded
      /\ recorded' = recorded /\ executed' = executed
      /\ \A q \in Runners : q # p =>
           /\ stage'[q] = stage[q] /\ applied'[q] = applied[q] /\ version'[q] = version[q]
           /\ statement'[q] = statement[q]
  BY DEF Migrate!GetAppliedMigrations, MigrateInv, RunnerTypes, Migrate!Goto
<1>3. PassedRecorded(p)' /\ Applying(p)'
  BY <1>2 DEF PassedRecorded, Applying, RecordedBefore
<1> QED BY <1>1, <1>2, <1>3, RecordsNothing

\* An applied migration is recorded, so it may be passed.
LEMMA PassingKeeps ==
  ASSUME Migrate!MigrationsAssumption, MigrateInv, NEW p \in Runners, Migrate!Migrate(p)
  PROVE  MigrateInv'
<1>1. /\ stage[p] = "next" /\ UNCHANGED <<applied, statement, recorded, executed>>
      /\ \/ Migrate!Goto(p, "idle") /\ UNCHANGED version
         \/ /\ ~(version[p] > Len(Files)) /\ version[p] \in applied[p]
            /\ version' = [version EXCEPT ![p] = version[p] + 1] /\ UNCHANGED stage
         \/ ~(version[p] > Len(Files)) /\ Migrate!Goto(p, "apply") /\ UNCHANGED version
  BY DEF Migrate!Migrate
<1>2. CASE Migrate!Goto(p, "idle") /\ UNCHANGED version
  BY <1>1, <1>2, RunEnds
<1>3. Len(Files) \in Nat /\ version[p] \in 1 .. Len(Files) + 1 /\ statement[p] = 1
      /\ PassedRecorded(p)
  BY <1>1, FileTypes DEF MigrateInv, RunnerTypes, PassedRecorded
<1>4. CASE /\ ~(version[p] > Len(Files)) /\ version[p] \in applied[p]
           /\ version' = [version EXCEPT ![p] = version[p] + 1] /\ UNCHANGED stage
  <2>1. version[p] + 1 \in 1 .. Len(Files) + 1
    BY <1>3, <1>4
  <2>2. RunnerTypes'
    BY <1>1, <1>4, <2>1 DEF MigrateInv, RunnerTypes
  <2>3. /\ version'[p] = version[p] + 1 /\ stage'[p] = "next" /\ statement'[p] = 1
        /\ \A q \in Runners : q # p => version'[q] = version[q]
    BY <1>1, <1>3, <1>4 DEF MigrateInv, RunnerTypes
  <2>4. RecordedBefore(version[p] + 1)
    BY <1>1, <1>3, <1>4 DEF PassedRecorded, RecordedBefore
  <2>5. PassedRecorded(p)' /\ Applying(p)'
    BY <1>1, <1>3, <2>3, <2>4 DEF PassedRecorded, Applying, RecordedBefore
  <2> QED BY <1>1, <1>4, <2>2, <2>3, <2>5, RecordsNothing
<1>5. CASE ~(version[p] > Len(Files)) /\ Migrate!Goto(p, "apply") /\ UNCHANGED version
  <2>1. version[p] \in Migrate!Versions /\ Len(Files[version[p]]) \in Nat
    BY <1>3, <1>5, FileTypes
  <2>2. RunnerTypes'
    BY <1>1, <1>5 DEF MigrateInv, RunnerTypes, Migrate!Goto, Stages
  <2>3. stage'[p] = "apply" /\ \A q \in Runners : q # p => stage'[q] = stage[q]
    BY <1>5 DEF MigrateInv, RunnerTypes, Migrate!Goto
  <2>4. PassedRecorded(p)'
    BY <1>1, <1>3, <1>5, <2>3 DEF PassedRecorded, RecordedBefore
  <2>5. Applying(p)'
    <3>1. 1 <= Len(Files[version[p]]) + 1 /\ 1 .. 1 - 1 = {}
      BY <2>1
    <3> QED BY <1>1, <1>3, <1>5, <2>1, <3>1 DEF Applying
  <2> QED BY <1>1, <1>5, <2>2, <2>3, <2>4, <2>5, RecordsNothing
<1> QED BY <1>1, <1>2, <1>4, <1>5

\* A statement is executed after all that come before it.
LEMMA ExecutingKeeps ==
  ASSUME Migrate!MigrationsAssumption, MigrateInv, NEW p \in Runners, Migrate!ApplyMigration(p)
  PROVE  MigrateInv'
<1>1. /\ stage[p] = "apply" /\ UNCHANGED <<applied, version, recorded>>
      /\ statement[p] <= Len(Files[version[p]])
      /\ \/ Migrate!Goto(p, "idle") /\ UNCHANGED <<executed, statement>>
         \/ /\ executed' = [executed EXCEPT ![version[p]] = executed[version[p]] \cup {statement[p]}]
            /\ statement' = [statement EXCEPT ![p] = statement[p] + 1] /\ UNCHANGED stage
  BY DEF Migrate!ApplyMigration, Migrate!Execute
<1>2. CASE Migrate!Goto(p, "idle") /\ UNCHANGED <<executed, statement>>
  BY <1>1, <1>2, RunEnds
<1>3. CASE /\ executed' = [executed EXCEPT ![version[p]] = executed[version[p]] \cup {statement[p]}]
           /\ statement' = [statement EXCEPT ![p] = statement[p] + 1] /\ UNCHANGED stage
  <2>1. PICK v \in Migrate!Versions : v = version[p]
    BY <1>1 DEF MigrateInv, Applying
  <2>2. PICK n \in Nat : n = Len(Files[v]) /\ StatementsOf(v) = 1 .. n
    BY <2>1, FileTypes DEF StatementsOf
  <2>3. PICK k \in Nat \ {0} : k = statement[p] /\ k <= n
    BY <1>1, <2>1, <2>2 DEF MigrateInv, RunnerTypes
  <2>4. /\ executed'[v] = executed[v] \cup {k}
        /\ \A w \in Migrate!Versions : w # v => executed'[w] = executed[w]
        /\ executed' \in [Migrate!Versions -> SUBSET Nat]
    BY <1>3, <2>1, <2>3 DEF MigrateInv, RunnerTypes
  <2>5. RunnerTypes'
    <3>1. \A w \in Migrate!Versions : executed[w] \subseteq StatementsOf(w)
      BY DEF MigrateInv, RunnerTypes
    <3>2. k \in StatementsOf(v)
      BY <2>2, <2>3
    <3>3. \A w \in Migrate!Versions : executed'[w] \subseteq StatementsOf(w)
      BY <2>4, <3>1, <3>2
    <3> QED BY <1>1, <1>3, <2>4, <3>3 DEF MigrateInv, RunnerTypes
  <2>6. /\ statement'[p] = k + 1 /\ stage'[p] = "apply" /\ version'[p] = v
        /\ \A q \in Runners : q # p => statement'[q] = statement[q]
    BY <1>1, <1>3, <2>1, <2>3 DEF MigrateInv, RunnerTypes
  <2>7. PassedRecorded(p)'
    BY <1>1, <1>3, <2>6 DEF MigrateInv, PassedRecorded, RecordedBefore
  <2>8. Applying(p)'
    <3>1. 1 .. k - 1 \subseteq executed[v]
      BY <1>1, <2>1, <2>3 DEF MigrateInv, Applying
    <3>2. 1 .. (k + 1) - 1 \subseteq executed'[v]
      BY <2>4, <3>1
    <3>3. k + 1 <= Len(Files[v]) + 1
      BY <2>2, <2>3
    <3> QED BY <2>6, <3>2, <3>3 DEF Applying
  <2>9. \A q \in Runners : q # p => PassedRecorded(q)' /\ Applying(q)'
    <3>1. \A w \in Migrate!Versions : executed[w] \subseteq executed'[w]
      BY <2>4
    <3> QED BY <1>1, <1>3, <2>6, <3>1, OtherRunners
  <2>10. RecordedWasRun'
    <3> SUFFICES ASSUME NEW w \in Migrate!Versions
                 PROVE  /\ w \in recorded => executed'[w] = DOMAIN Files[w]
                        /\ executed'[w] # {} => \A x \in 1 .. w - 1 : x \in recorded
      BY <1>1 DEF RecordedWasRun, Migrate!RecordedWasRun
    <3>1. CASE w = v
      <4>1. RecordedBefore(v)
        BY <1>1, <2>1 DEF MigrateInv, PassedRecorded
      <4>2. w \in recorded => executed'[w] = DOMAIN Files[w]
        <5>1. w \in recorded => executed[v] = DOMAIN Files[v]
          BY <3>1 DEF MigrateInv, RecordedWasRun, Migrate!RecordedWasRun
        <5>2. k \in DOMAIN Files[v]
          BY <2>2, <2>3, FileTypes
        <5> QED BY <2>4, <3>1, <5>1, <5>2
      <4> QED BY <3>1, <4>1, <4>2 DEF RecordedBefore
    <3>2. CASE w # v
      BY <2>4, <3>2 DEF MigrateInv, RecordedWasRun, Migrate!RecordedWasRun
    <3> QED BY <3>1, <3>2
  <2> QED BY <2>5, <2>7, <2>8, <2>9, <2>10 DEF MigrateInv
<1> QED BY <1>1, <1>2, <1>3

\* A migration is recorded after its last statement.
LEMMA RecordingKeeps ==
  ASSUME Migrate!MigrationsAssumption, MigrateInv, NEW p \in Runners, Migrate!Record(p)
  PROVE  MigrateInv'
<1>1. /\ stage[p] = "apply" /\ ~(statement[p] <= Len(Files[version[p]]))
      /\ recorded' = recorded \cup {version[p]}
      /\ version' = [version EXCEPT ![p] = version[p] + 1] /\ statement' = [statement EXCEPT ![p] = 1]
      /\ Migrate!Goto(p, "next") /\ UNCHANGED <<applied, executed>>
  <2>1. Migrate!Record(p) => ~(statement[p] <= Len(Files[version[p]]))
    <3>1. Len(Files[version[p]]) \in Nat /\ statement[p] \in Nat
      BY FileTypes DEF Migrate!Record, MigrateInv, RunnerTypes, Applying
    <3> QED BY <3>1 DEF Migrate!Record
  <2> QED BY <2>1 DEF Migrate!Record
<1>2. PICK v \in Migrate!Versions : v = version[p]
  BY <1>1 DEF MigrateInv, Applying
<1>3. PICK n \in Nat : n = Len(Files[v]) /\ StatementsOf(v) = 1 .. n /\ DOMAIN Files[v] = 1 .. n
  BY <1>2, FileTypes DEF StatementsOf
<1>4. statement[p] = n + 1
  <2>1. statement[p] \in Nat /\ statement[p] <= n + 1
    BY <1>1, <1>2, <1>3 DEF MigrateInv, RunnerTypes, Applying
  <2>2. ~(statement[p] <= n)
    BY <1>1, <1>2, <1>3
  <2> QED BY <2>1, <2>2
<1>5. executed[v] = DOMAIN Files[v]
  <2>1. 1 .. (n + 1) - 1 \subseteq executed[v]
    BY <1>1, <1>2, <1>4 DEF MigrateInv, Applying
  <2>2. executed[v] \subseteq 1 .. n
    <3>1. executed[v] \subseteq StatementsOf(v)
      BY DEF MigrateInv, RunnerTypes
    <3> QED BY <1>3, <3>1
  <2>3. 1 .. (n + 1) - 1 = 1 .. n
    OBVIOUS
  <2> QED BY <1>3, <2>1, <2>2, <2>3
<1>6. RecordedBefore(v)
  BY <1>1, <1>2 DEF MigrateInv, PassedRecorded
<1>7. Len(Files) \in Nat /\ v \in 1 .. Len(Files)
  BY FileTypes
<1>8. RunnerTypes'
  <2>1. v + 1 \in 1 .. Len(Files) + 1
    BY <1>7
  <2>2. version' \in [Runners -> 1 .. Len(Files) + 1]
    BY <1>1, <1>2, <2>1 DEF MigrateInv, RunnerTypes
  <2>3. stage' \in [Runners -> Stages]
    BY <1>1 DEF MigrateInv, RunnerTypes, Migrate!Goto, Stages
  <2>4. statement' \in [Runners -> Nat \ {0}]
    BY <1>1 DEF MigrateInv, RunnerTypes
  <2>5. recorded' \subseteq Migrate!Versions
    BY <1>1, <1>2 DEF MigrateInv, RunnerTypes
  <2> QED BY <1>1, <2>2, <2>3, <2>4, <2>5 DEF MigrateInv, RunnerTypes
<1>9. /\ version'[p] = v + 1 /\ statement'[p] = 1 /\ stage'[p] = "next"
      /\ \A q \in Runners : q # p =>
           stage'[q] = stage[q] /\ version'[q] = version[q] /\ statement'[q] = statement[q]
  BY <1>1, <1>2 DEF MigrateInv, RunnerTypes, Migrate!Goto
<1>10. PassedRecorded(p)' /\ Applying(p)'
  <2>1. RecordedBefore(v + 1)'
    BY <1>1, <1>2, <1>6, <1>7 DEF RecordedBefore
  <2>2. applied'[p] \subseteq recorded'
    BY <1>1 DEF MigrateInv, PassedRecorded
  <2> QED BY <1>9, <2>1, <2>2 DEF PassedRecorded, Applying, RecordedBefore
<1>11. \A q \in Runners : q # p => PassedRecorded(q)' /\ Applying(q)'
  BY <1>1, <1>9, OtherRunners
<1>12. RecordedWasRun'
  BY <1>1, <1>2, <1>5 DEF MigrateInv, RecordedWasRun, Migrate!RecordedWasRun
<1> QED BY <1>8, <1>10, <1>11, <1>12 DEF MigrateInv

\* What every runner relies on holds whatever other runs do and wherever they die.
LEMMA MigrateInvariance == ASSUME Migrate!MigrationsAssumption PROVE Migrate!Spec => []MigrateInv
<1>1. Migrate!Init => MigrateInv
  BY MigrateInit
<1>2. ASSUME MigrateInv, [Migrate!Next]_Migrate!vars PROVE MigrateInv'
  <2>1. ASSUME NEW p \in Runners, Migrate!Start(p) \/ Migrate!Crash(p) PROVE MigrateInv'
    BY <1>2, <2>1, RunEnds DEF Migrate!Start, Migrate!Crash
  <2>2. ASSUME NEW p \in Runners, Migrate!GetAppliedMigrations(p) PROVE MigrateInv'
    BY <1>2, <2>2, ReadingKeeps
  <2>3. ASSUME NEW p \in Runners, Migrate!Migrate(p) PROVE MigrateInv'
    BY <1>2, <2>3, PassingKeeps
  <2>4. ASSUME NEW p \in Runners, Migrate!ApplyMigration(p) PROVE MigrateInv'
    BY <1>2, <2>4, ExecutingKeeps
  <2>5. ASSUME NEW p \in Runners, Migrate!Record(p) PROVE MigrateInv'
    BY <1>2, <2>5, RecordingKeeps
  <2>6. CASE UNCHANGED Migrate!vars
    BY <1>2, <2>6 DEF Migrate!vars, MigrateInv, RunnerTypes, PassedRecorded, Applying, RecordedBefore, RecordedWasRun, Migrate!RecordedWasRun
  <2> QED BY <1>2, <2>1, <2>2, <2>3, <2>4, <2>5, <2>6 DEF Migrate!Next, Migrate!Run
<1> QED BY <1>1, <1>2, PTL DEF Migrate!Spec

\* A migration that is recorded has had each of its statements executed, and none
\* is begun before the earlier ones are recorded.
THEOREM WholeMigrations == Migrate!Spec => []RecordedWasRun
<1>1. MigrateInv => RecordedWasRun
  BY DEF MigrateInv
<1> QED BY <1>1, MigrateInvariance, InstancesAssumption, PTL DEF InstancesAssumption

\* The runners' variables stay in their types, and what a runner was told is
\* applied is recorded.
THEOREM MigrationTypes == Migrate!Spec => []Migrate!TypeOK
<1>1. MigrateInv => Migrate!TypeOK
  BY DEF MigrateInv, RunnerTypes, PassedRecorded, Stages, Migrate!TypeOK
<1> QED BY <1>1, MigrateInvariance, InstancesAssumption, PTL DEF InstancesAssumption

-----------------------------------------------------------------------------
(* The health check, for any dependencies and any buffer that has room for    *)
(* them.                                                                   *)

Findings == {"healthy", "unhealthy"}

\* The checks that have sent what they found, and the dependencies that the
\* response tells a finding of.
SentOff == {d \in Dependencies : check[d] = "ended"}
ToldOf  == {d \in configured : status[d] # None}

\* Each variable's shape: which dependencies have a check, and of which a finding.
HealthShape ==
  /\ configured \subseteq Dependencies
  /\ check \in [Dependencies -> {"none", "running", "sending", "ended"}]
  /\ DOMAIN found = Dependencies /\ DOMAIN status = Dependencies
  /\ collected \in Nat /\ answered \in BOOLEAN
  /\ resultsChan \in Seq([dependency : configured, status : Findings])
  /\ \A d \in Dependencies :
       /\ check[d] = "none" <=> d \notin configured
       /\ check[d] \in {"sending", "ended"} => found[d] \in Findings
       /\ status[d] \in (IF d \in configured THEN Findings \cup {None} ELSE {"not_configured"})

\* A result that waits in the channel is what an ended check found, and has not
\* been told while the request is unanswered; no check has two results there.
ResultsWait ==
  /\ \A i \in DOMAIN resultsChan :
       /\ check[resultsChan[i].dependency] = "ended"
       /\ resultsChan[i].status = found[resultsChan[i].dependency]
       /\ ~answered => status[resultsChan[i].dependency] = None
  /\ \A i, j \in DOMAIN resultsChan :
       resultsChan[i].dependency = resultsChan[j].dependency => i = j

\* What is told was found, the whole is unhealthy exactly if a part is, and an
\* answer leaves nothing out.
ToldTrue ==
  /\ \A d \in configured :
       /\ status[d] = "healthy" => found[d] = "healthy" /\ check[d] = "ended"
       /\ ~answered /\ status[d] # None => check[d] = "ended"
  /\ overall = "unhealthy" <=> \E d \in Dependencies : status[d] = "unhealthy"
  /\ answered => \A d \in Dependencies : status[d] # None

\* Every result sent is in the channel or was collected, and every collected one
\* was told.
Tallied ==
  /\ Len(resultsChan) + collected = Cardinality(SentOff)
  /\ collected <= Cardinality(configured)
  /\ ~answered => collected = Cardinality(ToldOf)

\* The inductive invariant.
HealthInv == HealthShape /\ ResultsWait /\ ToldTrue /\ Tallied

\* Cardinalities in HealthService are those of the library.
LEMMA HealthCount ==
  \A S : Health!Cardinality(S) = Cardinality(S) /\ (Health!IsFiniteSet(S) <=> IsFiniteSet(S))
BY DEF Health!Cardinality, Cardinality, Health!IsFiniteSet, IsFiniteSet

\* What the assumption says of the channel's size.
LEMMA RoomForAll ==
  ASSUME InstancesAssumption
  PROVE  /\ IsFiniteSet(Dependencies) /\ Cardinality(Dependencies) \in Nat
         /\ HealthResultChannelBuffer \in Nat /\ Cardinality(Dependencies) <= HealthResultChannelBuffer
         /\ None \notin {"healthy", "unhealthy", "not_configured"}
BY HealthCount, FS_CardinalityType DEF InstancesAssumption, Health!HealthAssumption

\* What waits in the channel is the result of a check that was started.
LEMMA ResultTypes ==
  ASSUME HealthShape
  PROVE  \A i \in DOMAIN resultsChan :
           /\ resultsChan[i] \in [dependency : configured, status : Findings]
           /\ resultsChan[i].dependency \in configured /\ resultsChan[i].dependency \in Dependencies
<1> DEFINE R == [dependency : configured, status : Findings]
<1>1. resultsChan \in Seq(R) /\ configured \subseteq Dependencies
  BY DEF HealthShape
<1> SUFFICES ASSUME NEW i \in DOMAIN resultsChan
             PROVE  resultsChan[i] \in R /\ resultsChan[i].dependency \in configured
  BY <1>1
<1>2. \A x \in R : x.dependency \in configured
  OBVIOUS
<1> HIDE DEF R
<1>3. i \in 1 .. Len(resultsChan)
  BY <1>1
<1>4. resultsChan[i] \in R
  BY <1>1, <1>3, ElementOfSeq
<1> QED BY <1>2, <1>4

\* Sets of dependencies are finite.
LEMMA SomeDependencies ==
  ASSUME InstancesAssumption, HealthShape
  PROVE  /\ IsFiniteSet(configured) /\ IsFiniteSet(SentOff) /\ IsFiniteSet(ToldOf)
         /\ Cardinality(configured) \in Nat /\ Cardinality(SentOff) \in Nat /\ Cardinality(ToldOf) \in Nat
         /\ SentOff \subseteq configured /\ ToldOf \subseteq configured
         /\ Cardinality(configured) <= Cardinality(Dependencies)
<1>1. configured \subseteq Dependencies /\ SentOff \subseteq configured /\ ToldOf \subseteq configured
  BY DEF HealthShape, SentOff, ToldOf
<1>2. IsFiniteSet(configured) /\ Cardinality(configured) <= Cardinality(Dependencies)
  BY <1>1, RoomForAll, FS_Subset
<1>3. IsFiniteSet(SentOff) /\ IsFiniteSet(ToldOf)
  BY <1>1, <1>2, FS_Subset
<1> QED BY <1>1, <1>2, <1>3, FS_CardinalityType

\* Nothing was sent or told at the start, but of what is not configured.
LEMMA HealthInit == ASSUME InstancesAssumption PROVE Health!Init => HealthInv
<1> SUFFICES ASSUME Health!Init PROVE HealthInv
  OBVIOUS
<1>1. HealthShape /\ ResultsWait
  <2>1. resultsChan = <<>> /\ DOMAIN resultsChan = {}
    BY DEF Health!Init
  <2>2. resultsChan \in Seq([dependency : configured, status : Findings])
    BY <2>1
  <2>3. HealthShape
    BY <2>2 DEF Health!Init, HealthShape
  <2> QED BY <2>1, <2>3 DEF ResultsWait
<1>2. ToldTrue
  BY RoomForAll DEF Health!Init, ToldTrue
<1>3. SentOff = {} /\ ToldOf = {}
  BY DEF Health!Init, SentOff, ToldOf
<1>4. Cardinality(SentOff) = 0 /\ Cardinality(ToldOf) = 0
  BY <1>3, FS_EmptySet
<1>5. Tallied
  BY <1>1, <1>4, SomeDependencies DEF Health!Init, Tallied
<1> QED BY <1>1, <1>2, <1>5 DEF HealthInv

\* A check that has run goes on to send what it found.
LEMMA ProbeKeeps ==
  ASSUME HealthInv, NEW d \in Dependencies, Health!Probe(d)
  PROVE  HealthInv'
<1>1. PICK s \in Findings : found' = [found EXCEPT ![d] = s]
  BY DEF Health!Probe, Findings
<1>2. /\ check[d] = "running" /\ check' = [check EXCEPT ![d] = "sending"]
      /\ UNCHANGED <<configured, resultsChan, collected, status, overall, answered>>
  BY DEF Health!Probe
<1>3. HealthShape'
  BY <1>1, <1>2 DEF HealthInv, HealthShape
<1>4. \A e \in Dependencies : e # d => check'[e] = check[e] /\ found'[e] = found[e]
  BY <1>1, <1>2 DEF HealthInv, HealthShape
<1>5. ResultsWait'
  <2>1. \A i \in DOMAIN resultsChan : resultsChan[i].dependency \in Dependencies
    BY ResultTypes DEF HealthInv
  <2> QED BY <1>2, <1>4, <2>1 DEF HealthInv, ResultsWait
<1>6. ToldTrue'
  BY <1>2, <1>4 DEF HealthInv, HealthShape, ToldTrue
<1>7. SentOff' = SentOff /\ ToldOf' = ToldOf
  BY <1>2 DEF HealthInv, HealthShape, SentOff, ToldOf
<1>8. Tallied'
  BY <1>2, <1>7 DEF HealthInv, Tallied
<1> QED BY <1>3, <1>5, <1>6, <1>8 DEF HealthInv

\* What is sent comes to the end of the channel, once.
LEMMA ResultKeeps ==
  ASSUME InstancesAssumption, HealthInv, NEW d \in Dependencies, Health!SendResult(d)
  PROVE  HealthInv'
<1>1. PICK r : r = [dependency |-> d, status |-> found[d]]
  OBVIOUS
<1>2. /\ check[d] = "sending" /\ check' = [check EXCEPT ![d] = "ended"]
      /\ resultsChan' = Append(resultsChan, r)
      /\ UNCHANGED <<configured, found, collected, status, overall, answered>>
  BY <1>1 DEF Health!SendResult
<1>3. d \in configured /\ found[d] \in Findings
  BY <1>2 DEF HealthInv, HealthShape
<1>4. r \in [dependency : configured, status : Findings] /\ r.dependency = d /\ r.status = found[d]
  BY <1>1, <1>3
<1>5. resultsChan \in Seq([dependency : configured, status : Findings])
  BY DEF HealthInv, HealthShape
<1>6. /\ resultsChan' \in Seq([dependency : configured, status : Findings])
      /\ Len(resultsChan') = Len(resultsChan) + 1
      /\ DOMAIN resultsChan' = DOMAIN resultsChan \cup {Len(resultsChan) + 1}
      /\ Len(resultsChan) + 1 \notin DOMAIN resultsChan
      /\ \A i \in DOMAIN resultsChan : resultsChan'[i] = resultsChan[i]
      /\ resultsChan'[Len(resultsChan) + 1] = r
  BY <1>2, <1>4, <1>5
<1>7. HealthShape'
  BY <1>2, <1>3, <1>6 DEF HealthInv, HealthShape
<1>8. /\ \A e \in Dependencies : e # d => check'[e] = check[e]
      /\ check'[d] = "ended" /\ (~answered => status[d] = None)
  BY <1>2, <1>3 DEF HealthInv, HealthShape, ToldTrue
<1>9. \A i \in DOMAIN resultsChan : resultsChan[i].dependency # d /\ resultsChan[i].dependency \in Dependencies
  BY <1>2, ResultTypes DEF HealthInv, ResultsWait
<1>10. ResultsWait'
  <2>1. ASSUME NEW i \in DOMAIN resultsChan'
        PROVE  /\ check'[resultsChan'[i].dependency] = "ended"
               /\ resultsChan'[i].status = found'[resultsChan'[i].dependency]
               /\ ~answered' => status'[resultsChan'[i].dependency] = None
    <3>1. CASE i \in DOMAIN resultsChan
      BY <1>2, <1>6, <1>8, <1>9, <3>1 DEF HealthInv, ResultsWait
    <3>2. CASE i = Len(resultsChan) + 1
      BY <1>2, <1>4, <1>6, <1>8, <3>2
    <3> QED BY <1>6, <3>1, <3>2
  <2>2. \A i, j \in DOMAIN resultsChan' : resultsChan'[i].dependency = resultsChan'[j].dependency => i = j
    BY <1>4, <1>6, <1>9 DEF HealthInv, ResultsWait
  <2> QED BY <2>1, <2>2 DEF ResultsWait
<1>11. ToldTrue'
  BY <1>2, <1>8 DEF HealthInv, HealthShape, ToldTrue
<1>12. SentOff' = SentOff \cup {d} /\ d \notin SentOff /\ ToldOf' = ToldOf
  BY <1>2 DEF HealthInv, HealthShape, SentOff, ToldOf
<1>13. Tallied'
  <2>1. HealthShape
    BY DEF HealthInv
  <2>2. Cardinality(SentOff') = Cardinality(SentOff) + 1 /\ Cardinality(SentOff) \in Nat
    BY <1>12, <2>1, SomeDependencies, FS_AddElement
  <2>3. Len(resultsChan) \in Nat /\ collected \in Nat
    BY <1>5, <2>1 DEF HealthShape
  <2> QED BY <1>2, <1>6, <1>12, <2>2, <2>3 DEF HealthInv, Tallied
<1> QED BY <1>7, <1>10, <1>11, <1>13 DEF HealthInv

\* A result is told of a dependency that nothing was told of yet.
LEMMA ReceiveKeeps ==
  ASSUME InstancesAssumption, HealthInv, Health!ReceiveResult
  PROVE  HealthInv'
<1>1. PICK r : r = Head(resultsChan)
  OBVIOUS
<1>2. PICK d : d = r.dependency
  OBVIOUS
<1>3. /\ ~answered /\ resultsChan # <<>> /\ collected < Cardinality(configured)
      /\ status' = [status EXCEPT ![d] = r.status]
      /\ overall' = IF r.status = "unhealthy" THEN "unhealthy" ELSE overall
      /\ resultsChan' = Tail(resultsChan) /\ collected' = collected + 1
      /\ UNCHANGED <<configured, check, found, answered>>
  BY <1>1, <1>2, HealthCount DEF Health!ReceiveResult, Health!Expected
<1>4. resultsChan \in Seq([dependency : configured, status : Findings])
  BY DEF HealthInv, HealthShape
<1>5. r \in [dependency : configured, status : Findings] /\ 1 \in DOMAIN resultsChan /\ r = resultsChan[1]
  <2>1. 1 \in DOMAIN resultsChan /\ r = resultsChan[1]
    BY <1>1, <1>3, <1>4
  <2> QED BY <2>1, ResultTypes DEF HealthInv
<1>6. /\ resultsChan' \in Seq([dependency : configured, status : Findings])
      /\ Len(resultsChan') = Len(resultsChan) - 1 /\ Len(resultsChan) \in Nat
      /\ \A i \in DOMAIN resultsChan' : i # 0 /\ i + 1 \in DOMAIN resultsChan /\ i + 1 # 1
           /\ resultsChan'[i] = resultsChan[i + 1]
  BY <1>3, <1>4
<1>7. /\ d \in configured /\ d \in Dependencies /\ r.status \in Findings /\ r.status = found[d]
      /\ check[d] = "ended" /\ status[d] = None
  BY <1>2, <1>3, <1>5 DEF HealthInv, HealthShape, ResultsWait
<1>8. status'[d] = r.status /\ \A e \in Dependencies : e # d => status'[e] = status[e]
  BY <1>3, <1>7 DEF HealthInv, HealthShape
<1>9. HealthShape'
  BY <1>3, <1>6, <1>7 DEF HealthInv, HealthShape
<1>10. ResultsWait'
  <2>1. \A i \in DOMAIN resultsChan : i # 1 => resultsChan[i].dependency # d
    BY <1>2, <1>5 DEF HealthInv, ResultsWait
  <2>2. \A i \in DOMAIN resultsChan : resultsChan[i].dependency \in Dependencies
    BY ResultTypes DEF HealthInv
  <2>3. ASSUME NEW i \in DOMAIN resultsChan'
        PROVE  /\ check'[resultsChan'[i].dependency] = "ended"
               /\ resultsChan'[i].status = found'[resultsChan'[i].dependency]
               /\ ~answered' => status'[resultsChan'[i].dependency] = None
    <3>1. PICK j \in DOMAIN resultsChan : j # 1 /\ resultsChan'[i] = resultsChan[j]
      BY <1>6
    <3> QED BY <1>3, <1>8, <2>1, <2>2, <3>1 DEF HealthInv, ResultsWait
  <2>4. ASSUME NEW i \in DOMAIN resultsChan', NEW j \in DOMAIN resultsChan',
               resultsChan'[i].dependency = resultsChan'[j].dependency
        PROVE  i = j
    <3>1. i + 1 = j + 1
      BY <1>6, <2>4 DEF HealthInv, ResultsWait
    <3>2. i \in Nat /\ j \in Nat
      BY <1>6
    <3> QED BY <3>1, <3>2
  <2> QED BY <2>3, <2>4 DEF ResultsWait
<1>11. ToldTrue'
  <2>1. \A e \in configured' :
          /\ status'[e] = "healthy" => found'[e] = "healthy" /\ check'[e] = "ended"
          /\ ~answered' /\ status'[e] # None => check'[e] = "ended"
    BY <1>3, <1>7, <1>8 DEF HealthInv, HealthShape, ToldTrue
  <2>2. overall' = "unhealthy" <=> \E e \in Dependencies : status'[e] = "unhealthy"
    <3>1. CASE r.status = "unhealthy"
      BY <1>3, <1>7, <1>8, <3>1
    <3>2. CASE r.status # "unhealthy"
      <4>1. None # "unhealthy"
        BY RoomForAll
      <4>2. \A e \in Dependencies : status'[e] = "unhealthy" <=> status[e] = "unhealthy"
        BY <1>7, <1>8, <3>2, <4>1
      <4> QED BY <1>3, <3>2, <4>2 DEF HealthInv, ToldTrue
    <3> QED BY <3>1, <3>2
  <2> QED BY <1>3, <2>1, <2>2 DEF ToldTrue
<1>12. SentOff' = SentOff
  BY <1>3 DEF SentOff
<1>13. ToldOf' = ToldOf \cup {d} /\ d \notin ToldOf
  <2>1. None \notin Findings
    BY RoomForAll DEF Findings
  <2> QED BY <1>3, <1>7, <1>8, <2>1 DEF ToldOf, HealthInv, HealthShape
<1>14. Tallied'
  <2>1. HealthShape
    BY DEF HealthInv
  <2>2. Cardinality(ToldOf') = Cardinality(ToldOf) + 1 /\ Cardinality(ToldOf) \in Nat
        /\ Cardinality(configured) \in Nat /\ collected \in Nat
    BY <1>13, <2>1, SomeDependencies, FS_AddElement DEF HealthShape
  <2>3. /\ Len(resultsChan) + collected = Cardinality(SentOff) /\ collected = Cardinality(ToldOf)
    BY <1>3 DEF HealthInv, Tallied
  <2>4. Len(resultsChan') + collected' = Cardinality(SentOff') /\ collected' = Cardinality(ToldOf')
    BY <1>3, <1>6, <1>12, <2>2, <2>3
  <2>5. collected' <= Cardinality(configured')
    BY <1>3, <2>2
  <2> QED BY <2>4, <2>5 DEF Tallied
<1> QED BY <1>9, <1>10, <1>11, <1>14 DEF HealthInv

\* Who gives up has a dependency to tell of that it has not heard from.
LEMMA GivingUpKeeps ==
  ASSUME InstancesAssumption, HealthInv, Health!GiveUp
  PROVE  HealthInv'
<1>1. /\ ~answered /\ collected < Cardinality(configured) /\ overall' = "unhealthy" /\ answered' = TRUE
      /\ status' = [d \in Dependencies |-> IF status[d] = None THEN "unhealthy" ELSE status[d]]
      /\ UNCHANGED <<configured, check, found, resultsChan, collected>>
  BY HealthCount DEF Health!GiveUp, Health!TimedOut, Health!Expected
<1>2. HealthShape
  BY DEF HealthInv
<1>3. HealthShape'
  BY <1>1, RoomForAll DEF HealthInv, HealthShape, Findings
<1>4. ResultsWait'
  BY <1>1 DEF HealthInv, ResultsWait
<1>5. PICK d \in configured : status[d] = None
  <2>1. Cardinality(ToldOf) # Cardinality(configured)
    BY <1>1, <1>2, SomeDependencies DEF HealthInv, Tallied
  <2>2. ToldOf # configured
    BY <2>1
  <2> QED BY <2>2 DEF ToldOf
<1>6. ToldTrue'
  <2>1. d \in Dependencies /\ status'[d] = "unhealthy"
    BY <1>1, <1>2, <1>5 DEF HealthShape
  <2>2. \A e \in Dependencies : status'[e] # None /\ (status'[e] = "healthy" => status[e] = "healthy")
    BY <1>1, RoomForAll
  <2> QED BY <1>1, <1>2, <2>1, <2>2 DEF HealthInv, ToldTrue, HealthShape
<1>7. Tallied'
  BY <1>1 DEF HealthInv, Tallied, SentOff
<1> QED BY <1>3, <1>4, <1>6, <1>7 DEF HealthInv

\* When as many results were collected as checks started, all are told of.
LEMMA AnswerKeeps ==
  ASSUME InstancesAssumption, HealthInv, Health!Answer
  PROVE  HealthInv'
<1>1. /\ ~answered /\ collected = Cardinality(configured) /\ answered' = TRUE
      /\ UNCHANGED <<configured, check, found, resultsChan, collected, status, overall>>
  BY HealthCount DEF Health!Answer, Health!Expected
<1>2. HealthShape
  BY DEF HealthInv
<1>3. ToldOf = configured
  <2>1. Cardinality(ToldOf) = Cardinality(configured)
    BY <1>1 DEF HealthInv, Tallied
  <2> QED BY <1>2, <2>1, SomeDependencies, FS_Subset
<1>4. \A d \in Dependencies : status[d] # None
  BY <1>2, <1>3, RoomForAll DEF HealthShape, ToldOf
<1>5. HealthShape' /\ ResultsWait'
  BY <1>1 DEF HealthInv, HealthShape, ResultsWait
<1>6. ToldTrue'
  BY <1>1, <1>4 DEF HealthInv, ToldTrue
<1>7. Tallied'
  BY <1>1 DEF HealthInv, Tallied, SentOff
<1> QED BY <1>5, <1>6, <1>7 DEF HealthInv

\* What holds in every state of a health check.
LEMMA HealthInvariance == ASSUME InstancesAssumption PROVE Health!Spec => []HealthInv
<1>1. ASSUME HealthInv, [Health!Next]_Health!vars PROVE HealthInv'
  <2>1. ASSUME NEW d \in Dependencies, Health!Probe(d) PROVE HealthInv'
    BY <1>1, <2>1, ProbeKeeps
  <2>2. ASSUME NEW d \in Dependencies, Health!SendResult(d) PROVE HealthInv'
    BY <1>1, <2>2, ResultKeeps
  <2>3. CASE Health!ReceiveResult
    BY <1>1, <2>3, ReceiveKeeps
  <2>4. CASE Health!Expire \/ UNCHANGED Health!vars
    <3>1. UNCHANGED <<configured, check, found, resultsChan, collected, status, overall, answered>>
      BY <2>4 DEF Health!Expire, Health!vars
    <3> QED BY <1>1, <3>1 DEF HealthInv, HealthShape, ResultsWait, ToldTrue, Tallied, SentOff, ToldOf
  <2>5. CASE Health!GiveUp
    BY <1>1, <2>5, GivingUpKeeps
  <2>6. CASE Health!Answer
    BY <1>1, <2>6, AnswerKeeps
  <2> QED BY <1>1, <2>1, <2>2, <2>3, <2>4, <2>5, <2>6 DEF Health!Next
<1> QED BY <1>1, HealthInit, PTL DEF Health!Spec

\* The response tells of every dependency, calls the whole unhealthy exactly if it
\* calls a part so and nothing healthy that was not found so, and a check whose
\* request gave up always finds room in the channel.
THEOREM HealthTruth == Health!Spec => []HealthTold
<1>1. InstancesAssumption /\ HealthInv => HealthTold
  <2> SUFFICES ASSUME InstancesAssumption, HealthInv PROVE HealthTold
    OBVIOUS
  <2>1. answered =>
          /\ \A d \in Dependencies : status[d] # None /\ (status[d] = "healthy" => found[d] = "healthy")
          /\ (overall = "unhealthy") = (\E d \in Dependencies : status[d] = "unhealthy")
    BY DEF HealthInv, HealthShape, ToldTrue
  <2>2. ASSUME NEW d \in Dependencies, check[d] = "sending" PROVE Len(resultsChan) < HealthResultChannelBuffer
    <3>1. HealthShape /\ Tallied
      BY DEF HealthInv
    <3>2. d \in configured \ SentOff
      BY <2>2, <3>1 DEF HealthShape, SentOff
    <3>3. Cardinality(SentOff) < Cardinality(configured)
      <4>1. SentOff \subseteq configured /\ IsFiniteSet(configured) /\ Cardinality(SentOff) \in Nat /\ Cardinality(configured) \in Nat
        BY <3>1, SomeDependencies
      <4>2. Cardinality(SentOff) <= Cardinality(configured) /\ Cardinality(SentOff) # Cardinality(configured)
        BY <3>2, <4>1, FS_Subset
      <4> QED BY <4>1, <4>2
    <3>4. Len(resultsChan) \in Nat /\ collected \in Nat
      BY <3>1 DEF HealthShape
    <3> QED BY <3>1, <3>3, <3>4, SomeDependencies, RoomForAll DEF Tallied
  <2> QED BY <2>1, <2>2 DEF HealthTold, Health!HealthTold
<1> QED BY <1>1, HealthInvariance, InstancesAssumption, PTL

\* The variables of the health check stay in their types, and every result that was
\* sent is in the channel or was collected.
THEOREM HealthTypes == Health!Spec => []Health!TypeOK
<1>1. HealthInv => Health!TypeOK
  <2> SUFFICES ASSUME HealthInv PROVE Health!TypeOK
    OBVIOUS
  <2>1. Cardinality(SentOff) = Health!Cardinality(SentOff)
    BY HealthCount
  <2> QED BY <2>1 DEF HealthInv, HealthShape, Tallied, SentOff, Health!TypeOK
<1> QED BY <1>1, HealthInvariance, InstancesAssumption, PTL

-----------------------------------------------------------------------------
(* The database monitor, for any queries and any process lists.             *)

\* The inductive invariant: beside the wrapped queries the list has only what a
\* process list has shown, and what the goroutine was told is of that kind too.
MonitorInv ==
  /\ query \in [Queriers -> Ids \cup {None}]
  /\ processes \subseteq Processes /\ activeQueries \subseteq Processes
  /\ tables \subseteq Tables /\ tableSizeCache \subseteq Tables
  /\ currentQueries \subseteq Ids \cup Processes
  /\ stopped <=> loop = "ended"
  /\ NothingEndedIsListed

\* Nothing is listed at the start.
LEMMA MonitorInit == Monitor!Init => MonitorInv
BY DEF Monitor!Init, MonitorInv, NothingEndedIsListed, Monitor!NothingEndedIsListed

\* A query enters the list and leaves it with its caller; a merge adds nothing but
\* processes of the server.
LEMMA MonitorNext == ASSUME InstancesAssumption PROVE MonitorInv /\ [Monitor!Next]_Monitor!vars => MonitorInv'
<1> SUFFICES ASSUME MonitorInv, [Monitor!Next]_Monitor!vars PROVE MonitorInv'
  OBVIOUS
<1> USE DEF MonitorInv, NothingEndedIsListed, Monitor!NothingEndedIsListed
<1>1. Processes \cap Ids = {} /\ None \notin Ids
  BY InstancesAssumption DEF InstancesAssumption, Monitor!MonitorAssumption
<1>2. ASSUME NEW g \in Queriers, Monitor!registerActiveQuery(g) PROVE MonitorInv'
  <2>1. PICK id \in Ids : query' = [query EXCEPT ![g] = id] /\ currentQueries' = currentQueries \cup {id}
    BY <1>2 DEF Monitor!registerActiveQuery
  <2>2. query[g] = None /\ UNCHANGED <<processes, tables, tableSizeCache, loop, activeQueries, stop, stopped>>
    BY <1>2 DEF Monitor!registerActiveQuery
  <2>3. query'[g] = id /\ \A h \in Queriers : h # g => query'[h] = query[h]
    BY <2>1
  <2>4. currentQueries' \cap Ids \subseteq {query'[h] : h \in Queriers}
    <3> SUFFICES ASSUME NEW x \in currentQueries', x \in Ids PROVE \E h \in Queriers : query'[h] = x
      OBVIOUS
    <3>1. CASE x = id
      BY <2>3, <3>1
    <3>2. CASE x # id
      <4>1. PICK h \in Queriers : query[h] = x
        BY <2>1, <3>2
      <4> QED BY <1>1, <2>2, <2>3, <4>1
    <3> QED BY <3>1, <3>2
  <2> QED BY <2>1, <2>2, <2>4
<1>3. ASSUME NEW g \in Queriers, Monitor!unregisterActiveQuery(g) PROVE MonitorInv'
  <2>1. /\ currentQueries' = currentQueries \ {query[g]} /\ query' = [query EXCEPT ![g] = None]
        /\ UNCHANGED <<processes, tables, tableSizeCache, loop, activeQueries, stop, stopped>>
    BY <1>3 DEF Monitor!unregisterActiveQuery
  <2>2. currentQueries' \cap Ids \subseteq {query'[h] : h \in Queriers}
    <3> SUFFICES ASSUME NEW x \in currentQueries', x \in Ids PROVE \E h \in Queriers : query'[h] = x
      OBVIOUS
    <3>1. PICK h \in Queriers : query[h] = x
      BY <2>1
    <3> QED BY <2>1, <3>1
  <2> QED BY <2>1, <2>2
<1>4. ASSUME Monitor!Tick \/ Monitor!updateTableMetrics \/ Monitor!Stop PROVE MonitorInv'
  BY <1>4 DEF Monitor!Tick, Monitor!updateTableMetrics, Monitor!Stop
<1>5. CASE Monitor!ListProcesses
  BY <1>5 DEF Monitor!ListProcesses, Monitor!Listing
<1>6. CASE Monitor!updateProcessList
  BY <1>1, <1>6 DEF Monitor!updateProcessList
<1>7. CASE Monitor!LoopEnds \/ Monitor!ServerRuns
  BY <1>7 DEF Monitor!LoopEnds, Monitor!ServerRuns
<1>8. CASE UNCHANGED Monitor!vars
  BY <1>8 DEF Monitor!vars
<1> QED BY <1>2, <1>3, <1>4, <1>5, <1>6, <1>7, <1>8 DEF Monitor!Next

\* What holds in every state of the monitor.
LEMMA MonitorInvariance == ASSUME InstancesAssumption PROVE Monitor!Spec => []MonitorInv
<1> QED BY MonitorInit, MonitorNext, PTL DEF Monitor!Spec

\* A wrapped query that has ended is not listed, whatever queries begin and end
\* between the server's answer and the merge.
THEOREM ListingTrue == Monitor!Spec => []NothingEndedIsListed
<1>1. MonitorInv => NothingEndedIsListed
  BY DEF MonitorInv
<1> QED BY <1>1, MonitorInvariance, InstancesAssumption, PTL

\* The monitor's variables stay in their types.
THEOREM MonitorTypes == Monitor!Spec => []Monitor!TypeOK
<1>1. MonitorInv => Monitor!TypeOK
  BY DEF MonitorInv, Monitor!TypeOK
<1> QED BY <1>1, MonitorInvariance, InstancesAssumption, PTL

-----------------------------------------------------------------------------
(* The rate limiters, for any limiters, chains, configurations and clients.  *)

Bucket == [tokens : Nat, last : Nat, rate : Nat, burst : Nat]
Active == [client : Rate!Clients, chain : Seq(Limiters) \ {<<>>}, bucket : Nat]

\* The types of the limiters' maps and of the buckets.
RateShape ==
  /\ now \in 0 .. MaxTime
  /\ buckets \in Seq(Bucket)
  /\ limiters \in [Rate!Pairs -> Nat]
  /\ lastUsed \in [Rate!Pairs -> Nat]
  /\ tenantConfigs \in [Rate!Pairs -> Configs \cup {None}]
  /\ credit \in Int /\ watching \in BOOLEAN
  /\ \A i \in 1 .. Len(buckets) : buckets[i].last <= now
  /\ \A x \in Rate!Pairs : limiters[x] <= Len(buckets) /\ lastUsed[x] <= now

\* The calls: none, or one with the limiters ahead of it.
CallShape ==
  /\ DOMAIN call = Handlers
  /\ \A g \in Handlers : call[g] = Rate!Idle \/ call[g] \in Active

\* A bucket that a call holds is still the one in the map, and was looked up not
\* long ago.
Held ==
  \A g \in Handlers : call[g].bucket # 0 =>
    /\ limiters[Rate!Ahead(g)] = call[g].bucket
    /\ now - lastUsed[Rate!Ahead(g)] <= callTime

\* Each bucket is one pair's, and has the settings of that pair.
OnePair ==
  \A x, y \in Rate!Pairs : limiters[x] # 0 /\ limiters[x] = limiters[y] => x = y
SetAs ==
  \A x \in Rate!Pairs : limiters[x] # 0 =>
    /\ buckets[limiters[x]].rate = Rate!Config(x).rate
    /\ buckets[limiters[x]].burst = Rate!Config(x).burst

\* The time in which a bucket fills up, and how much of it has certainly passed
\* since the observed bucket was used.
FillTime == maxIdleTime + 1 - callTime
Unused ==
  LET e == now - lastUsed[Observed] - callTime
  IN  IF e < 0 THEN 0 ELSE IF e > FillTime THEN FillTime ELSE e

\* What the configuration still allows covers the tokens of the bucket, and the
\* part of a full bucket that the time unused has earned: all of it once the
\* cleanup may drop the bucket.
Covered ==
  watching =>
    /\ limiters[Observed] = 0 => credit >= Rate!Config(Observed).burst
    /\ limiters[Observed] # 0 =>
         /\ credit >= Rate!Tokens(buckets[limiters[Observed]])
         /\ FillTime * credit >= Unused * Rate!Config(Observed).burst

\* The inductive invariant.
RateInv ==
  RateShape /\ CallShape /\ Held /\ OnePair /\ SetAs /\ Covered /\ (watching \/ credit = 0)

\* What the assumptions say of the times and the configurations.
LEMMA RateConstants ==
  ASSUME InstancesAssumption
  PROVE  /\ maxIdleTime \in Nat /\ callTime \in Nat /\ callTime <= maxIdleTime
         /\ FillTime \in Nat /\ MaxTime \in Nat /\ Observed \in Rate!Pairs /\ None \notin Configs
         /\ \A q \in Routes : Rate!Chain(q) \in Seq(Limiters)
         /\ \A c \in Configs \cup {defaultConfig[l] : l \in Limiters} :
              c.rate \in Nat /\ c.burst \in Nat /\ FillTime * c.rate >= c.burst
BY DEF InstancesAssumption, Rate!RefillAssumption, Rate!ChainsAssumption, FillTime

\* A pair's configuration has a rate that fills its burst in that time.
LEMMA ConfigTypes ==
  ASSUME InstancesAssumption, RateShape, NEW x \in Rate!Pairs
  PROVE  /\ Rate!Config(x).rate \in Nat /\ Rate!Config(x).burst \in Nat
         /\ FillTime * Rate!Config(x).rate >= Rate!Config(x).burst
<1>1. x[1] \in Limiters
  BY DEF Rate!Pairs
<1>2. Rate!Config(x) \in Configs \cup {defaultConfig[l] : l \in Limiters}
  BY <1>1 DEF Rate!Config, RateShape
<1> QED BY <1>2, RateConstants

\* The bucket of a pair, and its tokens.
LEMMA BucketTypes ==
  ASSUME RateShape, NEW i \in 1 .. Len(buckets)
  PROVE  /\ buckets[i] \in Bucket
         /\ buckets[i].tokens \in Nat /\ buckets[i].last \in Nat /\ buckets[i].rate \in Nat
         /\ buckets[i].burst \in Nat /\ buckets[i].last <= now
         /\ Rate!Tokens(buckets[i]) \in Nat /\ Rate!Tokens(buckets[i]) <= buckets[i].burst
<1>1. buckets[i] \in Bucket
  BY ElementOfSeq DEF RateShape
<1>2. /\ buckets[i].tokens \in Nat /\ buckets[i].last \in Nat /\ buckets[i].rate \in Nat
      /\ buckets[i].burst \in Nat /\ buckets[i].last <= now /\ now \in Nat
  BY <1>1 DEF Bucket, RateShape
<1>3. buckets[i].rate * (now - buckets[i].last) \in Nat
  BY <1>2
<1>4. Rate!Tokens(buckets[i]) \in Nat /\ Rate!Tokens(buckets[i]) <= buckets[i].burst
  BY <1>2, <1>3 DEF Rate!Tokens, Rate!Smaller
<1> QED BY <1>1, <1>2, <1>4

\* How much of the time has passed is a part of it.
LEMMA UnusedTypes ==
  ASSUME InstancesAssumption, RateShape
  PROVE  Unused \in 0 .. FillTime
<1>1. now \in Nat /\ lastUsed[Observed] \in Nat /\ callTime \in Nat /\ FillTime \in Nat
  BY RateConstants DEF RateShape
<1> QED BY <1>1 DEF Unused

\* A held bucket is one of a pair, and was made.
LEMMA HeldPair ==
  ASSUME RateShape, CallShape, Held, NEW g \in Handlers, call[g].bucket # 0
  PROVE  /\ call[g] \in Active /\ Rate!Ahead(g) \in Rate!Pairs
         /\ call[g].bucket = limiters[Rate!Ahead(g)] /\ call[g].bucket \in 1 .. Len(buckets)
<1>1. call[g] \in Active
  BY DEF CallShape, Rate!Idle
<1>2. Rate!Ahead(g) \in Rate!Pairs
  <2>1. call[g].client \in Rate!Clients /\ call[g].chain \in Seq(Limiters) /\ call[g].chain # <<>>
    BY <1>1 DEF Active
  <2>2. Head(call[g].chain) \in Limiters
    BY <2>1
  <2> QED BY <2>1, <2>2 DEF Rate!Ahead, Rate!Pairs
<1>3. call[g].bucket \in Nat /\ Len(buckets) \in Nat
  BY <1>1 DEF Active, RateShape
<1> QED BY <1>1, <1>2, <1>3 DEF Held, RateShape

\* No bucket is made and nothing is counted at the start.
LEMMA RateInit == ASSUME InstancesAssumption PROVE Rate!Init => RateInv
<1> SUFFICES ASSUME Rate!Init PROVE RateInv
  OBVIOUS
<1>1. buckets = <<>> /\ Len(buckets) = 0 /\ buckets \in Seq(Bucket)
  BY DEF Rate!Init
<1>2. RateShape
  <2>1. 0 \in 0 .. MaxTime /\ 1 .. 0 = {}
    BY RateConstants
  <2>2. \A i \in 1 .. Len(buckets) : buckets[i].last <= now
    BY <1>1, <2>1
  <2>3. /\ limiters \in [Rate!Pairs -> Nat] /\ lastUsed \in [Rate!Pairs -> Nat]
        /\ \A x \in Rate!Pairs : limiters[x] = 0 /\ lastUsed[x] = 0
    BY DEF Rate!Init
  <2>4. tenantConfigs \in [Rate!Pairs -> Configs \cup {None}]
    BY DEF Rate!Init
  <2>5. now = 0 /\ credit \in Int
    BY DEF Rate!Init
  <2>6. watching \in BOOLEAN
    BY DEF Rate!Init
  <2> QED BY <1>1, <2>1, <2>2, <2>3, <2>4, <2>5, <2>6 DEF RateShape
<1>3. CallShape /\ Held
  BY DEF Rate!Init, CallShape, Held, Rate!Idle
<1>4. OnePair /\ SetAs /\ Covered /\ credit = 0
  BY DEF Rate!Init, OnePair, SetAs, Covered
<1> QED BY <1>2, <1>3, <1>4 DEF RateInv

\* A step that leaves the observed bucket and what is counted alone.
LEMMA CoveredStays ==
  ASSUME Covered, UNCHANGED <<now, watching, credit>>,
         limiters'[Observed] = limiters[Observed], lastUsed'[Observed] = lastUsed[Observed],
         tenantConfigs'[Observed] = tenantConfigs[Observed],
         limiters[Observed] # 0 => buckets'[limiters[Observed]] = buckets[limiters[Observed]]
  PROVE  Covered'
BY DEF Covered, Unused, FillTime, Rate!Config, Rate!Tokens, Rate!Smaller

\* A factor more makes a product no smaller.
LEMMA Multiples == \A e, a, b \in Nat : a <= b => e * a <= e * b
<1> SUFFICES ASSUME NEW e \in Nat, NEW a \in Nat, NEW b \in Nat, a <= b PROVE e * a <= e * b
  OBVIOUS
<1>1. PICK d \in Nat : b = a + d
  <2>1. b - a \in Nat /\ b = a + (b - a)
    OBVIOUS
  <2> QED BY <2>1
<1>2. e * b = e * a + e * d
  BY <1>1
<1>3. e * d >= 0 /\ e * d \in Nat /\ e * a \in Nat
  OBVIOUS
<1> QED BY <1>2, <1>3

\* A unit of time earns the credit for one more part of the burst.
LEMMA Earned ==
  ASSUME NEW t \in Nat, NEW e \in Nat, NEW c \in Nat, NEW b \in Nat, NEW r \in Nat,
         t * r >= b, t * c >= e * b
  PROVE  t * (c + r) >= (e + 1) * b
<1>1. t * (c + r) = t * c + t * r /\ (e + 1) * b = e * b + b
  OBVIOUS
<1>2. t * c \in Nat /\ t * r \in Nat /\ e * b \in Nat
  OBVIOUS
<1> QED BY <1>1, <1>2

\* A burst that is raised by as much as the credit stays covered.
LEMMA Raised ==
  ASSUME NEW t \in Nat, NEW e \in 0 .. t, NEW c \in Nat, NEW b \in Nat, NEW d \in Nat, t * c >= e * b
  PROVE  t * (c + d) >= e * (b + d)
<1>1. d * e <= d * t
  BY Multiples
<1>2. t * (c + d) = t * c + d * t /\ e * (b + d) = e * b + d * e
  OBVIOUS
<1>3. t * c \in Nat /\ d * t \in Nat /\ e * b \in Nat /\ d * e \in Nat
  OBVIOUS
<1> QED BY <1>1, <1>2, <1>3

\* A factor that is not zero may be left out.
LEMMA Divided ==
  ASSUME NEW t \in Nat, t > 0, NEW c \in Nat, NEW b \in Nat, t * c >= t * b
  PROVE  c >= b
<1> SUFFICES ASSUME c < b PROVE FALSE
  OBVIOUS
<1>1. t * (c + 1) <= t * b
  BY Multiples
<1>2. t * (c + 1) = t * c + t
  OBVIOUS
<1>3. t * c \in Nat /\ t * b \in Nat
  OBVIOUS
<1> QED BY <1>1, <1>2, <1>3

\* A chain has a limiter at least.
LEMMA SomeLimiter == ASSUME InstancesAssumption, NEW q \in Routes PROVE Rate!Chain(q) \in Seq(Limiters) \ {<<>>}
<1>1. Rate!Chain(q) \in Seq(Limiters)
  BY RateConstants
<1>2. CASE q[1] = "grpc"
  <2>1. Rate!Chain(q) = << <<"grpc">>, <<"grpc", Rate!methodLimiter(q[2])>>, <<"grpc", Rate!sizeLimiter(q[3])>> >>
    BY <1>2 DEF Rate!Chain, Rate!ChainGRPCInterceptors
  <2> QED BY <1>1, <2>1
<1>3. CASE q[1] # "grpc"
  <2> DEFINE first  == << <<"rest">> >>
             second == IF Rate!Ingests(q[2]) \/ Rate!Queries(q[2]) THEN << <<"rest", q[2]>> >> ELSE <<>>
             third  == IF Rate!Ingests(q[2]) THEN << <<"rest", q[2], Rate!sizeLimiter(q[3])>> >> ELSE <<>>
             Names  == { <<"rest">>, <<"rest", q[2]>>, <<"rest", q[2], Rate!sizeLimiter(q[3])>> }
  <2>1. Rate!Chain(q) = first \o second \o third
    BY <1>3 DEF Rate!Chain, Rate!RestChain
  <2>2. first \in Seq(Names) /\ second \in Seq(Names) /\ third \in Seq(Names) /\ Len(first) = 1
    OBVIOUS
  <2> HIDE DEF first, second, third, Names
  <2>3. Len(first \o second \o third) = Len(first) + Len(second) + Len(third)
        /\ Len(second) \in Nat /\ Len(third) \in Nat
    <3>1. first \o second \in Seq(Names) /\ Len(first \o second) = Len(first) + Len(second)
      BY <2>2, ConcatProperties
    <3>2. Len((first \o second) \o third) = Len(first \o second) + Len(third)
      BY <2>2, <3>1, ConcatProperties
    <3> QED BY <2>2, <3>1, <3>2, LenProperties
  <2>4. Len(Rate!Chain(q)) # 0
    BY <2>1, <2>2, <2>3
  <2> QED BY <1>1, <2>4
<1> QED BY <1>2, <1>3

\* A call that arrives holds nothing yet.
LEMMA ArriveKeeps ==
  ASSUME InstancesAssumption, RateInv, NEW g \in Handlers, Rate!Arrive(g)
  PROVE  RateInv'
<1>1. PICK h \in Headers, q \in Routes :
        call' = [call EXCEPT ![g] = [[call[g] EXCEPT !.client = Rate!Client(q, h)] EXCEPT !.chain = Rate!Chain(q)]]
  BY DEF Rate!Arrive
<1>2. call[g] = Rate!Idle /\ UNCHANGED <<now, buckets, limiters, lastUsed, tenantConfigs, watching, credit>>
  BY DEF Rate!Arrive
<1>3. Rate!Client(q, h) \in Rate!Clients
  BY DEF Rate!Clients
<1>4. PICK c \in Rate!Clients, s \in Seq(Limiters) \ {<<>>} : call' = [call EXCEPT ![g] = [client |-> c, chain |-> s, bucket |-> 0]]
  <2>1. PICK c \in Rate!Clients : c = Rate!Client(q, h)
    BY <1>3
  <2>2. PICK s \in Seq(Limiters) \ {<<>>} : s = Rate!Chain(q)
    BY SomeLimiter
  <2>3. call' = [call EXCEPT ![g] = [[[client |-> None, chain |-> <<>>, bucket |-> 0] EXCEPT !.client = c] EXCEPT !.chain = s]]
    BY <1>1, <1>2, <2>1, <2>2 DEF Rate!Idle
  <2>4. [[[client |-> None, chain |-> <<>>, bucket |-> 0] EXCEPT !.client = c] EXCEPT !.chain = s]
          = [client |-> c, chain |-> s, bucket |-> 0]
    <3>1. [[client |-> None, chain |-> <<>>, bucket |-> 0] EXCEPT !.client = c]
            = [client |-> c, chain |-> <<>>, bucket |-> 0]
      OBVIOUS
    <3>2. [[client |-> c, chain |-> <<>>, bucket |-> 0] EXCEPT !.chain = s]
            = [client |-> c, chain |-> s, bucket |-> 0]
      OBVIOUS
    <3> QED BY <3>1, <3>2
  <2> QED BY <2>3, <2>4
<1>5. /\ call'[g] \in Active /\ call'[g].bucket = 0
      /\ \A f \in Handlers : f # g => call'[f] = call[f]
      /\ DOMAIN call' = Handlers
  BY <1>4 DEF Active, RateInv, CallShape
<1>6. CallShape' /\ Held'
  BY <1>2, <1>5 DEF RateInv, CallShape, Held, Rate!Ahead
<1>7. RateShape' /\ OnePair' /\ SetAs'
  BY <1>2 DEF RateInv, RateShape, OnePair, SetAs, Rate!Config
<1>8. Covered'
  BY <1>2, CoveredStays DEF RateInv
<1> QED BY <1>2, <1>6, <1>7, <1>8 DEF RateInv

\* A bucket in the map is looked up, and counts as used.
LEMMA LookedUp ==
  ASSUME InstancesAssumption, RateInv, NEW g \in Handlers, Rate!getLimiter(g), Rate!Made(Rate!Ahead(g))
  PROVE  RateInv'
<1>1. PICK x : x = Rate!Ahead(g)
  OBVIOUS
<1>2. /\ call[g] \in Active /\ limiters[x] # 0
      /\ lastUsed' = [lastUsed EXCEPT ![x] = now]
      /\ call' = [call EXCEPT ![g] = [call[g] EXCEPT !.bucket = limiters[x]]]
      /\ UNCHANGED <<now, buckets, limiters, tenantConfigs, watching, credit>>
  BY <1>1 DEF Rate!getLimiter, Rate!LastUsed, Rate!Made, RateInv, CallShape
<1>3. x \in Rate!Pairs
  <2>1. call[g].client \in Rate!Clients /\ call[g].chain \in Seq(Limiters) /\ call[g].chain # <<>>
    BY <1>2 DEF Active
  <2>2. Head(call[g].chain) \in Limiters
    BY <2>1
  <2> QED BY <1>1, <2>1, <2>2 DEF Rate!Ahead, Rate!Pairs
<1>4. now \in Nat /\ callTime \in Nat /\ limiters[x] \in Nat /\ DOMAIN call = Handlers
  BY <1>3, RateConstants DEF RateInv, RateShape, CallShape
<1>5. lastUsed'[x] = now /\ \A y \in Rate!Pairs : y # x => lastUsed'[y] = lastUsed[y]
  BY <1>2, <1>3 DEF RateInv, RateShape
<1>6. RateShape'
  <2>1. lastUsed' \in [Rate!Pairs -> Nat]
    BY <1>2, <1>4 DEF RateInv, RateShape
  <2>2. \A y \in Rate!Pairs : limiters'[y] <= Len(buckets') /\ lastUsed'[y] <= now
    BY <1>2, <1>4, <1>5 DEF RateInv, RateShape
  <2> QED BY <1>2, <2>1, <2>2 DEF RateInv, RateShape
<1>7. /\ call'[g] \in Active /\ call'[g].bucket = limiters[x] /\ Rate!Ahead(g)' = x
      /\ \A f \in Handlers : f # g => call'[f] = call[f]
      /\ DOMAIN call' = Handlers
  BY <1>1, <1>2, <1>4 DEF Active, Rate!Ahead
<1>8. CallShape'
  BY <1>7 DEF RateInv, CallShape
<1>9. Held'
  <2> SUFFICES ASSUME NEW f \in Handlers, call'[f].bucket # 0
               PROVE  /\ limiters[Rate!Ahead(f)'] = call'[f].bucket
                      /\ now - lastUsed'[Rate!Ahead(f)'] <= callTime
    BY <1>2 DEF Held
  <2>1. CASE f = g
    BY <1>4, <1>5, <1>7, <2>1
  <2>2. CASE f # g
    <3>1. call'[f] = call[f] /\ Rate!Ahead(f)' = Rate!Ahead(f)
      BY <1>7, <2>2 DEF Rate!Ahead
    <3>2. Rate!Ahead(f) \in Rate!Pairs /\ limiters[Rate!Ahead(f)] = call[f].bucket
          /\ now - lastUsed[Rate!Ahead(f)] <= callTime
      BY <3>1, HeldPair DEF RateInv, Held
    <3>3. CASE Rate!Ahead(f) = x
      BY <1>4, <1>5, <3>1, <3>2, <3>3
    <3>4. CASE Rate!Ahead(f) # x
      BY <1>5, <3>1, <3>2, <3>4
    <3> QED BY <3>3, <3>4
  <2> QED BY <2>1, <2>2
<1>10. OnePair' /\ SetAs'
  BY <1>2 DEF RateInv, OnePair, SetAs, Rate!Config
<1>11. Covered'
  <2>1. CASE x # Observed
    <3>1. Observed \in Rate!Pairs
      BY RateConstants
    <3> QED BY <1>2, <1>5, <2>1, <3>1, CoveredStays DEF RateInv
  <2>2. CASE x = Observed
    <3>1. Unused' = 0
      BY <1>2, <1>4, <1>5, <2>2, RateConstants DEF Unused, FillTime
    <3>2. limiters[x] \in 1 .. Len(buckets)
      BY <1>2, <1>3 DEF RateInv, RateShape
    <3>3. Rate!Tokens(buckets[limiters[x]])' = Rate!Tokens(buckets[limiters[x]])
          /\ Rate!Tokens(buckets[limiters[x]]) \in Nat
      BY <1>2, <3>2, BucketTypes DEF Rate!Tokens, Rate!Smaller, RateInv
    <3>4. watching => credit >= Rate!Tokens(buckets[limiters[x]]) /\ credit \in Nat
      BY <1>2, <2>2, <3>3 DEF RateInv, Covered, RateShape
    <3>5. Rate!Config(Observed)' = Rate!Config(Observed) /\ Rate!Config(Observed).burst \in Nat /\ FillTime \in Nat
      BY <1>2, ConfigTypes, RateConstants DEF Rate!Config, RateInv
    <3>6. watching => FillTime * credit >= 0 * Rate!Config(Observed).burst
      BY <3>4, <3>5
    <3>7. FillTime' = FillTime
      BY DEF FillTime
    <3> QED BY <1>2, <2>2, <3>1, <3>3, <3>4, <3>5, <3>6, <3>7 DEF Covered
  <2> QED BY <2>1, <2>2
<1> QED BY <1>2, <1>6, <1>8, <1>9, <1>10, <1>11 DEF RateInv

\* A call that takes another bucket, or none, is a call still.
LEMMA ActiveBucket ==
  ASSUME NEW a \in Active, NEW n \in Nat
  PROVE  /\ [a EXCEPT !.bucket = n] \in Active /\ [a EXCEPT !.bucket = n].bucket = n
         /\ [a EXCEPT !.bucket = n].chain = a.chain /\ [a EXCEPT !.bucket = n].client = a.client
<1>1. \A C, S : \A r \in [client : C, chain : S, bucket : Nat] :
        /\ [r EXCEPT !.bucket = n] \in [client : C, chain : S, bucket : Nat]
        /\ [r EXCEPT !.bucket = n].bucket = n
        /\ [r EXCEPT !.bucket = n].chain = r.chain /\ [r EXCEPT !.bucket = n].client = r.client
  OBVIOUS
<1> QED BY <1>1 DEF Active

\* A call goes on to the rest of its chain.
LEMMA ActiveTail ==
  ASSUME NEW a \in Active, Len(a.chain) > 1
  PROVE  [a EXCEPT !.chain = Tail(a.chain)] \in Active
<1>1. PICK s \in Seq(Limiters) : s = a.chain
  BY DEF Active
<1>2. Len(s) > 1 /\ Len(s) \in Nat
  BY <1>1
<1>3. Tail(s) \in Seq(Limiters) /\ Len(Tail(s)) = Len(s) - 1
  BY <1>2
<1>4. Tail(s) \in Seq(Limiters) \ {<<>>}
  <2>1. Len(Tail(s)) # 0
    BY <1>2, <1>3
  <2> QED BY <1>3, <2>1, EmptySeq
<1>5. \A C, S : \A r \in [client : C, chain : S, bucket : Nat], t \in S :
        [r EXCEPT !.chain = t] \in [client : C, chain : S, bucket : Nat]
  OBVIOUS
<1> QED BY <1>1, <1>4, <1>5 DEF Active

\* A client that has no bucket gets a full one of its own.
LEMMA MadeNew ==
  ASSUME InstancesAssumption, RateInv, NEW g \in Handlers, Rate!getLimiter(g), ~Rate!Made(Rate!Ahead(g))
  PROVE  RateInv'
<1>1. PICK x : x = Rate!Ahead(g)
  OBVIOUS
<1>2. PICK c : c = Rate!Config(x)
  OBVIOUS
<1>3. PICK b : b = [tokens |-> c.burst, last |-> now, rate |-> c.rate, burst |-> c.burst]
  OBVIOUS
<1>4. /\ call[g] \in Active /\ limiters[x] = 0
      /\ lastUsed' = [lastUsed EXCEPT ![x] = now]
      /\ buckets' = Append(buckets, b)
      /\ limiters' = [limiters EXCEPT ![x] = Len(buckets')]
      /\ call' = [call EXCEPT ![g] = [call[g] EXCEPT !.bucket = Len(buckets')]]
      /\ UNCHANGED <<now, tenantConfigs, watching, credit>>
  BY <1>1, <1>2, <1>3 DEF Rate!getLimiter, Rate!LastUsed, Rate!Made, RateInv, CallShape
<1>5. x \in Rate!Pairs
  <2>1. call[g].client \in Rate!Clients /\ call[g].chain \in Seq(Limiters) /\ call[g].chain # <<>>
    BY <1>4 DEF Active
  <2>2. Head(call[g].chain) \in Limiters
    BY <2>1
  <2> QED BY <1>1, <2>1, <2>2 DEF Rate!Ahead, Rate!Pairs
<1>6. c.rate \in Nat /\ c.burst \in Nat /\ now \in Nat /\ callTime \in Nat /\ FillTime \in Nat
  BY <1>2, <1>5, ConfigTypes, RateConstants DEF RateInv, RateShape
<1>7. b \in Bucket /\ b.tokens = c.burst /\ b.last = now /\ b.rate = c.rate /\ b.burst = c.burst
  BY <1>3, <1>6 DEF Bucket
<1>8. PICK n \in Nat : n = Len(buckets)
  BY DEF RateInv, RateShape
<1>9. /\ buckets' \in Seq(Bucket) /\ Len(buckets') = n + 1 /\ buckets'[n + 1] = b
      /\ \A i \in 1 .. n : buckets'[i] = buckets[i]
  BY <1>4, <1>7, <1>8 DEF RateInv, RateShape
<1>10. /\ limiters'[x] = n + 1 /\ lastUsed'[x] = now
       /\ \A y \in Rate!Pairs : y # x => limiters'[y] = limiters[y] /\ lastUsed'[y] = lastUsed[y]
       /\ limiters' \in [Rate!Pairs -> Nat] /\ lastUsed' \in [Rate!Pairs -> Nat]
  BY <1>4, <1>5, <1>6, <1>9 DEF RateInv, RateShape
<1>11. \A y \in Rate!Pairs : limiters[y] \in Nat /\ limiters[y] <= n /\ (limiters[y] # 0 => limiters[y] \in 1 .. n)
  BY <1>8 DEF RateInv, RateShape
<1>12. RateShape'
  <2>1. \A i \in 1 .. Len(buckets') : buckets'[i].last <= now
    <3> SUFFICES ASSUME NEW i \in 1 .. n + 1 PROVE buckets'[i].last <= now
      BY <1>9
    <3>1. CASE i = n + 1
      BY <1>6, <1>7, <1>9, <3>1
    <3>2. CASE i \in 1 .. n
      BY <1>8, <1>9, <3>2 DEF RateInv, RateShape
    <3> QED BY <3>1, <3>2
  <2>2. \A y \in Rate!Pairs : limiters'[y] <= Len(buckets') /\ lastUsed'[y] <= now
    <3> SUFFICES ASSUME NEW y \in Rate!Pairs PROVE limiters'[y] <= n + 1 /\ lastUsed'[y] <= now
      BY <1>9
    <3>1. lastUsed[y] <= now
      BY DEF RateInv, RateShape
    <3> QED BY <1>6, <1>10, <1>11, <3>1
  <2> QED BY <1>4, <1>9, <1>10, <2>1, <2>2 DEF RateInv, RateShape
<1>13. /\ call'[g] \in Active /\ call'[g].bucket = n + 1 /\ Rate!Ahead(g)' = x
       /\ \A f \in Handlers : f # g => call'[f] = call[f]
       /\ DOMAIN call' = Handlers
  <2>1. DOMAIN call = Handlers
    BY DEF RateInv, CallShape
  <2>2. call'[g] = [call[g] EXCEPT !.bucket = n + 1] /\ DOMAIN call' = Handlers
        /\ \A f \in Handlers : f # g => call'[f] = call[f]
    BY <1>4, <1>9, <2>1
  <2>3. /\ call'[g] \in Active /\ call'[g].bucket = n + 1
        /\ call'[g].chain = call[g].chain /\ call'[g].client = call[g].client
    <3>1. n + 1 \in Nat /\ call[g] \in Active
      BY <1>4, <1>8
    <3> QED BY <2>2, <3>1, ActiveBucket
  <2> QED BY <1>1, <2>2, <2>3 DEF Rate!Ahead
<1>14. CallShape'
  BY <1>13 DEF RateInv, CallShape
<1>15. Held'
  <2> SUFFICES ASSUME NEW f \in Handlers, call'[f].bucket # 0
               PROVE  /\ limiters'[Rate!Ahead(f)'] = call'[f].bucket
                      /\ now - lastUsed'[Rate!Ahead(f)'] <= callTime
    BY <1>4 DEF Held
  <2>1. CASE f = g
    BY <1>6, <1>10, <1>13, <2>1
  <2>2. CASE f # g
    <3>1. call'[f] = call[f] /\ Rate!Ahead(f)' = Rate!Ahead(f)
      BY <1>13, <2>2 DEF Rate!Ahead
    <3>2. Rate!Ahead(f) \in Rate!Pairs /\ limiters[Rate!Ahead(f)] = call[f].bucket
          /\ now - lastUsed[Rate!Ahead(f)] <= callTime
      BY <3>1, HeldPair DEF RateInv, Held
    <3>3. Rate!Ahead(f) # x
      BY <1>4, <3>1, <3>2
    <3> QED BY <1>10, <3>1, <3>2, <3>3
  <2> QED BY <2>1, <2>2
<1>16. OnePair'
  <2> SUFFICES ASSUME NEW y \in Rate!Pairs, NEW z \in Rate!Pairs, limiters'[y] # 0, limiters'[y] = limiters'[z]
               PROVE  y = z
    BY DEF OnePair
  <2>1. CASE y # x /\ z # x
    BY <1>10, <2>1 DEF RateInv, OnePair
  <2>2. ~(n + 1 <= n)
    OBVIOUS
  <2> QED BY <1>10, <1>11, <2>1, <2>2
<1>17. SetAs'
  <2> SUFFICES ASSUME NEW y \in Rate!Pairs, limiters'[y] # 0
               PROVE  /\ buckets'[limiters'[y]].rate = Rate!Config(y).rate
                      /\ buckets'[limiters'[y]].burst = Rate!Config(y).burst
    BY <1>4 DEF SetAs, Rate!Config
  <2>1. CASE y = x
    BY <1>2, <1>7, <1>9, <1>10, <2>1
  <2>2. CASE y # x
    BY <1>9, <1>10, <1>11, <2>2 DEF RateInv, SetAs
  <2> QED BY <2>1, <2>2
<1>18. Covered'
  <2>0. Observed \in Rate!Pairs
    BY RateConstants
  <2>1. CASE x # Observed
    <3>1. limiters[Observed] # 0 => buckets'[limiters[Observed]] = buckets[limiters[Observed]]
      BY <1>9, <1>11, <2>0
    <3> QED BY <1>4, <1>10, <2>0, <2>1, <3>1, CoveredStays DEF RateInv
  <2>2. CASE x = Observed
    <3>1. Unused' = 0
      BY <1>4, <1>6, <1>10, <2>2 DEF Unused, FillTime
    <3>2. Rate!Tokens(b)' = c.burst
      <4>1. c.rate * (now - now) = 0
        BY <1>6
      <4> QED BY <1>4, <1>6, <1>7, <4>1 DEF Rate!Tokens, Rate!Smaller
    <3>3. limiters'[Observed] = n + 1 /\ n + 1 # 0 /\ buckets'[limiters'[Observed]] = b
      BY <1>9, <1>10, <2>2
    <3>4. watching => credit >= c.burst /\ credit \in Nat
      BY <1>2, <1>4, <1>6, <2>2 DEF RateInv, Covered, RateShape
    <3>5. Rate!Config(Observed)' = c
      BY <1>2, <1>4, <2>2 DEF Rate!Config
    <3>6. watching => FillTime * credit >= 0 * c.burst
      BY <1>6, <3>4
    <3>7. FillTime' = FillTime /\ credit' = credit /\ watching' = watching
      BY <1>4 DEF FillTime
    <3>8. Rate!Tokens(buckets[limiters[Observed]])' = Rate!Tokens(b)'
      BY <3>3 DEF Rate!Tokens
    <3> QED BY <3>1, <3>2, <3>3, <3>4, <3>5, <3>6, <3>7, <3>8 DEF Covered
  <2> QED BY <2>1, <2>2
<1> QED BY <1>4, <1>12, <1>14, <1>15, <1>16, <1>17, <1>18 DEF RateInv

\* A call leaves its bucket: it takes a token, or is turned away.
LEMMA AllowKeeps ==
  ASSUME InstancesAssumption, RateInv, NEW g \in Handlers, Rate!Allow(g)
  PROVE  RateInv'
<1>1. PICK x \in Rate!Pairs : x = Rate!Ahead(g)
  BY HeldPair DEF RateInv, Rate!Allow
<1>2. PICK i \in 1 .. Len(buckets) : i = call[g].bucket /\ i = limiters[x]
  BY <1>1, HeldPair DEF RateInv, Rate!Allow
<1>3. PICK b \in Bucket : b = buckets[i]
  BY BucketTypes DEF RateInv
<1>4. /\ b.tokens \in Nat /\ b.last \in Nat /\ b.rate \in Nat /\ b.burst \in Nat /\ b.last <= now
      /\ Rate!Tokens(b) \in Nat /\ Rate!Tokens(b) <= b.burst /\ now \in Nat /\ Len(buckets) \in Nat
  BY <1>3, BucketTypes DEF RateInv, RateShape
<1>5. /\ call[g].bucket # 0 /\ UNCHANGED <<now, limiters, lastUsed, tenantConfigs, watching>>
      /\ buckets' = [buckets EXCEPT ![i] = IF Rate!Tokens(b) >= 1
                       THEN [[b EXCEPT !.tokens = Rate!Tokens(b) - 1] EXCEPT !.last = now] ELSE b]
      /\ credit' = IF Rate!Tokens(b) >= 1 /\ watching /\ x = Observed THEN credit - 1 ELSE credit
      /\ call' = [call EXCEPT ![g] =
                    IF Rate!Tokens(b) >= 1 /\ Len(call[g].chain) > 1
                    THEN [call[g] EXCEPT !.chain = Tail(call[g].chain), !.bucket = 0] ELSE Rate!Idle]
  <2>1. call[g].bucket # 0 /\ UNCHANGED <<now, limiters, lastUsed, tenantConfigs, watching>>
    BY DEF Rate!Allow
  <2>2. buckets' = [buckets EXCEPT ![i] = IF Rate!Tokens(buckets[i]) >= 1
                      THEN [[buckets[i] EXCEPT !.tokens = Rate!Tokens(buckets[i]) - 1] EXCEPT !.last = now] ELSE buckets[i]]
    BY <1>2 DEF Rate!Allow
  <2>3. credit' = IF Rate!Tokens(buckets[i]) >= 1 /\ watching /\ x = Observed THEN credit - 1 ELSE credit
    BY <1>1, <1>2 DEF Rate!Allow
  <2>4. call' = [call EXCEPT ![g] =
                    IF Rate!Tokens(buckets[i]) >= 1 /\ Len(call[g].chain) > 1
                    THEN [call[g] EXCEPT !.chain = Tail(call[g].chain), !.bucket = 0] ELSE Rate!Idle]
    BY <1>2 DEF Rate!Allow
  <2> QED BY <1>3, <2>1, <2>2, <2>3, <2>4
<1>6. PICK e \in Bucket :
        /\ buckets' = [buckets EXCEPT ![i] = e]
        /\ e.rate = b.rate /\ e.burst = b.burst /\ e.last <= now
        /\ Rate!Tokens(b) >= 1 => e.tokens = Rate!Tokens(b) - 1 /\ e.last = now
        /\ ~(Rate!Tokens(b) >= 1) => e = b
  <2>1. CASE Rate!Tokens(b) >= 1
    <3>1. PICK k \in Nat : k = Rate!Tokens(b) - 1
      BY <1>4, <2>1
    <3>2. PICK e : e = [[b EXCEPT !.tokens = k] EXCEPT !.last = now]
      OBVIOUS
    <3>3. e \in Bucket /\ e.rate = b.rate /\ e.burst = b.burst /\ e.last = now /\ e.tokens = k
      BY <1>4, <3>2 DEF Bucket
    <3>4. buckets' = [buckets EXCEPT ![i] = e]
      BY <1>5, <2>1, <3>1, <3>2
    <3>5. e.last <= now
      BY <1>4, <3>3
    <3> QED BY <2>1, <3>1, <3>3, <3>4, <3>5
  <2>2. CASE ~(Rate!Tokens(b) >= 1)
    BY <1>4, <1>5, <2>2
  <2> QED BY <2>1, <2>2
<1>7. /\ buckets' \in Seq(Bucket) /\ Len(buckets') = Len(buckets) /\ buckets'[i] = e
      /\ \A j \in 1 .. Len(buckets) : j # i => buckets'[j] = buckets[j]
  <2>1. buckets \in Seq(Bucket)
    BY DEF RateInv, RateShape
  <2> QED BY <1>6, <2>1
<1>8. RateShape'
  <2>1. \A j \in 1 .. Len(buckets') : buckets'[j].last <= now
    BY <1>6, <1>7 DEF RateInv, RateShape
  <2>2. credit' \in Int
    BY <1>5 DEF RateInv, RateShape
  <2> QED BY <1>5, <1>7, <2>1, <2>2 DEF RateInv, RateShape
<1>9. /\ call'[g] = Rate!Idle \/ call'[g] \in Active
      /\ call'[g].bucket = 0 /\ DOMAIN call' = Handlers
      /\ \A f \in Handlers : f # g => call'[f] = call[f]
  <2>1. call[g] \in Active /\ DOMAIN call = Handlers
    BY <1>5, HeldPair DEF RateInv, CallShape
  <2>2. PICK a : a = [call[g] EXCEPT !.chain = Tail(call[g].chain), !.bucket = 0]
    OBVIOUS
  <2>3. PICK c : c = [call[g] EXCEPT !.chain = Tail(call[g].chain)]
    OBVIOUS
  <2>4. Len(call[g].chain) > 1 => c \in Active /\ a = [c EXCEPT !.bucket = 0]
    BY <2>1, <2>2, <2>3, ActiveTail
  <2>5. Len(call[g].chain) > 1 => a \in Active /\ a.bucket = 0
    BY <2>4, ActiveBucket
  <2>6. Rate!Idle.bucket = 0
    BY DEF Rate!Idle
  <2>7. call'[g] = IF Rate!Tokens(b) >= 1 /\ Len(call[g].chain) > 1 THEN a ELSE Rate!Idle
    BY <1>5, <2>1, <2>2
  <2>8. DOMAIN call' = Handlers /\ \A f \in Handlers : f # g => call'[f] = call[f]
    BY <1>5, <2>1
  <2> QED BY <2>5, <2>6, <2>7, <2>8
<1>10. CallShape' /\ Held'
  BY <1>5, <1>9 DEF RateInv, CallShape, Held, Rate!Ahead
<1>11. \A y \in Rate!Pairs : y # x /\ limiters[y] # 0 => limiters[y] # i /\ limiters[y] \in 1 .. Len(buckets)
  BY <1>2 DEF RateInv, OnePair, RateShape
<1>12. OnePair' /\ SetAs'
  <2>1. OnePair'
    BY <1>5 DEF RateInv, OnePair
  <2>2. \A y \in Rate!Pairs : Rate!Config(y)' = Rate!Config(y)
    BY <1>5 DEF Rate!Config
  <2>3. \A y \in Rate!Pairs : limiters[y] # 0 =>
          buckets'[limiters[y]].rate = buckets[limiters[y]].rate /\ buckets'[limiters[y]].burst = buckets[limiters[y]].burst
    BY <1>2, <1>3, <1>6, <1>7, <1>11
  <2> QED BY <1>5, <2>1, <2>2, <2>3 DEF RateInv, SetAs
<1>13. Covered' /\ (watching' \/ credit' = 0)
  <2>0. Observed \in Rate!Pairs
    BY RateConstants
  <2>1. CASE x # Observed
    <3>1. limiters[Observed] # 0 => buckets'[limiters[Observed]] = buckets[limiters[Observed]]
      BY <1>7, <1>11, <2>0, <2>1
    <3> QED BY <1>5, <2>1, <3>1, CoveredStays DEF RateInv
  <2>2. CASE ~watching
    BY <1>5, <2>2 DEF RateInv, Covered
  <2>3. CASE x = Observed /\ watching
    <3>1. Unused' = 0
      <4>1. now - lastUsed[x] <= callTime
        BY <1>1, <1>5 DEF RateInv, Held
      <4>2. lastUsed[x] \in Nat /\ FillTime \in Nat /\ callTime \in Nat
        BY RateConstants DEF RateInv, RateShape
      <4>3. FillTime' = FillTime
        BY DEF FillTime
      <4> QED BY <1>4, <1>5, <2>3, <4>1, <4>2, <4>3 DEF Unused
    <3>2. credit >= Rate!Tokens(b) /\ credit \in Int /\ limiters[Observed] # 0
      BY <1>2, <1>3, <2>3 DEF RateInv, RateShape, Covered
    <3>3. Rate!Tokens(e)' <= IF Rate!Tokens(b) >= 1 THEN Rate!Tokens(b) - 1 ELSE Rate!Tokens(b)
      <4>1. CASE Rate!Tokens(b) >= 1
        <5>1. e.tokens \in Nat /\ e.rate * (now - now) = 0 /\ e.burst \in Nat
          BY <1>4, <1>6 DEF Bucket
        <5> QED BY <1>4, <1>5, <1>6, <4>1, <5>1 DEF Rate!Tokens, Rate!Smaller
      <4>2. CASE ~(Rate!Tokens(b) >= 1)
        <5>1. Rate!Tokens(e)' = Rate!Tokens(b)
          BY <1>5, <1>6, <4>2 DEF Rate!Tokens, Rate!Smaller
        <5> QED BY <1>4, <4>2, <5>1
      <4> QED BY <4>1, <4>2
    <3>4. Rate!Tokens(e)' \in Int
      <4>1. e.tokens \in Nat /\ e.rate \in Nat /\ e.burst \in Nat /\ e.last \in Nat
        BY DEF Bucket
      <4>2. e.rate * (now - e.last) \in Int
        BY <1>4, <4>1
      <4> QED BY <1>5, <4>1, <4>2 DEF Rate!Tokens, Rate!Smaller
    <3>5. credit' >= Rate!Tokens(e)' /\ credit' \in Nat
      BY <1>4, <1>5, <2>3, <3>2, <3>3, <3>4
    <3>6. Rate!Tokens(buckets[limiters[Observed]])' = Rate!Tokens(e)'
      BY <1>2, <1>5, <1>7, <2>3 DEF Rate!Tokens
    <3>7. Rate!Config(Observed)' = Rate!Config(Observed) /\ Rate!Config(Observed).burst \in Nat /\ FillTime \in Nat
          /\ FillTime' = FillTime
      BY <1>5, <2>0, ConfigTypes, RateConstants DEF Rate!Config, RateInv, FillTime
    <3>8. FillTime * credit' >= 0 * Rate!Config(Observed).burst
      BY <3>5, <3>7
    <3> QED BY <1>5, <2>3, <3>1, <3>2, <3>5, <3>6, <3>7, <3>8 DEF Covered
  <2> QED BY <2>1, <2>2, <2>3
<1> QED BY <1>8, <1>10, <1>12, <1>13 DEF RateInv

\* A pair's settings change: its bucket keeps what it has earned, and the credit
\* grows with the burst.
LEMMA SettingKeeps ==
  ASSUME InstancesAssumption, RateInv, NEW y \in Rate!Pairs, Rate!SetTenantConfig(y)
  PROVE  RateInv'
<1>1. PICK c \in Configs :
        /\ tenantConfigs' = [tenantConfigs EXCEPT ![y] = c]
        /\ buckets' = IF Rate!Made(y)
                      THEN [buckets EXCEPT ![limiters[y]] =
                              [tokens |-> Rate!Tokens(buckets[limiters[y]]), last |-> now, rate |-> c.rate, burst |-> c.burst]]
                      ELSE buckets
        /\ credit' = IF watching /\ y = Observed /\ c.burst > Rate!Config(y).burst
                     THEN credit + c.burst - Rate!Config(y).burst ELSE credit
  BY DEF Rate!SetTenantConfig
<1>2. UNCHANGED <<now, limiters, lastUsed, call, watching>>
  BY DEF Rate!SetTenantConfig
<1>3. c.rate \in Nat /\ c.burst \in Nat /\ c # None /\ now \in Nat /\ FillTime \in Nat
  BY RateConstants DEF RateInv, RateShape
<1>4. /\ tenantConfigs' \in [Rate!Pairs -> Configs \cup {None}] /\ Rate!Config(y)' = c
      /\ \A z \in Rate!Pairs : z # y => Rate!Config(z)' = Rate!Config(z)
  BY <1>1, <1>3 DEF RateInv, RateShape, Rate!Config
<1>5. PICK i \in Nat : i = limiters[y] /\ (i # 0 => i \in 1 .. Len(buckets))
  BY DEF RateInv, RateShape
<1>6. PICK e :
        /\ i # 0 => e \in Bucket /\ e.tokens = Rate!Tokens(buckets[i]) /\ e.last = now
                     /\ e.rate = c.rate /\ e.burst = c.burst
        /\ buckets' = IF i # 0 THEN [buckets EXCEPT ![i] = e] ELSE buckets
  <2>1. CASE i # 0
    <3>1. PICK k \in Nat : k = Rate!Tokens(buckets[i])
      BY <1>5, <2>1, BucketTypes DEF RateInv
    <3>2. PICK e : e = [tokens |-> k, last |-> now, rate |-> c.rate, burst |-> c.burst]
      OBVIOUS
    <3>3. e \in Bucket /\ e.tokens = k /\ e.last = now /\ e.rate = c.rate /\ e.burst = c.burst
      BY <1>3, <3>2 DEF Bucket
    <3>4. buckets' = [buckets EXCEPT ![i] = e]
      BY <1>1, <1>5, <2>1, <3>1, <3>2 DEF Rate!Made
    <3> QED BY <2>1, <3>1, <3>3, <3>4
  <2>2. CASE i = 0
    BY <1>1, <1>5, <2>2 DEF Rate!Made
  <2> QED BY <2>1, <2>2
<1>7. /\ buckets' \in Seq(Bucket) /\ Len(buckets') = Len(buckets) /\ (i # 0 => buckets'[i] = e)
      /\ \A j \in 1 .. Len(buckets) : j # i => buckets'[j] = buckets[j]
  <2>1. buckets \in Seq(Bucket)
    BY DEF RateInv, RateShape
  <2>2. CASE i # 0
    BY <1>5, <1>6, <2>1, <2>2
  <2>3. CASE i = 0
    BY <1>6, <2>1, <2>3
  <2> QED BY <2>2, <2>3
<1>8. \A z \in Rate!Pairs : z # y /\ limiters[z] # 0 => limiters[z] # i /\ limiters[z] \in 1 .. Len(buckets)
  BY <1>5 DEF RateInv, OnePair, RateShape
<1>9. Rate!Config(y).burst \in Nat
  BY ConfigTypes DEF RateInv
<1>10. RateShape'
  <2>1. \A j \in 1 .. Len(buckets') : buckets'[j].last <= now
    <3> SUFFICES ASSUME NEW j \in 1 .. Len(buckets) PROVE buckets'[j].last <= now
      BY <1>7
    <3>1. CASE j = i
      BY <1>3, <1>6, <1>7, <3>1
    <3>2. CASE j # i
      BY <1>7, <3>2 DEF RateInv, RateShape
    <3> QED BY <3>1, <3>2
  <2>2. credit' \in Int
    BY <1>1, <1>3, <1>9 DEF RateInv, RateShape
  <2> QED BY <1>2, <1>4, <1>7, <2>1, <2>2 DEF RateInv, RateShape
<1>11. CallShape' /\ Held' /\ OnePair'
  BY <1>2 DEF RateInv, CallShape, Held, OnePair, Rate!Ahead
<1>12. SetAs'
  <2> SUFFICES ASSUME NEW z \in Rate!Pairs, limiters[z] # 0
               PROVE  /\ buckets'[limiters[z]].rate = Rate!Config(z)'.rate
                      /\ buckets'[limiters[z]].burst = Rate!Config(z)'.burst
    BY <1>2 DEF SetAs
  <2>1. CASE z = y
    BY <1>4, <1>5, <1>6, <1>7, <2>1
  <2>2. CASE z # y
    BY <1>4, <1>7, <1>8, <2>2 DEF RateInv, SetAs
  <2> QED BY <2>1, <2>2
<1>13. Covered' /\ (watching' \/ credit' = 0)
  <2>0. Observed \in Rate!Pairs
    BY RateConstants
  <2>1. CASE ~watching
    BY <1>1, <1>2, <2>1 DEF RateInv, Covered
  <2>2. CASE y # Observed
    <3>1. limiters[Observed] # 0 => buckets'[limiters[Observed]] = buckets[limiters[Observed]]
      BY <1>7, <1>8, <2>0, <2>2
    <3>2. tenantConfigs'[Observed] = tenantConfigs[Observed] /\ credit' = credit
      BY <1>1, <2>0, <2>2 DEF RateInv, RateShape
    <3> QED BY <1>2, <3>1, <3>2, CoveredStays DEF RateInv
  <2>3. CASE y = Observed /\ watching
    <3>1. PICK old \in Nat : old = Rate!Config(y).burst
      BY <1>9
    <3>2. Unused' = Unused /\ Unused \in 0 .. FillTime /\ FillTime' = FillTime
      BY <1>2, UnusedTypes DEF Unused, FillTime, RateInv
    <3>3. CASE i = 0
      <4>1. credit >= old /\ credit \in Int
        BY <1>5, <2>3, <3>1, <3>3 DEF RateInv, Covered, RateShape
      <4>2. credit' >= c.burst
        BY <1>1, <1>3, <2>3, <3>1, <4>1
      <4> QED BY <1>2, <1>4, <1>5, <2>3, <3>3, <4>2 DEF Covered
    <3>4. CASE i # 0
      <4>1. credit >= Rate!Tokens(buckets[i]) /\ FillTime * credit >= Unused * old /\ credit \in Int
        BY <1>5, <2>3, <3>1, <3>4 DEF RateInv, Covered, RateShape
      <4>2. Rate!Tokens(buckets[i]) \in Nat
        BY <1>5, <3>4, BucketTypes DEF RateInv
      <4>3. credit \in Nat
        BY <4>1, <4>2
      <4>4. Rate!Tokens(e)' <= Rate!Tokens(buckets[i]) /\ Rate!Tokens(e)' \in Int
        <5>1. c.rate * (now - now) = 0
          BY <1>3
        <5> QED BY <1>2, <1>3, <1>6, <3>4, <4>2, <5>1 DEF Rate!Tokens, Rate!Smaller
      <4>5. Rate!Tokens(buckets[limiters[Observed]])' = Rate!Tokens(e)'
        BY <1>2, <1>5, <1>7, <2>3, <3>4 DEF Rate!Tokens
      <4>6. CASE c.burst > old
        <5>1. PICK d \in Nat : c.burst = old + d
          <6>1. c.burst - old \in Nat /\ c.burst = old + (c.burst - old)
            BY <1>3, <4>6
          <6> QED BY <6>1
        <5>2. credit' = credit + d
          BY <1>1, <1>3, <2>3, <3>1, <4>3, <4>6, <5>1
        <5>3. FillTime * (credit + d) >= Unused * (old + d)
          BY <1>3, <3>2, <4>1, <4>3, Raised
        <5>4. credit' >= Rate!Tokens(e)'
          BY <4>1, <4>2, <4>3, <4>4, <5>2
        <5> QED BY <1>2, <1>4, <1>5, <2>3, <3>2, <3>4, <4>5, <5>1, <5>2, <5>3, <5>4 DEF Covered
      <4>7. CASE ~(c.burst > old)
        <5>1. credit' = credit
          BY <1>1, <2>3, <3>1, <4>7
        <5>2. Unused * c.burst <= Unused * old
          BY <1>3, <3>2, <4>7, Multiples
        <5>3. Unused * c.burst \in Nat /\ Unused * old \in Nat /\ FillTime * credit \in Nat
          BY <1>3, <3>2, <4>3
        <5>4. FillTime * credit >= Unused * c.burst
          BY <4>1, <5>2, <5>3
        <5>5. credit >= Rate!Tokens(e)'
          BY <4>1, <4>2, <4>3, <4>4
        <5> QED BY <1>2, <1>4, <1>5, <2>3, <3>2, <3>4, <4>5, <5>1, <5>4, <5>5 DEF Covered
      <4> QED BY <4>6, <4>7
    <3> QED BY <3>3, <3>4
  <2> QED BY <2>1, <2>2, <2>3
<1> QED BY <1>10, <1>11, <1>12, <1>13 DEF RateInv

\* A bucket that is dropped is held by nobody, and would have been full.
LEMMA CleanupKeeps ==
  ASSUME InstancesAssumption, RateInv, NEW l \in Limiters, Rate!cleanup(l)
  PROVE  RateInv'
<1>1. /\ limiters' = [x \in Rate!Pairs |-> IF x[1] = l /\ now - lastUsed[x] > maxIdleTime THEN 0 ELSE limiters[x]]
      /\ UNCHANGED <<now, buckets, lastUsed, tenantConfigs, call, watching, credit>>
  BY DEF Rate!cleanup
<1>2. \A x \in Rate!Pairs :
        \/ limiters'[x] = limiters[x]
        \/ limiters'[x] = 0 /\ now - lastUsed[x] > maxIdleTime
  BY <1>1
<1>3. /\ now \in Nat /\ callTime \in Nat /\ maxIdleTime \in Nat /\ callTime <= maxIdleTime
      /\ Observed \in Rate!Pairs /\ \A x \in Rate!Pairs : lastUsed[x] \in Nat
  BY RateConstants DEF RateInv, RateShape
<1>4. RateShape'
  <2>1. limiters' \in [Rate!Pairs -> Nat]
    BY <1>1 DEF RateInv, RateShape
  <2>2. Len(buckets) \in Nat
    BY DEF RateInv, RateShape
  <2>3. \A x \in Rate!Pairs : limiters'[x] <= Len(buckets')
    BY <1>1, <1>2, <2>2 DEF RateInv, RateShape
  <2> QED BY <1>1, <2>1, <2>3 DEF RateInv, RateShape
<1>5. Held'
  <2> SUFFICES ASSUME NEW g \in Handlers, call[g].bucket # 0
               PROVE  limiters'[Rate!Ahead(g)] = call[g].bucket /\ now - lastUsed[Rate!Ahead(g)] <= callTime
    BY <1>1 DEF Held, Rate!Ahead
  <2>1. Rate!Ahead(g) \in Rate!Pairs /\ limiters[Rate!Ahead(g)] = call[g].bucket
        /\ now - lastUsed[Rate!Ahead(g)] <= callTime
    BY HeldPair DEF RateInv, Held
  <2>2. ~(now - lastUsed[Rate!Ahead(g)] > maxIdleTime)
    BY <1>3, <2>1
  <2> QED BY <1>2, <2>1, <2>2
<1>6. CallShape'
  BY <1>1 DEF RateInv, CallShape
<1>7. OnePair'
  BY <1>2 DEF RateInv, OnePair
<1>8. SetAs'
  <2>1. \A x \in Rate!Pairs : Rate!Config(x)' = Rate!Config(x)
    BY <1>1 DEF Rate!Config
  <2> QED BY <1>1, <1>2, <2>1 DEF RateInv, SetAs
<1>9. Covered'
  <2>1. CASE limiters'[Observed] = limiters[Observed]
    BY <1>1, <2>1, CoveredStays DEF RateInv
  <2>2. CASE limiters'[Observed] = 0 /\ limiters[Observed] # 0 /\ now - lastUsed[Observed] > maxIdleTime /\ watching
    <3>1. Unused = FillTime /\ FillTime \in Nat /\ FillTime > 0
      BY <1>3, <2>2 DEF Unused, FillTime
    <3>2. FillTime * credit >= FillTime * Rate!Config(Observed).burst
      BY <2>2, <3>1 DEF RateInv, Covered
    <3>3. credit \in Int /\ Rate!Config(Observed).burst \in Nat /\ limiters[Observed] \in 1 .. Len(buckets)
      BY <1>3, <2>2, ConfigTypes DEF RateInv, RateShape
    <3>4. Rate!Tokens(buckets[limiters[Observed]]) \in Nat
      BY <3>3, BucketTypes DEF RateInv
    <3>5. credit \in Nat
      BY <2>2, <3>3, <3>4 DEF RateInv, Covered
    <3>6. credit >= Rate!Config(Observed).burst
      BY <3>1, <3>2, <3>3, <3>5, Divided
    <3>7. Rate!Config(Observed)' = Rate!Config(Observed)
      BY <1>1 DEF Rate!Config
    <3> QED BY <1>1, <2>2, <3>6, <3>7 DEF Covered
  <2>3. CASE ~watching
    BY <1>1, <2>3 DEF Covered
  <2> QED BY <1>2, <1>3, <2>1, <2>2, <2>3
<1> QED BY <1>1, <1>4, <1>5, <1>6, <1>7, <1>8, <1>9 DEF RateInv

\* A unit of time earns no bucket more than the credit grows.
LEMMA TimePasses ==
  ASSUME InstancesAssumption, RateInv, Rate!Tick
  PROVE  RateInv'
<1>1. /\ now < MaxTime /\ now' = now + 1
      /\ \A g \in Handlers : call[g].bucket # 0 => now - lastUsed[Rate!Ahead(g)] < callTime
      /\ credit' = IF watching THEN credit + Rate!Config(Observed).rate ELSE credit
      /\ UNCHANGED <<buckets, limiters, lastUsed, tenantConfigs, call, watching>>
  BY DEF Rate!Tick
<1>2. /\ now \in Nat /\ callTime \in Nat /\ FillTime \in Nat /\ MaxTime \in Nat
      /\ Observed \in Rate!Pairs /\ \A x \in Rate!Pairs : lastUsed[x] \in Nat
  BY RateConstants DEF RateInv, RateShape
<1>3. PICK r \in Nat : r = Rate!Config(Observed).rate
  BY <1>2, ConfigTypes DEF RateInv
<1>4. PICK b \in Nat : b = Rate!Config(Observed).burst /\ FillTime * r >= b
  BY <1>2, <1>3, ConfigTypes DEF RateInv
<1>5. RateShape'
  <2>1. \A i \in 1 .. Len(buckets) : buckets[i].last <= now + 1
    BY <1>2, BucketTypes DEF RateInv
  <2>2. \A x \in Rate!Pairs : lastUsed[x] <= now + 1
    BY <1>2 DEF RateInv, RateShape
  <2>3. credit' \in Int /\ now' \in 0 .. MaxTime
    BY <1>1, <1>2, <1>3 DEF RateInv, RateShape
  <2> QED BY <1>1, <2>1, <2>2, <2>3 DEF RateInv, RateShape
<1>6. Held'
  <2> SUFFICES ASSUME NEW g \in Handlers, call'[g].bucket # 0
               PROVE  limiters'[Rate!Ahead(g)'] = call'[g].bucket /\ now' - lastUsed'[Rate!Ahead(g)'] <= callTime
    BY DEF Held
  <2>0. Rate!Ahead(g)' = Rate!Ahead(g) /\ call[g].bucket # 0
    BY <1>1 DEF Rate!Ahead
  <2>1. Rate!Ahead(g) \in Rate!Pairs /\ limiters[Rate!Ahead(g)] = call[g].bucket
        /\ now - lastUsed[Rate!Ahead(g)] < callTime
    BY <1>1, <2>0, HeldPair DEF RateInv
  <2> QED BY <1>1, <1>2, <2>0, <2>1
<1>7. CallShape' /\ OnePair' /\ SetAs' /\ (watching' \/ credit' = 0)
  BY <1>1 DEF RateInv, CallShape, OnePair, SetAs, Rate!Config
<1>8. Covered'
  <2> SUFFICES ASSUME watching PROVE Covered'
    BY <1>1 DEF Covered
  <2>1. credit' = credit + r /\ credit \in Int /\ Rate!Config(Observed)' = Rate!Config(Observed)
    BY <1>1, <1>3 DEF RateInv, RateShape, Rate!Config
  <2>2. CASE limiters[Observed] = 0
    <3>1. credit' >= b
      BY <1>4, <2>1, <2>2 DEF RateInv, Covered
    <3> QED BY <1>1, <1>4, <2>1, <2>2, <3>1 DEF Covered
  <2>3. CASE limiters[Observed] # 0
    <3>1. PICK i \in 1 .. Len(buckets) : i = limiters[Observed]
      BY <1>2, <2>3 DEF RateInv, RateShape
    <3>2. PICK tok \in Nat, last \in Nat : tok = buckets[i].tokens /\ last = buckets[i].last /\ last <= now
      BY BucketTypes DEF RateInv
    <3>3. buckets[i].rate = r /\ buckets[i].burst = b
      BY <1>2, <1>3, <1>4, <2>3, <3>1 DEF RateInv, SetAs
    <3>4. Rate!Tokens(buckets[i]) \in Nat
      BY BucketTypes DEF RateInv
    <3>5. Rate!Tokens(buckets[i])' <= Rate!Tokens(buckets[i]) + r /\ Rate!Tokens(buckets[i])' \in Int
      <4>1. r * (now + 1 - last) = r * (now - last) + r /\ r * (now - last) \in Nat
        BY <1>2, <3>2
      <4>2. Rate!Tokens(buckets[i])' = Rate!Smaller(b, tok + r * (now + 1 - last))
        <5>1. Rate!Tokens(buckets[i])' = Rate!Smaller(buckets[i].burst, buckets[i].tokens + buckets[i].rate * (now' - buckets[i].last))
          BY <1>1 DEF Rate!Tokens, Rate!Smaller
        <5>2. buckets[i].rate * (now' - buckets[i].last) = r * (now + 1 - last)
          <6>1. now' - buckets[i].last = now + 1 - last
            BY <1>1, <1>2, <3>2
          <6> QED BY <3>3, <6>1
        <5> QED BY <3>2, <3>3, <5>1, <5>2
      <4>3. Rate!Tokens(buckets[i]) = Rate!Smaller(b, tok + r * (now - last))
        BY <3>2, <3>3 DEF Rate!Tokens
      <4> QED BY <4>1, <4>2, <4>3 DEF Rate!Smaller
    <3>6. credit >= Rate!Tokens(buckets[i]) /\ FillTime * credit >= Unused * b
      BY <1>4, <2>3, <3>1 DEF RateInv, Covered
    <3>7. credit \in Nat /\ credit' >= Rate!Tokens(buckets[i])'
      BY <2>1, <3>4, <3>5, <3>6
    <3>8. Unused \in 0 .. FillTime /\ Unused' \in Nat /\ Unused' <= Unused + 1 /\ FillTime' = FillTime
      <4>1. Unused \in 0 .. FillTime
        BY UnusedTypes DEF RateInv
      <4>2. lastUsed[Observed] \in Nat /\ lastUsed' = lastUsed
        BY <1>1, <1>2
      <4>3. FillTime' = FillTime
        BY DEF FillTime
      <4> QED BY <1>1, <1>2, <4>1, <4>2, <4>3 DEF Unused
    <3>9. PICK e \in Nat, u \in Nat : e = Unused /\ u = Unused' /\ u <= e + 1
      BY <1>2, <3>8
    <3>10. FillTime * (credit + r) >= (e + 1) * b
      BY <1>2, <1>4, <3>6, <3>7, <3>9, Earned
    <3>11. FillTime * credit' >= Unused' * b
      <4>1. b * u <= b * (e + 1)
        <5>1. b \in Nat /\ u \in Nat /\ e + 1 \in Nat /\ u <= e + 1
          BY <3>9
        <5> QED BY <5>1, Multiples
      <4>2. b * u = u * b /\ b * (e + 1) = (e + 1) * b /\ u * b \in Nat /\ (e + 1) * b \in Nat
            /\ FillTime * (credit + r) \in Nat
        BY <1>2, <3>7
      <4> QED BY <2>1, <3>9, <3>10, <4>1, <4>2
    <3>12. Rate!Tokens(buckets[limiters[Observed]])' = Rate!Tokens(buckets[i])'
      BY <1>1, <3>1 DEF Rate!Tokens
    <3> QED BY <1>1, <1>4, <2>1, <2>3, <3>1, <3>7, <3>8, <3>11, <3>12 DEF Covered
  <2> QED BY <2>2, <2>3
<1> QED BY <1>5, <1>6, <1>7, <1>8 DEF RateInv

\* When the counting begins, a full burst is allowed.
LEMMA ObservingKeeps ==
  ASSUME InstancesAssumption, RateInv, Rate!Observe
  PROVE  RateInv'
<1>1. /\ watching' = TRUE /\ credit' = Rate!Config(Observed).burst
      /\ UNCHANGED <<now, buckets, limiters, lastUsed, tenantConfigs, call>>
  BY DEF Rate!Observe
<1>2. Observed \in Rate!Pairs
  BY RateConstants
<1>3. PICK b \in Nat : b = Rate!Config(Observed).burst
  BY <1>2, ConfigTypes DEF RateInv
<1>4. RateShape' /\ CallShape' /\ Held' /\ OnePair' /\ SetAs'
  BY <1>1, <1>3 DEF RateInv, RateShape, CallShape, Held, OnePair, SetAs, Rate!Config, Rate!Ahead
<1>5. Covered'
  <2>1. Rate!Config(Observed)' = Rate!Config(Observed) /\ Unused' = Unused /\ FillTime' = FillTime
    BY <1>1 DEF Rate!Config, Unused, FillTime
  <2>2. CASE limiters[Observed] = 0
    BY <1>1, <1>3, <2>1, <2>2 DEF Covered
  <2>3. CASE limiters[Observed] # 0
    <3>1. PICK i \in 1 .. Len(buckets) : i = limiters[Observed]
      BY <1>2, <2>3 DEF RateInv, RateShape
    <3>2. Rate!Tokens(buckets[i]) <= b
      BY <1>2, <1>3, <2>3, <3>1, BucketTypes DEF RateInv, SetAs
    <3>3. Rate!Tokens(buckets[limiters[Observed]])' = Rate!Tokens(buckets[i])
      BY <1>1, <3>1 DEF Rate!Tokens, Rate!Smaller
    <3>4. Unused \in 0 .. FillTime /\ FillTime \in Nat
      BY UnusedTypes, RateConstants DEF RateInv
    <3>5. b * Unused <= b * FillTime
      BY <3>4, Multiples
    <3>6. FillTime * b >= Unused * b
      <4>1. PICK u \in Nat, t \in Nat : u = Unused /\ t = FillTime
        BY <3>4
      <4>2. b * u = u * b /\ b * t = t * b /\ u * b \in Nat /\ t * b \in Nat
        OBVIOUS
      <4> QED BY <3>5, <4>1, <4>2
    <3>7. Rate!Tokens(buckets[i]) \in Nat
      BY BucketTypes DEF RateInv
    <3> QED BY <1>1, <1>3, <2>1, <2>3, <3>2, <3>3, <3>6, <3>7 DEF Covered
  <2> QED BY <2>2, <2>3
<1> QED BY <1>1, <1>4, <1>5 DEF RateInv

\* What holds in every state of the limiters.
LEMMA RateInvariance == ASSUME InstancesAssumption PROVE Rate!Spec => []RateInv
<1>1. ASSUME RateInv, [Rate!Next]_Rate!vars PROVE RateInv'
  <2>1. ASSUME NEW g \in Handlers, Rate!Arrive(g) PROVE RateInv'
    BY <1>1, <2>1, ArriveKeeps
  <2>2. ASSUME NEW g \in Handlers, Rate!getLimiter(g) PROVE RateInv'
    BY <1>1, <2>2, LookedUp, MadeNew
  <2>3. ASSUME NEW g \in Handlers, Rate!Allow(g) PROVE RateInv'
    BY <1>1, <2>3, AllowKeeps
  <2>4. ASSUME NEW x \in Rate!Pairs, Rate!SetTenantConfig(x) PROVE RateInv'
    BY <1>1, <2>4, SettingKeeps
  <2>5. ASSUME NEW l \in Limiters, Rate!cleanup(l) PROVE RateInv'
    BY <1>1, <2>5, CleanupKeeps
  <2>6. CASE Rate!Tick
    BY <1>1, <2>6, TimePasses
  <2>7. CASE Rate!Observe
    BY <1>1, <2>7, ObservingKeeps
  <2>8. CASE UNCHANGED Rate!vars
    <3>1. UNCHANGED <<now, buckets, limiters, lastUsed, tenantConfigs, call, watching, credit>>
      BY <2>8 DEF Rate!vars
    <3>2. RateShape' /\ CallShape' /\ Held' /\ OnePair' /\ SetAs'
      BY <1>1, <3>1 DEF RateInv, RateShape, CallShape, Held, OnePair, SetAs, Rate!Config, Rate!Ahead
    <3>3. Covered'
      BY <1>1, <3>1, CoveredStays DEF RateInv
    <3> QED BY <1>1, <3>1, <3>2, <3>3 DEF RateInv
  <2> QED BY <1>1, <2>1, <2>2, <2>3, <2>4, <2>5, <2>6, <2>7, <2>8 DEF Rate!Next
<1> QED BY <1>1, RateInit, PTL DEF Rate!Spec

\* Over any period a limiter admits no more calls of a client than its burst and
\* its rate allow, although goroutines look up and use a bucket at the same time,
\* idle buckets are dropped and settings change.
THEOREM NoneTooMany == Rate!Spec => []RateKept
<1>1. InstancesAssumption /\ RateInv => RateKept
  <2> SUFFICES ASSUME InstancesAssumption, RateInv, watching PROVE credit >= 0
    BY DEF RateInv, RateKept, Rate!RateKept
  <2>1. Observed \in Rate!Pairs /\ credit \in Int
    BY RateConstants DEF RateInv, RateShape
  <2>2. Rate!Config(Observed).burst \in Nat
    BY <2>1, ConfigTypes DEF RateInv
  <2>3. CASE limiters[Observed] = 0
    BY <2>1, <2>2, <2>3 DEF RateInv, Covered
  <2>4. CASE limiters[Observed] # 0
    <3>1. limiters[Observed] \in 1 .. Len(buckets)
      BY <2>1, <2>4 DEF RateInv, RateShape
    <3>2. Rate!Tokens(buckets[limiters[Observed]]) \in Nat
      BY <3>1, BucketTypes DEF RateInv
    <3> QED BY <2>1, <2>4, <3>2 DEF RateInv, Covered
  <2> QED BY <2>3, <2>4
<1> QED BY <1>1, RateInvariance, InstancesAssumption, PTL

\* The limiters' variables stay in their types, and a bucket that a call holds is
\* one that was made.
THEOREM RateTypes == Rate!Spec => []Rate!TypeOK
<1>1. RateInv => Rate!TypeOK
  <2> SUFFICES ASSUME RateInv PROVE Rate!TypeOK
    OBVIOUS
  <2>1. now \in 0 .. MaxTime
    BY DEF RateInv, RateShape
  <2>2. DOMAIN buckets = 1 .. Len(buckets) /\ Len(buckets) \in Nat
    BY DEF RateInv, RateShape
  <2>3. \A i \in DOMAIN buckets : buckets[i].tokens \in Nat /\ buckets[i].last \in 0 .. now
    <3> SUFFICES ASSUME NEW i \in 1 .. Len(buckets) PROVE buckets[i].tokens \in Nat /\ buckets[i].last \in 0 .. now
      BY <2>2
    <3>1. buckets[i].tokens \in Nat /\ buckets[i].last \in Nat /\ buckets[i].last <= now
      BY BucketTypes DEF RateInv
    <3> QED BY <2>1, <3>1
  <2>4. \A x \in Rate!Pairs : limiters[x] \in 0 .. Len(buckets) /\ lastUsed[x] \in 0 .. now
    BY <2>1, <2>2 DEF RateInv, RateShape
  <2>5. \A g \in Handlers : call[g].bucket # 0 =>
          call[g].bucket \in DOMAIN buckets /\ call[g].chain # <<>> /\ call[g].client \in Rate!Clients
    BY <2>2, HeldPair DEF RateInv, Active
  <2> QED BY <2>1, <2>3, <2>4, <2>5 DEF Rate!TypeOK
<1> QED BY <1>1, RateInvariance, InstancesAssumption, PTL

-----------------------------------------------------------------------------
(* The secrets manager: what SecretsProofs proves of it with its own names.   *)

Manager == INSTANCE SecretsProofs WITH failures <- mishaps, MaxFailures <- MaxMishaps

\* The instance of SecretsManager in Server and the one in SecretsProofs are the same.
LEMMA ManagerSame ==
  /\ Secrets!Spec <=> Manager!Spec
  /\ FileKept <=> Manager!FileKept
  /\ Coherent <=> Manager!Coherent
  /\ Secrets!TypeOK <=> Manager!TypeOK
  /\ Secrets!SecretsAssumption <=> Manager!SecretsAssumption
<1> USE DEF Secrets!NoFile, Manager!NoFile, Secrets!Idle, Manager!Idle, Secrets!NoEntry, Manager!NoEntry,
            Secrets!key, Manager!key, Secrets!stores, Manager!stores, Secrets!Providers, Manager!Providers
<1> USE DEF Secrets!Lookup, Manager!Lookup, Secrets!ValueIn, Manager!ValueIn, Secrets!FileData, Manager!FileData
<1>1. FileKept <=> Manager!FileKept
  BY DEF FileKept, Secrets!FileKept, Manager!FileKept
<1>2. Coherent <=> Manager!Coherent
  BY DEF Coherent, Secrets!Coherent, Manager!Coherent
<1>3. Secrets!TypeOK <=> Manager!TypeOK
  BY DEF Secrets!TypeOK, Manager!TypeOK
<1>4. Secrets!SecretsAssumption <=> Manager!SecretsAssumption
  BY DEF Secrets!SecretsAssumption, Manager!SecretsAssumption
<1>5. Secrets!Init <=> Manager!Init
  BY DEF Secrets!Init, Manager!Init
<1> USE DEF Secrets!Mark, Manager!Mark, Secrets!MarkFailed, Manager!MarkFailed, Secrets!Stored, Manager!Stored,
            Secrets!CanFail, Manager!CanFail, Secrets!Fail, Manager!Fail, Secrets!Enter, Manager!Enter,
            Secrets!Proceed, Manager!Proceed, Secrets!SetUpWith, Manager!SetUpWith
<1>6. ASSUME NEW u \in Users
      PROVE  /\ Secrets!Start(u) <=> Manager!Start(u)
             /\ Secrets!CheckCache(u) <=> Manager!CheckCache(u)
             /\ Secrets!ReadProvider(u) <=> Manager!ReadProvider(u)
             /\ Secrets!CacheSecret(u) <=> Manager!CacheSecret(u)
  BY DEF Secrets!Start, Manager!Start, Secrets!CheckCache, Manager!CheckCache, Secrets!Usable, Manager!Usable,
         Secrets!ReadProvider, Manager!ReadProvider, Secrets!NotFound, Manager!NotFound,
         Secrets!CacheSecret, Manager!CacheSecret, Secrets!CacheEntry, Manager!CacheEntry
<1>7. ASSUME NEW u \in Users
      PROVE  /\ Secrets!CreateSecret(u) <=> Manager!CreateSecret(u)
             /\ Secrets!UpdateSecret(u) <=> Manager!UpdateSecret(u)
             /\ Secrets!SetEnv(u) <=> Manager!SetEnv(u)
             /\ Secrets!DeleteAWS(u) <=> Manager!DeleteAWS(u)
  BY DEF Secrets!CreateSecret, Manager!CreateSecret, Secrets!UpdateSecret, Manager!UpdateSecret,
         Secrets!SetEnv, Manager!SetEnv, Secrets!DeleteAWS, Manager!DeleteAWS
<1>8. ASSUME NEW u \in Users
      PROVE  /\ Secrets!LoadFile(u) <=> Manager!LoadFile(u)
             /\ Secrets!TruncateFile(u) <=> Manager!TruncateFile(u)
             /\ Secrets!WriteFile(u) <=> Manager!WriteFile(u)
  BY DEF Secrets!LoadFile, Manager!LoadFile, Secrets!Lockable, Manager!Lockable, Secrets!Overlaps, Manager!Overlaps,
         Secrets!TruncateFile, Manager!TruncateFile, Secrets!WriteFile, Manager!WriteFile
<1>9. ASSUME NEW u \in Users
      PROVE  /\ Secrets!AskRotation(u) <=> Manager!AskRotation(u)
             /\ Secrets!Invalidate(u) <=> Manager!Invalidate(u)
             /\ Secrets!RefreshCache(u) <=> Manager!RefreshCache(u)
  BY DEF Secrets!AskRotation, Manager!AskRotation, Secrets!Invalidate, Manager!Invalidate,
         Secrets!RefreshCache, Manager!RefreshCache
<1>10. ASSUME NEW p \in Procs
       PROVE  /\ Secrets!Restart(p) <=> Manager!Restart(p)
              /\ \A k \in Keys : Secrets!Expire(p, k) <=> Manager!Expire(p, k)
  BY DEF Secrets!Restart, Manager!Restart, Secrets!Expire, Manager!Expire
<1>11. Secrets!Rotated <=> Manager!Rotated
  BY DEF Secrets!Rotated, Manager!Rotated
<1>12. [Secrets!Next]_Secrets!vars <=> [Manager!Next]_Manager!vars
  <2>1. Secrets!Next <=> Manager!Next
    BY <1>6, <1>7, <1>8, <1>9, <1>10, <1>11 DEF Secrets!Next, Manager!Next
  <2>2. Secrets!vars = Manager!vars /\ Secrets!vars' = Manager!vars'
    BY DEF Secrets!vars, Manager!vars
  <2> QED BY <2>1, <2>2
<1>13. Secrets!Spec <=> Manager!Spec
  BY <1>5, <1>12, PTL DEF Secrets!Spec, Manager!Spec
<1> QED BY <1>1, <1>2, <1>3, <1>4, <1>13

\* Between its own finished commands the server's secrets manager answers from its
\* cache what its providers would.
THEOREM SecretsTrue == Secrets!Spec => []Coherent
BY Manager!SecretsCoherent, ManagerSame, InstancesAssumption, PTL

\* The secrets file keeps what the goroutines of a process store in it, each loading
\* and saving all of it under the file provider's mutex.
THEOREM NoSecretLost == Secrets!Spec => []FileKept
BY Manager!SecretsFile, ManagerSame, InstancesAssumption, PTL

\* The secrets manager's variables stay in their types.
THEOREM SecretTypes == Secrets!Spec => []Secrets!TypeOK
BY Manager!SecretsTypeCorrect, ManagerSame, InstancesAssumption, PTL

-----------------------------------------------------------------------------
(* The whole.                                                              *)

\* A step of the whole is one of its focus and leaves the other parts alone, so
\* each part goes through a behaviour of its own specification.
THEOREM ServerOfParts ==
  ServerSpec => /\ Spec /\ Rate!Spec /\ Ingest!Spec /\ Health!Spec
                /\ Errors!Spec /\ Monitor!Spec /\ Migrate!Spec /\ Secrets!Spec
<1>1. ServerInit => /\ Init /\ Rate!Init /\ Ingest!Init /\ Health!Init
                    /\ Errors!Init /\ Monitor!Init /\ Migrate!Init /\ Secrets!Init
  BY DEF ServerInit
<1>2. ASSUME [ServerNext]_<<focus, partVars>>
      PROVE  /\ [Next]_vars /\ [Rate!Next]_Rate!vars /\ [Ingest!Next]_Ingest!vars
             /\ [Health!Next]_Health!vars /\ [Errors!Next]_Errors!vars /\ [Monitor!Next]_Monitor!vars
             /\ [Migrate!Next]_Migrate!vars /\ [Secrets!Next]_Secrets!vars
  <2>1. /\ UNCHANGED rateVars => UNCHANGED Rate!vars
        /\ UNCHANGED ingestVars => UNCHANGED Ingest!vars
        /\ UNCHANGED healthVars => UNCHANGED Health!vars
        /\ UNCHANGED errorVars => UNCHANGED Errors!vars
        /\ UNCHANGED monitorVars => UNCHANGED Monitor!vars
        /\ UNCHANGED migrateVars => UNCHANGED Migrate!vars
        /\ UNCHANGED secretsVars => UNCHANGED Secrets!vars
    BY DEF rateVars, Rate!vars, ingestVars, Ingest!vars, Ingest!setup, Ingest!handlers, healthVars, Health!vars, errorVars, Errors!vars,
           monitorVars, Monitor!vars, migrateVars, Migrate!vars, secretsVars, Secrets!vars
  <2>2. UNCHANGED <<focus, partVars>> =>
          /\ UNCHANGED vars /\ UNCHANGED rateVars /\ UNCHANGED ingestVars /\ UNCHANGED healthVars
          /\ UNCHANGED errorVars /\ UNCHANGED monitorVars /\ UNCHANGED migrateVars /\ UNCHANGED secretsVars
    BY DEF partVars
  <2> QED BY <1>2, <2>1, <2>2 DEF ServerNext
<1> QED BY <1>1, <1>2, PTL DEF ServerSpec, Spec, Rate!Spec, Ingest!Spec, Health!Spec, Errors!Spec,
           Monitor!Spec, Migrate!Spec, Secrets!Spec

\* The variables of every part stay in their types.
THEOREM ServerTypes == ServerSpec => []TypesOK
<1>1. TypesOK <=> /\ TypeOK /\ Rate!TypeOK /\ Ingest!TypeOK /\ Health!TypeOK
                  /\ Errors!TypeOK /\ Monitor!TypeOK /\ Migrate!TypeOK /\ Secrets!TypeOK
  BY DEF TypesOK
<1> QED BY <1>1, ServerOfParts, TypeCorrect, RateTypes, IngestTypes, HealthTypes, ErrorTypes,
           MonitorTypes, MigrationTypes, SecretTypes, PTL

\* What the whole keeps: no limiter is exceeded, no client is deceived about what
\* it sent, about the health of the server or by another one's error, no ended
\* query is listed, no migration recorded that was not run, no secret lost or read
\* stale from the cache, and the breaker counts every request and admits no trial
\* too many.
THEOREM ServerKept ==
  ServerSpec => [](/\ RateKept /\ SuccessIsTrue /\ OncePerAttempt /\ HealthTold /\ OwnError
                   /\ NothingEndedIsListed /\ RecordedWasRun /\ Coherent /\ FileKept
                   /\ RequestsAccounted /\ HalfOpenAdmission)
BY ServerOfParts, NoneTooMany, SuccessTold, AttemptsBound, HealthTruth, NobodyElses, ListingTrue,
   WholeMigrations, SecretsTrue, NoSecretLost, Accounting, HalfOpenBound, PTL
==============================================================================
