----------------------------- MODULE SecretsProofs -----------------------------
(* Proofs about SecretsManager, for any processes, goroutines, secrets, providers *)
(* and commands: the cache is coherent with the providers, and the secrets file   *)
(* keeps what was stored in it.  ServerProofs carries them over to the server.    *)
EXTENDS SecretsManager, SequenceTheorems, FiniteSetTheorems, WellFoundedInduction, TLAPS
-----------------------------------------------------------------------------
(* Types, and the file provider's mutex.                                     *)

Values     == 0 .. MaxWrites
Names      == {""} \cup {c.prov : c \in UNION {Commands[u] : u \in Users}}
Operations == {"none", "get", "set", "init", "delete", "rotate", "refresh"}
JobStages  == {"idle", "look", "read", "cache", "set", "update", "truncate", "write",
               "delete", "rotate", "refresh", "invalidate"}
Jobs    == [op : Operations, keys : Seq(Keys), prov : Names, at : JobStages, left : Seq(Providers),
            val : Values, data : [Keys -> Values], raced : BOOLEAN]
Entries == [val : Values, fresh : BOOLEAN, excused : BOOLEAN]

\* What a command under way has at the stages that need it.
JobShape(j) ==
  /\ j.at # "idle" => j.keys # <<>> /\ j.op # "none"
  /\ j.at = "read" => j.left # <<>>
  /\ j.at = "cache" => j.val # 0
  /\ j.at \in {"set", "update"} => j.op \in {"set", "init"}
  /\ j.at \in {"truncate", "write"} /\ j.val # 0 => j.op \in {"set", "init"}

\* The stores, the commands and the cached entries.
StoreTypes ==
  /\ conf \in Configurations
  /\ aws \in [Keys -> Values] /\ rotating \subseteq Keys
  /\ file \in [data : [Keys -> Values], state : {"whole", "truncated", "torn"}]
  /\ env \in [Procs -> [Keys -> Values]]
  /\ writes \in Values /\ failures \in 0 .. MaxFailures
JobTypes   == job \in [Users -> Jobs] /\ \A u \in Users : JobShape(job[u])
CacheTypes ==
  /\ cache \in [Procs -> [Keys -> Entries]]
  /\ \A p \in Procs, k \in Keys : cache[p][k].fresh => cache[p][k].val # 0

\* The mutex of a process is held by the goroutine that saves its file.
Saving(u) == job[u].at \in {"truncate", "write"}
Locks ==
  /\ lock \in [Procs -> Users \cup {None}]
  /\ \A p \in Procs : lock[p] # None => ProcOf[lock[p]] = p /\ Saving(lock[p])
  /\ \A u \in Users : Saving(u) => lock[ProcOf[u]] = u

SecretsTypes == StoreTypes /\ JobTypes /\ CacheTypes /\ Locks

\* What a command works on is one of the secrets.
LEMMA KeyTypes ==
  ASSUME SecretsAssumption, JobTypes, NEW u \in Users, job[u].at # "idle"
  PROVE  key(u) \in Keys /\ ProcOf[u] \in Procs /\ Tail(job[u].keys) \in Seq(Keys)
<1>1. job[u].keys \in Seq(Keys) /\ job[u].keys # <<>>
  BY DEF JobTypes, JobShape, Jobs
<1> QED BY <1>1 DEF key, SecretsAssumption

\* The values and the idle command have their types.
LEMMA IdleTypes ==
  ASSUME SecretsAssumption
  PROVE  /\ NoFile \in [Keys -> Values] /\ Idle \in Jobs /\ JobShape(Idle) /\ Idle.at = "idle"
         /\ NoEntry \in Entries /\ ~NoEntry.fresh /\ Idle.data = NoFile /\ 0 \in Values
         /\ Idle.raced = FALSE
<1>1. 0 \in Values /\ NoFile \in [Keys -> Values]
  BY DEF SecretsAssumption, Values, NoFile
<1>2. <<>> \in Seq(Keys) /\ <<>> \in Seq(Providers)
  OBVIOUS
<1>3. "none" \in Operations /\ "idle" \in JobStages
  BY DEF Operations, JobStages
<1>7. "" \in Names
  BY DEF Names
<1>8. FALSE \in BOOLEAN
  OBVIOUS
<1>6. Idle \in Jobs
  BY <1>1, <1>2, <1>3, <1>7, <1>8 DEF Idle, Jobs
<1>4. JobShape(Idle) /\ Idle.at = "idle" /\ Idle.data = NoFile /\ Idle.raced = FALSE
  BY DEF Idle, JobShape
<1>5. NoEntry \in Entries /\ ~NoEntry.fresh
  BY <1>1 DEF NoEntry, Entries
<1> QED BY <1>1, <1>4, <1>5, <1>6

\* The bookkeeping of a step: of a command only the flag changes, which is up for
\* all but the writer's if its lookup would go another way now.
Moved(p, k) == Lookup(p, k)' # Lookup(p, k)
JobsMarked(jobs, writer) ==
  /\ job' \in [Users -> Jobs]
  /\ \A u \in Users :
       /\ job'[u].op = jobs[u].op /\ job'[u].keys = jobs[u].keys /\ job'[u].prov = jobs[u].prov
       /\ job'[u].at = jobs[u].at /\ job'[u].left = jobs[u].left /\ job'[u].val = jobs[u].val
       /\ job'[u].data = jobs[u].data
       /\ u # writer /\ jobs[u].at # "idle" /\ ~job'[u].raced =>
            ~jobs[u].raced /\ \A k \in Keys : k = key(u) => ~Moved(ProcOf[u], k)
       /\ u = writer /\ ~job'[u].raced => \A k \in Keys : k = key(u) => Lookup(ProcOf[u], k)' = jobs[u].val
       /\ u # writer /\ jobs[u].at = "idle" => job'[u] = jobs[u]

\* Mark does that to the commands.
LEMMA MarkJobs ==
  ASSUME SecretsAssumption, JobTypes, NEW jobs \in [Users -> Jobs], NEW entries, NEW writer \in Users \cup {None},
         \A u \in Users : jobs[u].at # "idle" => job[u].at # "idle",
         writer # None => jobs[writer].at # "idle", Mark(jobs, entries, writer)
  PROVE  JobsMarked(jobs, writer)
<1>1. \A u \in Users : jobs[u].at # "idle" => key(u) \in Keys /\ ProcOf[u] \in Procs
  BY KeyTypes
<1> DEFINE before == [p \in Procs |-> [k \in Keys |-> Lookup(p, k)]]
           after == [p \in Procs |-> [k \in Keys |-> Lookup(p, k)']]
<1>2. job' = [u \in Users |->
           IF u = writer
           THEN [jobs[u] EXCEPT !.raced = after[ProcOf[u]][key(u)] # jobs[u].val]
           ELSE IF jobs[u].at # "idle" /\ after[ProcOf[u]][key(u)] # before[ProcOf[u]][key(u)]
           THEN [jobs[u] EXCEPT !.raced = TRUE] ELSE jobs[u]]
  BY DEF Mark
<1>3. \A u \in Users : jobs[u].at # "idle" =>
        /\ \A k \in Keys : k = key(u) => after[ProcOf[u]][key(u)] = Lookup(ProcOf[u], k)'
        /\ before[ProcOf[u]][key(u)] = Lookup(ProcOf[u], key(u))
  BY <1>1
<1> HIDE DEF before, after
<1>4. ASSUME NEW u \in Users
      PROVE  /\ job'[u] \in Jobs
             /\ job'[u].op = jobs[u].op /\ job'[u].keys = jobs[u].keys /\ job'[u].prov = jobs[u].prov
             /\ job'[u].at = jobs[u].at /\ job'[u].left = jobs[u].left /\ job'[u].val = jobs[u].val
             /\ job'[u].data = jobs[u].data
             /\ u # writer /\ jobs[u].at # "idle" /\ ~job'[u].raced =>
                  ~jobs[u].raced /\ \A k \in Keys : k = key(u) => ~Moved(ProcOf[u], k)
             /\ u = writer /\ ~job'[u].raced => \A k \in Keys : k = key(u) => Lookup(ProcOf[u], k)' = jobs[u].val
             /\ u # writer /\ jobs[u].at = "idle" => job'[u] = jobs[u]
  <2>1. jobs[u] \in Jobs
    OBVIOUS
  <2>2. \A r \in BOOLEAN : /\ [jobs[u] EXCEPT !.raced = r] \in Jobs
                           /\ [jobs[u] EXCEPT !.raced = r].raced = r
                           /\ [jobs[u] EXCEPT !.raced = r].op = jobs[u].op
                           /\ [jobs[u] EXCEPT !.raced = r].keys = jobs[u].keys
                           /\ [jobs[u] EXCEPT !.raced = r].prov = jobs[u].prov
                           /\ [jobs[u] EXCEPT !.raced = r].at = jobs[u].at
                           /\ [jobs[u] EXCEPT !.raced = r].left = jobs[u].left
                           /\ [jobs[u] EXCEPT !.raced = r].val = jobs[u].val
                           /\ [jobs[u] EXCEPT !.raced = r].data = jobs[u].data
    BY <2>1 DEF Jobs
  <2>3. CASE u = writer
    <3>1. u \in Users /\ writer # None
      BY <2>3 DEF SecretsAssumption
    <3>2. job'[u] = [jobs[u] EXCEPT !.raced = (after[ProcOf[u]][key(u)] # jobs[u].val)]
      BY <1>2, <2>3
    <3>3. (after[ProcOf[u]][key(u)] # jobs[u].val) \in BOOLEAN
      OBVIOUS
    <3> QED BY <2>2, <2>3, <3>1, <3>2, <3>3, <1>3
  <2>4. CASE u # writer /\ jobs[u].at # "idle" /\ after[ProcOf[u]][key(u)] # before[ProcOf[u]][key(u)]
    <3>1. job'[u] = [jobs[u] EXCEPT !.raced = TRUE]
      BY <1>2, <2>4
    <3> QED BY <2>2, <2>4, <3>1
  <2>5. CASE u # writer /\ ~(jobs[u].at # "idle" /\ after[ProcOf[u]][key(u)] # before[ProcOf[u]][key(u)])
    <3>1. job'[u] = jobs[u]
      BY <1>2, <2>5
    <3> QED BY <2>1, <2>5, <3>1, <1>3 DEF Moved
  <2> QED BY <2>3, <2>4, <2>5
<1>5. DOMAIN job' = Users /\ job' = [u \in Users |-> job'[u]]
  BY <1>2
<1> QED BY <1>4, <1>5 DEF JobsMarked

\* Of an entry, too, only a flag changes, which is up for all but what the writer
\* wrote if its lookup would go another way now.
EntriesMarked(entries, writer) ==
  /\ cache' \in [Procs -> [Keys -> Entries]]
  /\ \A p \in Procs, k \in Keys :
       /\ cache'[p][k].val = entries[p][k].val /\ cache'[p][k].fresh = entries[p][k].fresh
       /\ cache'[p][k].fresh /\ ~cache'[p][k].excused =>
            /\ ~entries[p][k].excused
            /\ ~Moved(p, k) \/ (writer # None /\ ProcOf[writer] = p /\ k = key(writer))

\* Mark does that to the entries of the caches.
LEMMA MarkEntries ==
  ASSUME SecretsAssumption, NEW jobs, NEW entries \in [Procs -> [Keys -> Entries]], NEW writer,
         Mark(jobs, entries, writer)
  PROVE  EntriesMarked(entries, writer)
<1> DEFINE before == [p \in Procs |-> [k \in Keys |-> Lookup(p, k)]]
           after == [p \in Procs |-> [k \in Keys |-> Lookup(p, k)']]
<1>1. cache' = [p \in Procs |-> [k \in Keys |->
           IF entries[p][k].fresh /\ after[p][k] # before[p][k]
                /\ (writer = None \/ ProcOf[writer] # p \/ k # key(writer))
           THEN [entries[p][k] EXCEPT !.excused = TRUE] ELSE entries[p][k]]]
  BY DEF Mark
<1>2. \A p \in Procs, k \in Keys : /\ after[p][k] = Lookup(p, k)'
                                   /\ before[p][k] = Lookup(p, k)
  OBVIOUS
<1> HIDE DEF before, after
<1>3. ASSUME NEW p \in Procs, NEW k \in Keys
      PROVE  /\ cache'[p][k] \in Entries
             /\ cache'[p][k].val = entries[p][k].val /\ cache'[p][k].fresh = entries[p][k].fresh
             /\ cache'[p][k].fresh /\ ~cache'[p][k].excused =>
                  /\ ~entries[p][k].excused
                  /\ ~Moved(p, k) \/ (writer # None /\ ProcOf[writer] = p /\ k = key(writer))
  <2>1. entries[p][k] \in Entries
    OBVIOUS
  <2>2. /\ [entries[p][k] EXCEPT !.excused = TRUE] \in Entries
        /\ [entries[p][k] EXCEPT !.excused = TRUE].excused
        /\ [entries[p][k] EXCEPT !.excused = TRUE].val = entries[p][k].val
        /\ [entries[p][k] EXCEPT !.excused = TRUE].fresh = entries[p][k].fresh
    BY <2>1 DEF Entries
  <2>3. cache'[p][k] = IF entries[p][k].fresh /\ after[p][k] # before[p][k]
                          /\ (writer = None \/ ProcOf[writer] # p \/ k # key(writer))
                       THEN [entries[p][k] EXCEPT !.excused = TRUE] ELSE entries[p][k]
    BY <1>1
  <2> QED BY <2>1, <2>2, <2>3, <1>2 DEF Moved
<1>4. cache' = [p \in Procs |-> [k \in Keys |-> cache'[p][k]]]
  BY <1>1
<1> QED BY <1>3, <1>4 DEF EntriesMarked

-----------------------------------------------------------------------------
(* What a lookup finds.                                                      *)

\* No provider before the i-th has a value.
NoneBefore(p, k, i) == \A j \in DOMAIN conf[p] : j < i => ValueIn(p, conf[p][j], k) = 0

\* The i-th provider is the first with a value.
FirstWith(p, k, i) ==
  i \in DOMAIN conf[p] /\ ValueIn(p, conf[p][i], k) # 0 /\ NoneBefore(p, k, i)

\* The positions of the providers.
LEMMA Positions ==
  ASSUME SecretsAssumption, StoreTypes, NEW p \in Procs
  PROVE  /\ conf[p] \in Seq(Providers) /\ conf[p] # <<>> /\ Len(conf[p]) \in Nat \ {0}
         /\ DOMAIN conf[p] = 1 .. Len(conf[p])
         /\ \A i \in DOMAIN conf[p] : i \in Nat /\ conf[p][i] \in Providers
<1>1. conf[p] \in Seq(Providers) /\ conf[p] # <<>>
  BY DEF SecretsAssumption, StoreTypes
<1> HIDE DEF SecretsAssumption, StoreTypes
<1> QED BY <1>1, LenProperties, ElementOfSeq, EmptySeq

\* A set of naturals that is not empty has a least one.
LEMMA Least ==
  ASSUME NEW S \in SUBSET Nat, S # {}
  PROVE  \E i \in S : \A j \in S : i <= j
<1>1. PICK i \in S : ~ \E j \in S : <<j, i>> \in OpToRel(<, Nat)
  BY NatLessThanWellFounded, WFMin
<1>2. \A j \in S : ~(j < i)
  BY <1>1 DEF OpToRel
<1> QED BY <1>2

\* A lookup finds the value of the first provider that has one.
FindsFirst(p, k) ==
  /\ \A i : FirstWith(p, k, i) => Lookup(p, k) = ValueIn(p, conf[p][i], k)
  /\ Lookup(p, k) # 0 => \E i : FirstWith(p, k, i)
  /\ \A i \in DOMAIN conf[p] : ValueIn(p, conf[p][i], k) # 0 => \E j : FirstWith(p, k, j) /\ j <= i

\* Lookup does: its least provider with a value is the first with one.
LEMMA LookupFinds ==
  ASSUME SecretsAssumption, StoreTypes, NEW p \in Procs, NEW k \in Keys
  PROVE  FindsFirst(p, k)
<1> DEFINE having == {i \in DOMAIN conf[p] : ValueIn(p, conf[p][i], k) # 0}
<1>1. having \subseteq Nat
  BY Positions
<1>2. Lookup(p, k) = IF having = {} THEN 0
        ELSE ValueIn(p, conf[p][CHOOSE i \in having : \A j \in having : i <= j], k)
  BY DEF Lookup
<1>3. \A i : i \in having <=> i \in DOMAIN conf[p] /\ ValueIn(p, conf[p][i], k) # 0
  OBVIOUS
<1> HIDE DEF having
<1>4. \A i : FirstWith(p, k, i) <=> i \in having /\ \A j \in having : i <= j
  <2> SUFFICES ASSUME NEW i PROVE FirstWith(p, k, i) <=> i \in having /\ \A j \in having : i <= j
    OBVIOUS
  <2>1. ASSUME i \in having PROVE NoneBefore(p, k, i) <=> \A j \in having : i <= j
    <3>1. i \in Nat /\ \A j \in DOMAIN conf[p] : j \in Nat
      BY <2>1, <1>1, Positions
    <3> QED BY <3>1, <1>3 DEF NoneBefore
  <2> QED BY <2>1, <1>3 DEF FirstWith
<1>5. ASSUME NEW i, FirstWith(p, k, i) PROVE Lookup(p, k) = ValueIn(p, conf[p][i], k)
  <2>1. i \in having /\ \A j \in having : i <= j
    BY <1>4, <1>5
  <2> DEFINE c == CHOOSE m \in having : \A j \in having : m <= j
  <2>2. c \in having /\ \A j \in having : c <= j
    BY <2>1
  <2> HIDE DEF c
  <2>3. c = i
    BY <1>1, <2>1, <2>2
  <2> QED BY <1>2, <2>1, <2>3 DEF c
<1>6. having # {} => \E i : FirstWith(p, k, i)
  BY <1>1, <1>4, Least
<1>7. ASSUME NEW i \in DOMAIN conf[p], ValueIn(p, conf[p][i], k) # 0
      PROVE  \E j : FirstWith(p, k, j) /\ j <= i
  <2>1. i \in having
    BY <1>3, <1>7
  <2> QED BY <2>1, <1>6, <1>4
<1> QED BY <1>2, <1>5, <1>6, <1>7 DEF FindsFirst

\* The same of the state after a step.
LEMMA LookupFindsNext ==
  (SecretsAssumption /\ StoreTypes => \A p \in Procs, k \in Keys : FindsFirst(p, k))'
<1>1. SecretsAssumption /\ StoreTypes => \A p \in Procs, k \in Keys : FindsFirst(p, k)
  BY LookupFinds
<1> QED BY <1>1, PTL

\* If nothing changes in the stores, no lookup goes another way.
LEMMA NothingMoves ==
  ASSUME SecretsAssumption, StoreTypes, NEW p \in Procs, NEW k \in Keys,
         UNCHANGED <<conf, aws, file>>, env'[p] = env[p], lock'[p] = lock[p]
  PROVE  ~Moved(p, k) /\ \A i : NoneBefore(p, k, i) => NoneBefore(p, k, i)'
<1>1. FileData(p)' = FileData(p)
  BY DEF FileData
<1>2. \A prov : ValueIn(p, prov, k)' = ValueIn(p, prov, k)
  BY <1>1 DEF ValueIn
<1>3. Lookup(p, k)' = Lookup(p, k)
  <2> DEFINE having == {i \in DOMAIN conf[p] : ValueIn(p, conf[p][i], k) # 0}
             first  == CHOOSE i \in having : \A j \in having : i <= j
  <2>1. having' = having
    BY <1>2
  <2>2. Lookup(p, k) = IF having = {} THEN 0 ELSE ValueIn(p, conf[p][first], k)
    BY DEF Lookup
  <2>3. Lookup(p, k)' = IF having' = {} THEN 0 ELSE ValueIn(p, conf[p][first], k)'
    BY DEF Lookup
  <2> HIDE DEF having
  <2>4. first' = first
    BY <2>1
  <2> HIDE DEF first
  <2> QED BY <1>2, <2>1, <2>2, <2>3, <2>4
<1> QED BY <1>2, <1>3 DEF Moved, NoneBefore

-----------------------------------------------------------------------------
(* No value is in two stores: each that is stored is new.                    *)

\* What is, or is about to be, in a store.
Held(prov, k) ==
  {0} \cup (CASE prov = "aws"  -> {aws[k]}
              [] prov = "file" -> {file.data[k]} \cup {job[u].data[k] : u \in Users}
              [] prov = "env"  -> {env[p][k] : p \in Procs}
              [] OTHER -> {})

StoresApart ==
  \A k \in Keys :
    /\ \A prov : \A n \in Held(prov, k) : n <= writes
    /\ \A a, b : a # b => Held(a, k) \cap Held(b, k) \subseteq {0}

\* A step puts at most the value it has numbered into one of the stores.
StoresNew ==
  /\ writes' \in {writes, writes + 1}
  /\ \A k \in Keys : \E store : \A prov : \A n \in Held(prov, k)' :
       n \in Held(prov, k) \/ (prov = store /\ n = writes' /\ writes' = writes + 1)

\* Values are numbers; so is the count of what was stored.
LEMMA HeldTypes ==
  ASSUME SecretsAssumption, StoreTypes, JobTypes, NEW prov, NEW k \in Keys
  PROVE  Held(prov, k) \subseteq Nat /\ writes \in Nat
<1>1. Values \subseteq Nat /\ writes \in Values
  BY DEF Values, StoreTypes, SecretsAssumption
<1>2. aws[k] \in Values /\ file.data[k] \in Values /\ \A p \in Procs : env[p][k] \in Values
  BY DEF StoreTypes
<1>3. \A u \in Users : job[u].data[k] \in Values
  BY DEF JobTypes, Jobs
<1> QED BY <1>1, <1>2, <1>3 DEF Held

\* As every stored value is new, the stores stay apart.
LEMMA StayApart ==
  ASSUME SecretsAssumption, StoreTypes, JobTypes, StoreTypes', JobTypes', StoresApart, StoresNew
  PROVE  StoresApart'
<1> SUFFICES ASSUME NEW k \in Keys
             PROVE  /\ \A prov : \A n \in Held(prov, k)' : n <= writes'
                    /\ \A a, b : a # b => Held(a, k)' \cap Held(b, k)' \subseteq {0}
  BY DEF StoresApart
<1>1. PICK store : \A prov : \A n \in Held(prov, k)' :
                     n \in Held(prov, k) \/ (prov = store /\ n = writes' /\ writes' = writes + 1)
  BY DEF StoresNew
<1>2. \A prov : \A n \in Held(prov, k) : n <= writes /\ n \in Nat
  BY HeldTypes DEF StoresApart
<1>3. writes \in Nat /\ writes' \in {writes, writes + 1}
  BY HeldTypes DEF StoresNew
<1>4. \A a, b : a # b => Held(a, k) \cap Held(b, k) \subseteq {0}
  BY DEF StoresApart
<1>5. \A prov : \A n \in Held(prov, k)' : n <= writes'
  BY <1>1, <1>2, <1>3
<1>6. ASSUME NEW a, NEW b, a # b, NEW n \in Held(a, k)' \cap Held(b, k)' PROVE n = 0
  <2>1. CASE n = writes + 1
    <3>1. n \notin Held(a, k) /\ n \notin Held(b, k)
      BY <1>2, <1>3, <2>1
    <3> QED BY <1>1, <1>6, <3>1
  <2>2. CASE n # writes + 1
    <3>1. n \in Held(a, k) /\ n \in Held(b, k)
      BY <1>1, <1>6, <2>2
    <3> QED BY <1>4, <1>6, <3>1
  <2> QED BY <2>1, <2>2
<1> QED BY <1>5, <1>6

\* What a provider answers is what it holds.
LEMMA AnswersHeld ==
  ASSUME SecretsAssumption, StoreTypes, NEW p \in Procs, NEW k \in Keys, NEW prov
  PROVE  ValueIn(p, prov, k) \in Held(prov, k)
<1>1. FileData(p)[k] \in {0, file.data[k]}
  BY DEF FileData, NoFile
<1> QED BY <1>1 DEF ValueIn, Held

\* The same of the state after a step.
LEMMA AnswersHeldNext ==
  (SecretsAssumption /\ StoreTypes =>
     \A p \in Procs, k \in Keys : \A prov : ValueIn(p, prov, k) \in Held(prov, k))'
<1>1. SecretsAssumption /\ StoreTypes =>
        \A p \in Procs, k \in Keys : \A prov : ValueIn(p, prov, k) \in Held(prov, k)
  BY AnswersHeld
<1> QED BY <1>1, PTL

\* A reader that found nothing so far has passed nothing, unless its lookup would go
\* another way now.
LEMMA StillNone ==
  ASSUME SecretsAssumption, StoreTypes, JobTypes, StoreTypes', JobTypes', StoresApart, StoresNew,
         conf' = conf, NEW p \in Procs, NEW k \in Keys, ~Moved(p, k), NEW i \in Nat, NoneBefore(p, k, i)
  PROVE  NoneBefore(p, k, i)'
<1> SUFFICES ASSUME NEW j \in DOMAIN conf[p], j < i, ValueIn(p, conf[p][j], k)' # 0 PROVE FALSE
  BY DEF NoneBefore
<1>1. FindsFirst(p, k) /\ FindsFirst(p, k)'
  BY LookupFinds, LookupFindsNext
<1>2. PICK m : FirstWith(p, k, m)' /\ m <= j
  BY <1>1 DEF FindsFirst
<1> DEFINE v == ValueIn(p, conf[p][m], k)'
<1>3. Lookup(p, k)' = v /\ v # 0
  BY <1>1, <1>2 DEF FindsFirst, FirstWith
<1>4. m \in DOMAIN conf[p] /\ m \in Nat /\ j \in Nat /\ m < i
  <2>1. m \in DOMAIN conf[p]
    BY <1>2 DEF FirstWith
  <2> QED BY <1>2, <2>1, Positions
<1>5. ValueIn(p, conf[p][m], k) = 0
  BY <1>4 DEF NoneBefore
<1> HIDE DEF v
<1>6. Lookup(p, k) = v
  BY <1>3 DEF Moved
<1>7. PICK n : FirstWith(p, k, n)
  BY <1>1, <1>3, <1>6 DEF FindsFirst
<1>8. ValueIn(p, conf[p][n], k) = v
  BY <1>1, <1>6, <1>7 DEF FindsFirst
<1>9. conf[p][m] # conf[p][n]
  BY <1>3, <1>5, <1>8
<1>10. v \in Held(conf[p][n], k)
  BY <1>8, AnswersHeld
<1>11. v \in Held(conf[p][m], k)'
  BY AnswersHeldNext DEF v
<1>12. v \in Nat /\ v <= writes /\ writes \in Nat
  BY <1>10, HeldTypes DEF StoresApart
<1>13. v \in Held(conf[p][m], k)
  <2>1. v # writes + 1
    BY <1>12
  <2>2. conf'[p][m] = conf[p][m]
    OBVIOUS
  <2>3. \A prov : \A x \in Held(prov, k)' : x \in Held(prov, k) \/ x = writes + 1
    BY DEF StoresNew
  <2>4. v \in Held(conf'[p][m], k) \/ v = writes + 1
    BY <1>11, <2>3
  <2> QED BY <2>1, <2>2, <2>4
<1>14. v = 0
  BY <1>9, <1>10, <1>13 DEF StoresApart
<1> QED BY <1>3, <1>14

-----------------------------------------------------------------------------
(* What is read, what is about to be cached, and what is cached.             *)

\* A reader that has passed n providers has still to ask the others.
ReadsOn(p, k, left, n) ==
  /\ n + Len(left) = Len(conf[p])
  /\ \A j \in 1 .. Len(left) : left[j] = conf[p][n + j]
  /\ NoneBefore(p, k, n + 1)

\* Of a command that nothing overlapped: the providers it passed still have nothing.
Reading ==
  \A u \in Users : job[u].at = "read" /\ ~job[u].raced =>
    \E n \in Nat : ReadsOn(ProcOf[u], key(u), job[u].left, n)

\* What it is about to cache is what a lookup finds.
Caching ==
  \A u \in Users : job[u].at = "cache" /\ ~job[u].raced => job[u].val = Lookup(ProcOf[u], key(u))

\* The inductive invariant.
SecretsInv == SecretsTypes /\ StoresApart /\ Reading /\ Caching /\ Coherent

\* Goroutines in the middle of changing an entry of their process.
MidChange(u) == job[u].at = "invalidate" \/ (job[u].at = "cache" /\ job[u].op # "get")

\* Commands and entries keep their types and shapes under the bookkeeping.
LEMMA MarkTypes ==
  ASSUME SecretsAssumption, JobTypes, NEW jobs \in [Users -> Jobs],
         NEW entries \in [Procs -> [Keys -> Entries]], NEW writer \in Users \cup {None},
         \A u \in Users : JobShape(jobs[u]) /\ (jobs[u].at # "idle" => job[u].at # "idle"),
         \A p \in Procs, k \in Keys : entries[p][k].fresh => entries[p][k].val # 0,
         writer # None => jobs[writer].at # "idle", Mark(jobs, entries, writer)
  PROVE  JobTypes' /\ CacheTypes'
<1>1. /\ job' \in [Users -> Jobs]
      /\ \A u \in Users :
           /\ job'[u].op = jobs[u].op /\ job'[u].keys = jobs[u].keys
           /\ job'[u].at = jobs[u].at /\ job'[u].left = jobs[u].left /\ job'[u].val = jobs[u].val
  BY MarkJobs DEF JobsMarked
<1>2. \A u \in Users : JobShape(job'[u])
  BY <1>1 DEF JobShape
<1>3. EntriesMarked(entries, writer)
  BY MarkEntries
<1>4. \A p \in Procs, k \in Keys : cache'[p][k].fresh => cache'[p][k].val # 0
  BY <1>3 DEF EntriesMarked
<1> QED BY <1>1, <1>2, <1>3, <1>4 DEF JobTypes, CacheTypes, EntriesMarked

\* A step that changes the providers, with its bookkeeping.
LEMMA MarkedStep ==
  ASSUME SecretsAssumption, SecretsInv, StoreTypes', JobTypes', StoresNew, conf' = conf,
         NEW jobs \in [Users -> Jobs], NEW entries \in [Procs -> [Keys -> Entries]],
         NEW writer \in Users \cup {None},
         \A u \in Users : jobs[u].at # "idle" => job[u].at # "idle" /\ jobs[u].keys = job[u].keys,
         \A u \in Users : u # writer => jobs[u] = job[u] \/ jobs[u].at \notin {"read", "cache"},
         \A u \in Users : MidChange(u) => jobs[u] = job[u] \/ \A k \in Keys : ~entries[ProcOf[u]][k].fresh,
         \A p \in Procs, k \in Keys : entries[p][k] = cache[p][k] \/ ~entries[p][k].fresh,
         writer # None =>
           jobs[writer].at = "invalidate" \/ (jobs[writer].at = "cache" /\ jobs[writer].op # "get"),
         Mark(jobs, entries, writer)
  PROVE  Reading' /\ Caching' /\ Coherent'
<1>1. SecretsTypes /\ StoreTypes /\ JobTypes /\ StoresApart
  BY DEF SecretsInv, SecretsTypes
<1>2. /\ job' \in [Users -> Jobs]
      /\ \A u \in Users :
           /\ job'[u].op = jobs[u].op /\ job'[u].keys = jobs[u].keys
           /\ job'[u].at = jobs[u].at /\ job'[u].left = jobs[u].left /\ job'[u].val = jobs[u].val
           /\ u # writer /\ jobs[u].at # "idle" /\ ~job'[u].raced =>
                ~jobs[u].raced /\ \A k \in Keys : k = key(u) => ~Moved(ProcOf[u], k)
           /\ u = writer /\ ~job'[u].raced => \A k \in Keys : k = key(u) => Lookup(ProcOf[u], k)' = jobs[u].val
  BY <1>1, MarkJobs DEF JobsMarked
<1>3. EntriesMarked(entries, writer)
  BY MarkEntries
<1>4. \A u \in Users : jobs[u].at # "idle" => key(u) \in Keys /\ ProcOf[u] \in Procs /\ key(u)' = key(u)
  <2> TAKE u \in Users
  <2> HAVE jobs[u].at # "idle"
  <2>1. key(u) \in Keys /\ ProcOf[u] \in Procs
    BY <1>1, KeyTypes
  <2>2. job'[u].keys = job[u].keys
    BY <1>2
  <2> QED BY <2>1, <2>2 DEF key
<1>5. ASSUME NEW u \in Users, job'[u].at = "read", ~job'[u].raced
      PROVE  \E n \in Nat : ReadsOn(ProcOf[u], key(u), job[u].left, n)'
  <2>1. u # writer /\ jobs[u] = job[u]
    <3>1. jobs[u].at = "read"
      BY <1>2, <1>5
    <3>2. u # writer
      BY <3>1 DEF SecretsAssumption
    <3> QED BY <3>1, <3>2
  <2>2. job[u].at = "read" /\ ~job[u].raced /\ job'[u].left = job[u].left
    BY <1>2, <1>5, <2>1
  <2>3. PICK n \in Nat : ReadsOn(ProcOf[u], key(u), job[u].left, n)
    BY <2>2 DEF SecretsInv, Reading
  <2>4. ProcOf[u] \in Procs /\ key(u) \in Keys /\ key(u)' = key(u)
    BY <1>4, <2>1, <2>2
  <2>5. PICK k \in Keys : k = key(u)
    BY <2>4
  <2>6. ~Moved(ProcOf[u], k)
    BY <1>2, <1>5, <2>1, <2>2, <2>5
  <2>7. NoneBefore(ProcOf[u], k, n + 1)'
    <3>1. n + 1 \in Nat /\ NoneBefore(ProcOf[u], k, n + 1)
      BY <2>3, <2>5 DEF ReadsOn
    <3> QED BY <1>1, <2>4, <2>6, <3>1, StillNone
  <2>8. k = key(u)'
    BY <2>4, <2>5
  <2> QED BY <2>2, <2>3, <2>7, <2>8 DEF ReadsOn
<1>6. ASSUME NEW u \in Users, job'[u].at = "cache", ~job'[u].raced
      PROVE  job'[u].val = Lookup(ProcOf[u], key(u))'
  <2>1. jobs[u].at = "cache" /\ job'[u].val = jobs[u].val
    BY <1>2, <1>6
  <2>2. ProcOf[u] \in Procs /\ key(u) \in Keys /\ key(u)' = key(u)
    BY <1>4, <2>1
  <2>3. PICK k \in Keys : k = key(u) /\ k = key(u)'
    BY <2>2
  <2>4. CASE u = writer
    <3>1. Lookup(ProcOf[u], k)' = jobs[u].val
      BY <1>2, <1>6, <2>3, <2>4
    <3> QED BY <2>1, <2>3, <3>1
  <2>5. CASE u # writer
    <3>1. jobs[u] = job[u]
      BY <2>1, <2>5
    <3>2. ~job[u].raced /\ ~Moved(ProcOf[u], k)
      BY <1>2, <1>6, <2>1, <2>3, <2>5, <3>1
    <3>3. job[u].val = Lookup(ProcOf[u], k)
      BY <2>1, <2>3, <3>1, <3>2 DEF SecretsInv, Caching
    <3>4. Lookup(ProcOf[u], k)' = Lookup(ProcOf[u], k)
      BY <3>2 DEF Moved
    <3> QED BY <2>1, <2>3, <3>1, <3>3, <3>4
  <2> QED BY <2>4, <2>5
<1>7. ASSUME NEW p \in Procs, NEW k \in Keys,
             cache'[p][k].fresh, ~cache'[p][k].excused, cache'[p][k].val # Lookup(p, k)'
      PROVE  \E u \in Users : ProcOf[u] = p /\ job'[u].at # "idle" /\ key(u)' = k /\ MidChange(u)'
  <2>1. /\ entries[p][k].fresh /\ ~entries[p][k].excused /\ entries[p][k] = cache[p][k]
        /\ cache[p][k].val # Lookup(p, k)'
    BY <1>3, <1>7 DEF EntriesMarked
  <2>2. CASE writer # None /\ ProcOf[writer] = p /\ k = key(writer)
    <3>1. /\ writer \in Users /\ jobs[writer].at # "idle"
          /\ jobs[writer].at = "invalidate" \/ (jobs[writer].at = "cache" /\ jobs[writer].op # "get")
      BY <2>2
    <3>2. job'[writer].at # "idle" /\ MidChange(writer)' /\ key(writer)' = k
      BY <1>2, <1>4, <2>2, <3>1 DEF MidChange
    <3> QED BY <2>2, <3>1, <3>2
  <2>3. CASE ~Moved(p, k)
    <3>1. cache[p][k].val # Lookup(p, k)
      BY <2>1, <2>3 DEF Moved
    <3>2. PICK u \in Users : ProcOf[u] = p /\ job[u].at # "idle" /\ key(u) = k /\ MidChange(u)
      BY <2>1, <3>1 DEF SecretsInv, Coherent, MidChange
    <3>3. jobs[u] = job[u]
      BY <2>1, <3>2
    <3>4. job'[u].at = job[u].at /\ job'[u].op = job[u].op /\ key(u)' = key(u)
      BY <1>2, <1>4, <3>2, <3>3
    <3> QED BY <3>2, <3>4 DEF MidChange
  <2> QED BY <1>3, <1>7, <2>2, <2>3 DEF EntriesMarked
<1>8. Coherent'
  BY <1>7 DEF Coherent, MidChange
<1> QED BY <1>5, <1>6, <1>8 DEF Reading, Caching

\* A step of one goroutine that leaves the providers as they are.
LEMMA UnmarkedStep ==
  ASSUME SecretsAssumption, SecretsInv, JobTypes', UNCHANGED <<conf, aws, file, env, lock>>, NEW u \in Users,
         \A v \in Users : v # u => job'[v] = job[v],
         job'[u].at = "read" /\ ~job'[u].raced =>
           \E n \in Nat : ReadsOn(ProcOf[u], Head(job'[u].keys), job'[u].left, n),
         job'[u].at = "cache" /\ ~job'[u].raced => job'[u].val = Lookup(ProcOf[u], Head(job'[u].keys)),
         \A p \in Procs, k \in Keys :
           cache'[p][k].fresh /\ ~cache'[p][k].excused /\ cache'[p][k].val # Lookup(p, k) =>
             cache'[p][k] = cache[p][k] /\ ~(MidChange(u) /\ p = ProcOf[u] /\ k = key(u))
  PROVE  Reading' /\ Caching' /\ Coherent'
<1>1. StoreTypes /\ JobTypes
  BY DEF SecretsInv, SecretsTypes
<1>2. ASSUME NEW p \in Procs, NEW k \in Keys
      PROVE  /\ Lookup(p, k)' = Lookup(p, k)
             /\ \A i : NoneBefore(p, k, i) => NoneBefore(p, k, i)'
  BY <1>1, NothingMoves DEF Moved
<1>3. \A v \in Users : job'[v].at # "idle" => Head(job'[v].keys) \in Keys /\ ProcOf[v] \in Procs
  <2> TAKE v \in Users
  <2> HAVE job'[v].at # "idle"
  <2>1. job'[v].keys \in Seq(Keys) /\ job'[v].keys # <<>>
    BY DEF JobTypes, JobShape, Jobs
  <2> QED BY <2>1 DEF SecretsAssumption
<1>4. ASSUME NEW v \in Users, job'[v].at = "read", ~job'[v].raced
      PROVE  \E n \in Nat : ReadsOn(ProcOf[v], key(v), job[v].left, n)'
  <2>1. PICK n \in Nat : ReadsOn(ProcOf[v], Head(job'[v].keys), job'[v].left, n)
    <3>1. CASE v = u
      BY <1>4, <3>1
    <3>2. CASE v # u
      BY <1>4, <3>2 DEF SecretsInv, Reading, key
    <3> QED BY <3>1, <3>2
  <2>2. PICK k \in Keys : k = Head(job'[v].keys) /\ k = key(v)'
    BY <1>3, <1>4 DEF key
  <2>3. NoneBefore(ProcOf[v], k, n + 1)'
    BY <1>2, <1>3, <1>4, <2>1, <2>2 DEF ReadsOn
  <2> QED BY <2>1, <2>2, <2>3 DEF ReadsOn
<1>5. ASSUME NEW v \in Users, job'[v].at = "cache", ~job'[v].raced
      PROVE  job'[v].val = Lookup(ProcOf[v], key(v))'
  <2>1. job'[v].val = Lookup(ProcOf[v], Head(job'[v].keys))
    <3>1. CASE v = u
      BY <1>5, <3>1
    <3>2. CASE v # u
      BY <1>5, <3>2 DEF SecretsInv, Caching, key
    <3> QED BY <3>1, <3>2
  <2>2. PICK k \in Keys : k = Head(job'[v].keys) /\ k = key(v)'
    BY <1>3, <1>5 DEF key
  <2> QED BY <1>2, <1>3, <1>5, <2>1, <2>2
<1>6. ASSUME NEW p \in Procs, NEW k \in Keys,
             cache'[p][k].fresh, ~cache'[p][k].excused, cache'[p][k].val # Lookup(p, k)'
      PROVE  \E v \in Users : ProcOf[v] = p /\ job'[v].at # "idle" /\ key(v)' = k /\ MidChange(v)'
  <2>1. /\ cache'[p][k] = cache[p][k] /\ cache[p][k].val # Lookup(p, k)
        /\ ~(MidChange(u) /\ p = ProcOf[u] /\ k = key(u))
    BY <1>2, <1>6
  <2>2. PICK v \in Users : ProcOf[v] = p /\ job[v].at # "idle" /\ key(v) = k /\ MidChange(v)
    BY <1>6, <2>1 DEF SecretsInv, Coherent, MidChange
  <2>3. job'[v] = job[v]
    BY <2>1, <2>2
  <2> QED BY <2>2, <2>3 DEF MidChange, key
<1>7. Coherent'
  BY <1>6 DEF Coherent, MidChange
<1> QED BY <1>4, <1>5, <1>7 DEF Reading, Caching

\* New values go into one store; the others only lose some.
OneStoreGains(store, jobs) ==
  \A k \in Keys :
    /\ aws'[k] \in {0, aws[k]} \/ (store = "aws" /\ aws'[k] = writes' /\ writes' = writes + 1)
    /\ file'.data[k] \in Held("file", k)
    /\ \A u \in Users : jobs[u].data[k] \in Held("file", k)
         \/ (store = "file" /\ jobs[u].data[k] = writes' /\ writes' = writes + 1)
    /\ \A p \in Procs : env'[p][k] \in {0, env[p][k]}
         \/ (store = "env" /\ env'[p][k] = writes' /\ writes' = writes + 1)

\* A step that puts a value into one store has numbered it as the last.
LEMMA NewInOne ==
  ASSUME NEW store, writes' \in {writes, writes + 1}, OneStoreGains(store, job')
  PROVE  StoresNew
<1>1. ASSUME NEW k \in Keys, NEW prov, NEW n \in Held(prov, k)'
      PROVE  n \in Held(prov, k) \/ (prov = store /\ n = writes' /\ writes' = writes + 1)
  <2>1. CASE prov = "aws"
    BY <1>1, <2>1 DEF Held, OneStoreGains
  <2>2. CASE prov = "file"
    <3>1. n = 0 \/ n = file'.data[k] \/ \E u \in Users : n = job'[u].data[k]
      BY <1>1, <2>2 DEF Held
    <3>2. 0 \in Held("file", k)
      BY DEF Held
    <3> QED BY <2>2, <3>1, <3>2 DEF OneStoreGains
  <2>3. CASE prov = "env"
    BY <1>1, <2>3 DEF Held, OneStoreGains
  <2>4. CASE prov \notin {"aws", "file", "env"}
    BY <1>1, <2>4 DEF Held
  <2> QED BY <2>1, <2>2, <2>3, <2>4
<1> QED BY <1>1 DEF StoresNew

-----------------------------------------------------------------------------
(* Steps that change nothing in the stores.                                  *)

\* Stages at which a command holds nothing and reads nothing.
Quiet == {"idle", "look", "set", "delete", "rotate", "refresh"}

\* The rest of a sequence that is not empty.
LEMMA TailTypes ==
  ASSUME NEW S, NEW s \in Seq(S), s # <<>>
  PROVE  /\ Tail(s) \in Seq(S) /\ Len(s) \in Nat \ {0} /\ Len(Tail(s)) = Len(s) - 1
         /\ Head(s) = s[1] /\ Head(s) \in S
         /\ \A i \in 1 .. Len(s) - 1 : Tail(s)[i] = s[i + 1]
         /\ Len(s) # 1 => Tail(s) # <<>>
<1>1. Len(s) \in Nat \ {0}
  BY EmptySeq
<1>2. /\ Tail(s) \in Seq(S) /\ Len(Tail(s)) = Len(s) - 1 /\ Head(s) \in S
      /\ \A i \in 1 .. Len(Tail(s)) : Tail(s)[i] = s[i + 1]
  BY HeadTailProperties
<1>3. Head(s) = s[1]
  OBVIOUS
<1>4. Len(s) # 1 => Tail(s) # <<>>
  <2> SUFFICES ASSUME Len(s) # 1, Tail(s) = <<>> PROVE FALSE
    OBVIOUS
  <2>1. Len(Tail(s)) = 0
    BY EmptySeq
  <2>2. Len(s) - 1 = 0
    BY <1>2, <2>1
  <2>3. \A n \in Nat : n # 1 => n - 1 # 0
    OBVIOUS
  <2> QED BY <1>1, <2>2, <2>3
<1> QED BY <1>1, <1>2, <1>3, <1>4

\* A command begins with one of its secrets.
LEMMA EnterTypes ==
  ASSUME SecretsAssumption, NEW u, NEW c, NEW keys \in Seq(Keys), keys # <<>>,
         c.op \in Operations \ {"none"}, c.prov \in Names
  PROVE  /\ Enter(u, c, keys) \in Jobs /\ JobShape(Enter(u, c, keys)) /\ Enter(u, c, keys).at \in Quiet
         /\ Enter(u, c, keys).data = NoFile
<1> DEFINE a == IF c.op \in {"get", "init"} THEN "look" ELSE c.op
           e == Enter(u, c, keys)
<1>1. e = [Idle EXCEPT !.op = c.op, !.prov = c.prov, !.keys = keys, !.at = a]
  BY DEF Enter
<1>2. /\ e.op = c.op /\ e.prov = c.prov /\ e.keys = keys /\ e.at = a /\ e.left = <<>> /\ e.val = 0
      /\ e.data = NoFile /\ e.raced = FALSE
      /\ e = [op |-> e.op, keys |-> e.keys, prov |-> e.prov, at |-> e.at, left |-> e.left,
              val |-> e.val, data |-> e.data, raced |-> e.raced]
  BY <1>1 DEF Idle
<1>3. a \in Quiet /\ a # "idle" /\ (a = "set" => c.op = "set") /\ a \in JobStages
  BY DEF Operations, Quiet, JobStages
<1> HIDE DEF e, a
<1>4. <<>> \in Seq(Providers) /\ FALSE \in BOOLEAN
  OBVIOUS
<1>5. e \in Jobs
  BY <1>2, <1>3, <1>4, IdleTypes DEF Jobs
<1>6. JobShape(e)
  BY <1>2, <1>3 DEF JobShape, Quiet
<1> QED BY <1>2, <1>3, <1>5, <1>6 DEF e

\* It goes on with the next, or with storing what it did not find.
LEMMA NextTypes ==
  ASSUME SecretsAssumption, JobTypes, NEW u \in Users, job[u].at # "idle",
         NEW j \in {Idle, Proceed(u), NotFound(u)}
  PROVE  j \in Jobs /\ JobShape(j) /\ j.at \in Quiet /\ j.data \in {NoFile, job[u].data}
<1>1. job[u] \in Jobs /\ JobShape(job[u]) /\ job[u].op \in Operations \ {"none"} /\ job[u].prov \in Names
  BY DEF JobTypes, JobShape, Jobs
<1>2. job[u].keys \in Seq(Keys) /\ job[u].keys # <<>>
  BY <1>1 DEF JobShape, Jobs
<1>3. Idle \in Jobs /\ JobShape(Idle) /\ Idle.at \in Quiet /\ Idle.data = NoFile
  BY IdleTypes DEF Quiet
<1>4. /\ Proceed(u) \in Jobs /\ JobShape(Proceed(u)) /\ Proceed(u).at \in Quiet
      /\ Proceed(u).data = NoFile
  <2>1. CASE Len(job[u].keys) = 1
    BY <1>3, <2>1 DEF Proceed
  <2>2. CASE Len(job[u].keys) # 1
    <3>1. Tail(job[u].keys) \in Seq(Keys) /\ Tail(job[u].keys) # <<>>
      BY <1>2, <2>2, TailTypes
    <3> QED BY <1>1, <2>2, <3>1, EnterTypes DEF Proceed
  <2> QED BY <2>1, <2>2
<1>5. CASE j = [job[u] EXCEPT !.at = "set", !.left = <<>>] /\ job[u].op = "init"
  <2>1. <<>> \in Seq(Providers) /\ "set" \in JobStages /\ "set" \in Quiet
    BY DEF JobStages, Quiet
  <2>2. /\ j \in Jobs /\ j.at = "set" /\ j.op = "init" /\ j.keys = job[u].keys /\ j.data = job[u].data
    BY <1>1, <1>5, <2>1 DEF Jobs
  <2>3. JobShape(j)
    BY <1>2, <2>2 DEF JobShape
  <2> QED BY <2>1, <2>2, <2>3
<1>6. j \in {Idle, Proceed(u)} \/ (j = [job[u] EXCEPT !.at = "set", !.left = <<>>] /\ job[u].op = "init")
  BY DEF NotFound
<1> QED BY <1>3, <1>4, <1>5, <1>6

\* One goroutine's command goes on; stores and mutexes stay.
LEMMA UnmarkedTypes ==
  ASSUME SecretsAssumption, SecretsInv, UNCHANGED <<conf, aws, file, env, lock, writes>>,
         rotating' \subseteq Keys, failures' \in 0 .. MaxFailures, CacheTypes',
         NEW u \in Users, NEW j \in Jobs, JobShape(j), job' = [job EXCEPT ![u] = j],
         ~Saving(u), j.at \notin {"truncate", "write"}, j.data \in {NoFile, job[u].data}
  PROVE  SecretsTypes' /\ StoresApart'
<1>1. StoreTypes /\ JobTypes /\ Locks /\ StoresApart
  BY DEF SecretsInv, SecretsTypes
<1>2. StoreTypes'
  BY <1>1 DEF StoreTypes
<1>3. job' \in [Users -> Jobs] /\ job'[u] = j /\ \A v \in Users : v # u => job'[v] = job[v]
  BY <1>1 DEF JobTypes
<1>4. JobTypes'
  BY <1>1, <1>3 DEF JobTypes
<1>5. Locks'
  <2>1. \A v \in Users : Saving(v)' <=> Saving(v)
    BY <1>3 DEF Saving
  <2> QED BY <1>1, <2>1 DEF Locks
<1>6. StoresNew
  <2>1. ASSUME NEW k \in Keys
        PROVE  /\ aws'[k] \in {0, aws[k]} /\ file'.data[k] \in Held("file", k)
               /\ \A v \in Users : job'[v].data[k] \in Held("file", k)
               /\ \A p \in Procs : env'[p][k] \in {0, env[p][k]}
    <3>1. job'[u].data[k] \in {0, job[u].data[k]}
      BY <1>3 DEF NoFile
    <3> QED BY <1>3, <3>1 DEF Held
  <2> QED BY <2>1, NewInOne DEF OneStoreGains
<1>7. StoresApart'
  BY <1>1, <1>2, <1>4, <1>6, StayApart
<1> QED BY <1>2, <1>4, <1>5, <1>7 DEF SecretsTypes

\* ... to a stage at which it reads and caches nothing, or with what it needs there.
LEMMA UnmarkedKeeps ==
  ASSUME SecretsAssumption, SecretsInv, UNCHANGED <<conf, aws, file, env, lock, writes>>,
         rotating' \subseteq Keys, failures' \in 0 .. MaxFailures, CacheTypes',
         NEW u \in Users, NEW j \in Jobs, JobShape(j), job' = [job EXCEPT ![u] = j],
         ~Saving(u), j.at \notin {"truncate", "write"}, j.data \in {NoFile, job[u].data},
         j.at = "read" /\ ~j.raced => \E n \in Nat : ReadsOn(ProcOf[u], Head(j.keys), j.left, n),
         j.at = "cache" /\ ~j.raced => j.val = Lookup(ProcOf[u], Head(j.keys)),
         \A p \in Procs, k \in Keys :
           cache'[p][k].fresh /\ ~cache'[p][k].excused /\ cache'[p][k].val # Lookup(p, k) =>
             cache'[p][k] = cache[p][k] /\ ~(MidChange(u) /\ p = ProcOf[u] /\ k = key(u))
  PROVE  SecretsInv'
<1>1. SecretsTypes' /\ StoresApart'
  BY UnmarkedTypes
<1>2. job'[u] = j /\ \A v \in Users : v # u => job'[v] = job[v]
  BY DEF SecretsInv, SecretsTypes, JobTypes
<1>3. Reading' /\ Caching' /\ Coherent'
  <2>1. JobTypes'
    BY <1>1 DEF SecretsTypes
  <2> QED BY <1>2, <2>1, UnmarkedStep
<1> QED BY <1>1, <1>3 DEF SecretsInv

\* Where the cache stays, so do its entries.
LEMMA CacheStays ==
  ASSUME SecretsInv, cache' = cache, NEW u \in Users, ~MidChange(u)
  PROVE  /\ CacheTypes'
         /\ \A p \in Procs, k \in Keys :
              cache'[p][k].fresh /\ ~cache'[p][k].excused /\ cache'[p][k].val # Lookup(p, k) =>
                cache'[p][k] = cache[p][k] /\ ~(MidChange(u) /\ p = ProcOf[u] /\ k = key(u))
BY DEF SecretsInv, SecretsTypes, CacheTypes

\* A command starts.  One of the tool is alone in its process, whose environment and
\* cache are new; nobody else's lookup goes another way.
LEMMA StartKeeps ==
  ASSUME SecretsAssumption, SecretsInv, NEW u \in Users, Start(u)
  PROVE  SecretsInv'
<1>0. StoreTypes /\ JobTypes /\ CacheTypes /\ Locks /\ StoresApart
  BY DEF SecretsInv, SecretsTypes
<1>1. PICK c \in Commands[u] : c.keys # <<>> /\ job' = [job EXCEPT ![u] = Enter(u, c, c.keys)]
  BY DEF Start
<1> DEFINE j == Enter(u, c, c.keys)
<1>2. j \in Jobs /\ JobShape(j) /\ j.at \in Quiet /\ j.data = NoFile
  <2>1. c.op \in Operations \ {"none"} /\ c.keys \in Seq(Keys) /\ c.prov \in Names
    BY DEF SecretsAssumption, Operations, Names
  <2> QED BY <1>1, <2>1, EnterTypes
<1> HIDE DEF j
<1>3. job[u].at = "idle" /\ ~Saving(u) /\ ~MidChange(u)
  BY IdleTypes DEF Start, Saving, MidChange
<1>4. /\ UNCHANGED <<conf, aws, rotating, file, lock, writes, failures>>
      /\ \/ UNCHANGED <<env, cache>>
         \/ /\ ProcOf[u] \in Tools
            /\ env' = [env EXCEPT ![ProcOf[u]] = NoFile]
            /\ cache' = [cache EXCEPT ![ProcOf[u]] = [k \in Keys |-> NoEntry]]
  BY DEF Start
<1>5. CASE UNCHANGED <<env, cache>>
  <2>1. CacheTypes'
    BY <1>0, <1>5 DEF CacheTypes
  <2>2. rotating' \subseteq Keys /\ failures' \in 0 .. MaxFailures
    BY <1>0, <1>4 DEF StoreTypes
  <2>3. j.at \notin {"read", "cache", "truncate", "write"} /\ j.data \in {NoFile, job[u].data}
    BY <1>2 DEF Quiet
  <2>4. \A p \in Procs, k \in Keys :
          cache'[p][k].fresh /\ ~cache'[p][k].excused /\ cache'[p][k].val # Lookup(p, k) =>
            cache'[p][k] = cache[p][k] /\ ~(MidChange(u) /\ p = ProcOf[u] /\ k = key(u))
    BY <1>3, <1>5
  <2> QED BY <1>1, <1>2, <1>3, <1>4, <1>5, <2>1, <2>2, <2>3, <2>4, UnmarkedKeeps DEF j
<1>6. CASE /\ ProcOf[u] \in Tools
           /\ env' = [env EXCEPT ![ProcOf[u]] = NoFile]
           /\ cache' = [cache EXCEPT ![ProcOf[u]] = [k \in Keys |-> NoEntry]]
  <2>1. job' \in [Users -> Jobs] /\ job'[u] = j /\ \A v \in Users : v # u => job'[v] = job[v]
    BY <1>0, <1>1, <1>2 DEF JobTypes, j
  <2>2. JobTypes'
    BY <1>0, <1>2, <2>1 DEF JobTypes
  <2>3. StoreTypes'
    BY <1>0, <1>4, <1>6, IdleTypes DEF StoreTypes
  <2>4. /\ cache' \in [Procs -> [Keys -> Entries]]
        /\ \A p \in Procs, k \in Keys : p # ProcOf[u] => cache'[p][k] = cache[p][k]
        /\ \A k \in Keys : ~cache'[ProcOf[u]][k].fresh
    BY <1>0, <1>6, IdleTypes DEF CacheTypes, SecretsAssumption
  <2>5. CacheTypes'
    BY <1>0, <2>4 DEF CacheTypes
  <2>6. \A v \in Users : Saving(v)' <=> Saving(v)
    BY <1>2, <1>3, <2>1 DEF Saving, Quiet
  <2>7. Locks'
    BY <1>0, <1>4, <2>6 DEF Locks
  <2>8. StoresNew
    <3>1. ASSUME NEW k \in Keys
          PROVE  /\ aws'[k] \in {0, aws[k]} /\ file'.data[k] \in Held("file", k)
                 /\ \A v \in Users : job'[v].data[k] \in Held("file", k)
                 /\ \A p \in Procs : env'[p][k] \in {0, env[p][k]}
      <4>1. job'[u].data[k] = 0
        BY <1>2, <2>1 DEF NoFile
      <4>2. \A p \in Procs : env'[p][k] \in {0, env[p][k]}
        BY <1>0, <1>6 DEF StoreTypes, NoFile
      <4> QED BY <1>4, <2>1, <4>1, <4>2 DEF Held
    <3> QED BY <1>4, <3>1, NewInOne DEF OneStoreGains
  <2>9. StoresApart'
    BY <1>0, <2>2, <2>3, <2>8, StayApart
  <2>10. \A p \in Procs, k \in Keys : p # ProcOf[u] =>
           Lookup(p, k)' = Lookup(p, k) /\ \A i : NoneBefore(p, k, i) => NoneBefore(p, k, i)'
    <3> SUFFICES ASSUME NEW p \in Procs, NEW k \in Keys, p # ProcOf[u]
                 PROVE  Lookup(p, k)' = Lookup(p, k) /\ \A i : NoneBefore(p, k, i) => NoneBefore(p, k, i)'
      OBVIOUS
    <3>1. env'[p] = env[p] /\ lock'[p] = lock[p]
      BY <1>0, <1>4, <1>6 DEF StoreTypes
    <3> QED BY <1>0, <1>4, <3>1, NothingMoves DEF Moved
  <2>11. \A v \in Users : v # u => ProcOf[v] # ProcOf[u]
    BY <1>6 DEF SecretsAssumption
  <2>12. \A v \in Users : job'[v].at \in {"read", "cache"} => v # u
    BY <1>2, <2>1 DEF Quiet
  <2>13. \A v \in Users : v # u => key(v)' = key(v)
    BY <2>1 DEF key
  <2>14. \A v \in Users : job[v].at # "idle" => ProcOf[v] \in Procs /\ key(v) \in Keys
    BY <1>0, KeyTypes
  <2>15. Reading'
    <3> SUFFICES ASSUME NEW v \in Users, job'[v].at = "read", ~job'[v].raced
                 PROVE  \E n \in Nat : ReadsOn(ProcOf[v], key(v), job[v].left, n)'
      BY DEF Reading
    <3>1. v # u /\ job'[v] = job[v] /\ ProcOf[v] # ProcOf[u]
      BY <2>1, <2>11, <2>12
    <3>2. PICK n \in Nat : ReadsOn(ProcOf[v], key(v), job[v].left, n)
      BY <3>1 DEF SecretsInv, Reading
    <3>3. PICK k \in Keys : k = key(v) /\ k = key(v)'
      BY <2>13, <2>14, <3>1
    <3>4. NoneBefore(ProcOf[v], k, n + 1)'
      BY <2>10, <2>14, <3>1, <3>2, <3>3 DEF ReadsOn
    <3> QED BY <1>4, <3>1, <3>2, <3>3, <3>4 DEF ReadsOn
  <2>16. Caching'
    <3> SUFFICES ASSUME NEW v \in Users, job'[v].at = "cache", ~job'[v].raced
                 PROVE  job'[v].val = Lookup(ProcOf[v], key(v))'
      BY DEF Caching
    <3>1. v # u /\ job'[v] = job[v] /\ ProcOf[v] # ProcOf[u]
      BY <2>1, <2>11, <2>12
    <3>2. job[v].val = Lookup(ProcOf[v], key(v))
      BY <3>1 DEF SecretsInv, Caching
    <3>3. PICK k \in Keys : k = key(v) /\ k = key(v)'
      BY <2>13, <2>14, <3>1
    <3> QED BY <2>10, <2>14, <3>1, <3>2, <3>3
  <2>17. Coherent'
    <3> SUFFICES ASSUME NEW p \in Procs, NEW k \in Keys,
                        cache'[p][k].fresh, ~cache'[p][k].excused, cache'[p][k].val # Lookup(p, k)'
                 PROVE  \E v \in Users : ProcOf[v] = p /\ job'[v].at # "idle" /\ key(v)' = k /\ MidChange(v)'
      BY DEF Coherent, MidChange
    <3>1. p # ProcOf[u] /\ cache'[p][k] = cache[p][k] /\ Lookup(p, k)' = Lookup(p, k)
      BY <2>4, <2>10
    <3>2. PICK v \in Users : ProcOf[v] = p /\ job[v].at # "idle" /\ key(v) = k /\ MidChange(v)
      BY <3>1 DEF SecretsInv, Coherent, MidChange
    <3>3. v # u /\ job'[v] = job[v] /\ key(v)' = key(v)
      BY <1>3, <2>1, <2>13, <3>2
    <3> QED BY <3>2, <3>3 DEF MidChange
  <2> QED BY <2>2, <2>3, <2>5, <2>7, <2>9, <2>15, <2>16, <2>17 DEF SecretsInv, SecretsTypes
<1> QED BY <1>4, <1>5, <1>6

\* A command looks into the cache.
LEMMA CheckKeeps ==
  ASSUME SecretsAssumption, SecretsInv, NEW u \in Users, CheckCache(u)
  PROVE  SecretsInv'
<1>0. StoreTypes /\ JobTypes
  BY DEF SecretsInv, SecretsTypes
<1>1. job[u].at = "look" /\ ~Saving(u) /\ ~MidChange(u) /\ UNCHANGED <<conf, stores, cache, writes, failures>>
  BY DEF CheckCache, Saving, MidChange
<1>2. UNCHANGED <<conf, aws, file, env, lock, writes>> /\ rotating' \subseteq Keys /\ failures' \in 0 .. MaxFailures
  BY <1>0, <1>1 DEF stores, StoreTypes
<1>3. ProcOf[u] \in Procs /\ key(u) \in Keys
  BY <1>0, <1>1, KeyTypes
<1>4. CASE job' = [job EXCEPT ![u] = Proceed(u)]
  <2>1. Proceed(u) \in Jobs /\ JobShape(Proceed(u)) /\ Proceed(u).at \in Quiet /\ Proceed(u).data \in {NoFile, job[u].data}
    BY <1>0, <1>1, NextTypes
  <2>2. Proceed(u).at \notin {"read", "cache", "truncate", "write"}
    BY <2>1 DEF Quiet
  <2> QED BY <1>1, <1>2, <1>4, <2>1, <2>2, CacheStays, UnmarkedKeeps
<1>5. CASE job' = [job EXCEPT ![u] = [job[u] EXCEPT !.at = "read", !.left = conf[ProcOf[u]], !.raced = FALSE]]
  <2> DEFINE j == [job[u] EXCEPT !.at = "read", !.left = conf[ProcOf[u]], !.raced = FALSE]
  <2>1. conf[ProcOf[u]] \in Seq(Providers) /\ conf[ProcOf[u]] # <<>> /\ Len(conf[ProcOf[u]]) \in Nat
        /\ DOMAIN conf[ProcOf[u]] = 1 .. Len(conf[ProcOf[u]])
    BY <1>0, <1>3, Positions
  <2>2. job[u] \in Jobs /\ JobShape(job[u])
    BY <1>0 DEF JobTypes
  <2>3. "read" \in JobStages /\ FALSE \in BOOLEAN
    BY DEF JobStages
  <2>4. /\ j \in Jobs /\ j.at = "read" /\ j.left = conf[ProcOf[u]] /\ j.keys = job[u].keys /\ j.data = job[u].data
        /\ j.op = job[u].op
    BY <2>1, <2>2, <2>3 DEF Jobs
  <2> HIDE DEF j
  <2>5. JobShape(j)
    BY <1>1, <2>1, <2>2, <2>4 DEF JobShape
  <2>6. ReadsOn(ProcOf[u], Head(j.keys), j.left, 0)
    BY <2>1, <2>4 DEF ReadsOn, NoneBefore
  <2>7. job' = [job EXCEPT ![u] = j]
    BY <1>5 DEF j
  <2>8. j.at \notin {"cache", "truncate", "write"}
    BY <2>4
  <2>9. \E n \in Nat : ReadsOn(ProcOf[u], Head(j.keys), j.left, n)
    BY <2>6
  <2> QED BY <1>1, <1>2, <2>4, <2>5, <2>7, <2>8, <2>9, CacheStays, UnmarkedKeeps
<1> QED BY <1>4, <1>5 DEF CheckCache

\* The next provider is asked: what it has is what a lookup finds, as the providers
\* before it have nothing.
LEMMA ReadKeeps ==
  ASSUME SecretsAssumption, SecretsInv, NEW u \in Users, ReadProvider(u)
  PROVE  SecretsInv'
<1>0. StoreTypes /\ JobTypes
  BY DEF SecretsInv, SecretsTypes
<1>1. job[u].at = "read" /\ ~Saving(u) /\ ~MidChange(u) /\ UNCHANGED <<conf, stores, cache, writes>>
  BY DEF ReadProvider, Saving, MidChange
<1>2. ProcOf[u] \in Procs /\ key(u) \in Keys
  BY <1>0, <1>1, KeyTypes
<1>3. job[u] \in Jobs /\ JobShape(job[u]) /\ job[u].left \in Seq(Providers) /\ job[u].left # <<>>
  BY <1>0, <1>1 DEF JobTypes, JobShape, Jobs
<1> DEFINE prov == Head(job[u].left)
           Value(fails) == IF fails THEN 0 ELSE ValueIn(ProcOf[u], prov, key(u))
           Taken(fails) == [job[u] EXCEPT !.at = "cache", !.val = Value(fails), !.raced = job[u].raced \/ fails, !.left = <<>>]
           Onward(fails) == [job[u] EXCEPT !.left = Tail(job[u].left), !.raced = job[u].raced \/ fails]
<1>4. PICK fails \in BOOLEAN :
        /\ fails => CanFail
        /\ Fail(fails)
        /\ job' = [job EXCEPT ![u] = IF Value(fails) # 0 THEN Taken(fails)
                                     ELSE IF Len(job[u].left) = 1 THEN NotFound(u) ELSE Onward(fails)]
  BY DEF ReadProvider
<1>5. UNCHANGED <<conf, aws, file, env, lock, writes>> /\ rotating' \subseteq Keys
  BY <1>0, <1>1 DEF stores, StoreTypes
<1>6. failures' \in 0 .. MaxFailures
  BY <1>0, <1>4 DEF StoreTypes, Fail, CanFail, SecretsAssumption
<1>7. Tail(job[u].left) \in Seq(Providers) /\ Len(job[u].left) \in Nat \ {0}
      /\ Len(Tail(job[u].left)) = Len(job[u].left) - 1 /\ Head(job[u].left) = job[u].left[1]
      /\ (\A i \in 1 .. Len(job[u].left) - 1 : Tail(job[u].left)[i] = job[u].left[i + 1])
      /\ (Len(job[u].left) # 1 => Tail(job[u].left) # <<>>)
  BY <1>3, TailTypes
<1>8. conf[ProcOf[u]] \in Seq(Providers) /\ Len(conf[ProcOf[u]]) \in Nat
      /\ DOMAIN conf[ProcOf[u]] = 1 .. Len(conf[ProcOf[u]])
  BY <1>0, <1>2, Positions
<1>9. ~job[u].raced => \E n \in Nat : /\ ReadsOn(ProcOf[u], key(u), job[u].left, n)
                                      /\ n + 1 \in DOMAIN conf[ProcOf[u]] /\ prov = conf[ProcOf[u]][n + 1]
  <2> SUFFICES ASSUME ~job[u].raced
               PROVE  \E n \in Nat : /\ ReadsOn(ProcOf[u], key(u), job[u].left, n)
                                     /\ n + 1 \in DOMAIN conf[ProcOf[u]] /\ prov = conf[ProcOf[u]][n + 1]
    OBVIOUS
  <2>1. PICK n \in Nat : ReadsOn(ProcOf[u], key(u), job[u].left, n)
    BY <1>1 DEF SecretsInv, Reading
  <2>2. n + Len(job[u].left) = Len(conf[ProcOf[u]]) /\ job[u].left[1] = conf[ProcOf[u]][n + 1]
    BY <1>7, <2>1 DEF ReadsOn
  <2>3. n + 1 \in DOMAIN conf[ProcOf[u]]
    BY <1>7, <1>8, <2>2
  <2> QED BY <1>7, <2>1, <2>2, <2>3
<1>10. (job[u].raced \/ fails) \in BOOLEAN
  OBVIOUS
<1> HIDE DEF prov
<1>11. CASE Value(fails) # 0
  <2>1. ~fails /\ Value(fails) = ValueIn(ProcOf[u], prov, key(u))
    BY <1>11
  <2>2. Value(fails) \in Values
    <3>1. \A k \in Keys : aws[k] \in Values /\ file.data[k] \in Values /\ 0 \in Values
                          /\ \A p \in Procs : env[p][k] \in Values
      BY <1>0, IdleTypes DEF StoreTypes
    <3>2. FileData(ProcOf[u])[key(u)] \in Values
      BY <1>2, <3>1 DEF FileData, NoFile
    <3> QED BY <1>2, <2>1, <3>1, <3>2 DEF ValueIn
  <2> DEFINE j == Taken(fails)
  <2>3. job' = [job EXCEPT ![u] = j]
    BY <1>4, <1>11
  <2> HIDE DEF Value
  <2>4. "cache" \in JobStages /\ <<>> \in Seq(Providers)
    BY DEF JobStages
  <2>5. /\ j \in Jobs /\ j.at = "cache" /\ j.val = Value(fails) /\ j.keys = job[u].keys /\ j.data = job[u].data
        /\ j.raced = (job[u].raced \/ fails) /\ j.op = job[u].op
    BY <1>3, <1>10, <2>2, <2>4 DEF Jobs
  <2> HIDE DEF j
  <2>6. JobShape(j)
    BY <1>1, <1>3, <1>11, <2>5 DEF JobShape
  <2>7. ASSUME ~j.raced PROVE j.val = Lookup(ProcOf[u], Head(j.keys))
    <3>1. PICK n \in Nat : /\ ReadsOn(ProcOf[u], key(u), job[u].left, n)
                           /\ n + 1 \in DOMAIN conf[ProcOf[u]] /\ prov = conf[ProcOf[u]][n + 1]
      BY <1>9, <2>5, <2>7
    <3>2. FirstWith(ProcOf[u], key(u), n + 1)
      BY <1>11, <2>1, <3>1 DEF FirstWith, ReadsOn
    <3>3. Lookup(ProcOf[u], key(u)) = ValueIn(ProcOf[u], prov, key(u))
      BY <1>0, <1>2, <3>1, <3>2, LookupFinds DEF FindsFirst
    <3> QED BY <2>1, <2>5, <3>3 DEF key
  <2>8. j.at \notin {"read", "truncate", "write"} /\ j.data \in {NoFile, job[u].data}
    BY <2>5
  <2> QED BY <1>1, <1>5, <1>6, <2>3, <2>5, <2>6, <2>7, <2>8, CacheStays, UnmarkedKeeps
<1>12. CASE Value(fails) = 0 /\ Len(job[u].left) = 1
  <2>1. job' = [job EXCEPT ![u] = NotFound(u)]
    BY <1>4, <1>12
  <2>2. NotFound(u) \in Jobs /\ JobShape(NotFound(u)) /\ NotFound(u).at \in Quiet /\ NotFound(u).data \in {NoFile, job[u].data}
    BY <1>0, <1>1, NextTypes
  <2>3. NotFound(u).at \notin {"read", "cache", "truncate", "write"}
    BY <2>2 DEF Quiet
  <2> QED BY <1>1, <1>5, <1>6, <2>1, <2>2, <2>3, CacheStays, UnmarkedKeeps
<1>13. CASE Value(fails) = 0 /\ Len(job[u].left) # 1
  <2> DEFINE j == Onward(fails)
  <2>1. job' = [job EXCEPT ![u] = j]
    BY <1>4, <1>13
  <2>2. /\ j \in Jobs /\ j.at = "read" /\ j.left = Tail(job[u].left) /\ j.keys = job[u].keys /\ j.data = job[u].data
        /\ j.raced = (job[u].raced \/ fails) /\ j.op = job[u].op /\ j.val = job[u].val
    BY <1>1, <1>3, <1>7, <1>10 DEF Jobs
  <2> HIDE DEF j
  <2>3. JobShape(j)
    BY <1>1, <1>3, <1>7, <1>13, <2>2 DEF JobShape
  <2>4. ASSUME ~j.raced PROVE \E n \in Nat : ReadsOn(ProcOf[u], Head(j.keys), j.left, n)
    <3>1. PICK n \in Nat : /\ ReadsOn(ProcOf[u], key(u), job[u].left, n)
                           /\ n + 1 \in DOMAIN conf[ProcOf[u]] /\ prov = conf[ProcOf[u]][n + 1]
      BY <1>9, <2>2, <2>4
    <3>2. ValueIn(ProcOf[u], conf[ProcOf[u]][n + 1], key(u)) = 0
      BY <1>13, <2>2, <2>4, <3>1
    <3>3. NoneBefore(ProcOf[u], key(u), n + 2)
      <4>1. \A i \in DOMAIN conf[ProcOf[u]] : i < n + 2 => i < n + 1 \/ i = n + 1
        BY <1>8
      <4> QED BY <3>1, <3>2, <4>1 DEF ReadsOn, NoneBefore
    <3>4. n + 1 + Len(j.left) = Len(conf[ProcOf[u]])
      <4>1. Len(j.left) = Len(job[u].left) - 1 /\ Len(job[u].left) \in Nat
        BY <1>7, <2>2
      <4>2. n + Len(job[u].left) = Len(conf[ProcOf[u]])
        BY <3>1 DEF ReadsOn
      <4>3. \A a, b \in Nat : a + 1 + (b - 1) = a + b
        OBVIOUS
      <4> QED BY <4>1, <4>2, <4>3
    <3>5. \A i \in 1 .. Len(j.left) : j.left[i] = conf[ProcOf[u]][n + 1 + i]
      <4> TAKE i \in 1 .. Len(j.left)
      <4>1. i \in 1 .. Len(job[u].left) - 1 /\ i + 1 \in 1 .. Len(job[u].left) /\ n + (i + 1) = n + 1 + i
        BY <1>7, <2>2
      <4>2. j.left[i] = job[u].left[i + 1] /\ job[u].left[i + 1] = conf[ProcOf[u]][n + (i + 1)]
        BY <1>7, <2>2, <3>1, <4>1 DEF ReadsOn
      <4> QED BY <4>1, <4>2
    <3>6. n + 1 \in Nat /\ (n + 1) + 1 = n + 2 /\ key(u) = Head(j.keys)
      BY <2>2 DEF key
    <3> QED BY <3>3, <3>4, <3>5, <3>6 DEF ReadsOn
  <2>5. j.at \notin {"cache", "truncate", "write"} /\ j.data \in {NoFile, job[u].data}
    BY <2>2
  <2> QED BY <1>1, <1>5, <1>6, <2>1, <2>2, <2>3, <2>4, <2>5, CacheStays, UnmarkedKeeps
<1> QED BY <1>11, <1>12, <1>13

\* What was read or stored is cached: an entry that is not excused is what a lookup
\* finds.
LEMMA CacheKeeps ==
  ASSUME SecretsAssumption, SecretsInv, NEW u \in Users, CacheSecret(u)
  PROVE  SecretsInv'
<1>0. StoreTypes /\ JobTypes /\ CacheTypes
  BY DEF SecretsInv, SecretsTypes
<1>1. /\ job[u].at = "cache" /\ ~Saving(u) /\ job' = [job EXCEPT ![u] = Proceed(u)]
      /\ cache' = [cache EXCEPT ![ProcOf[u]][key(u)] = CacheEntry(u)]
      /\ UNCHANGED <<conf, stores, writes, failures>>
  BY DEF CacheSecret, Saving
<1>2. ProcOf[u] \in Procs /\ key(u) \in Keys
  BY <1>0, <1>1, KeyTypes
<1>3. UNCHANGED <<conf, aws, file, env, lock, writes>> /\ rotating' \subseteq Keys /\ failures' \in 0 .. MaxFailures
  BY <1>0, <1>1 DEF stores, StoreTypes
<1>4. Proceed(u) \in Jobs /\ JobShape(Proceed(u)) /\ Proceed(u).at \in Quiet /\ Proceed(u).data \in {NoFile, job[u].data}
  BY <1>0, <1>1, NextTypes
<1>5. Proceed(u).at \notin {"read", "cache", "truncate", "write"}
  BY <1>4 DEF Quiet
<1>6. /\ CacheEntry(u) \in Entries /\ CacheEntry(u).val = job[u].val /\ job[u].val # 0
      /\ CacheEntry(u).excused = job[u].raced
  BY <1>0, <1>1 DEF CacheEntry, Entries, JobTypes, JobShape, Jobs
<1>7. /\ cache' \in [Procs -> [Keys -> Entries]] /\ cache'[ProcOf[u]][key(u)] = CacheEntry(u)
      /\ \A p \in Procs, k \in Keys : p # ProcOf[u] \/ k # key(u) => cache'[p][k] = cache[p][k]
  BY <1>0, <1>1, <1>2, <1>6 DEF CacheTypes
<1>8. CacheTypes'
  BY <1>0, <1>6, <1>7 DEF CacheTypes
<1>9. ~job[u].raced => job[u].val = Lookup(ProcOf[u], key(u))
  BY <1>1 DEF SecretsInv, Caching
<1>10. ASSUME NEW p \in Procs, NEW k \in Keys,
              cache'[p][k].fresh, ~cache'[p][k].excused, cache'[p][k].val # Lookup(p, k)
       PROVE  cache'[p][k] = cache[p][k] /\ ~(MidChange(u) /\ p = ProcOf[u] /\ k = key(u))
  <2>1. p # ProcOf[u] \/ k # key(u)
    BY <1>6, <1>7, <1>9, <1>10
  <2> QED BY <1>7, <2>1
<1> QED BY <1>1, <1>3, <1>4, <1>5, <1>8, <1>10, UnmarkedKeeps

\* AWS is asked to rotate a secret; the entry is removed later.
LEMMA RotationKeeps ==
  ASSUME SecretsAssumption, SecretsInv, NEW u \in Users, AskRotation(u)
  PROVE  SecretsInv'
<1>0. StoreTypes /\ JobTypes
  BY DEF SecretsInv, SecretsTypes
<1>1. /\ job[u].at = "rotate" /\ ~Saving(u) /\ ~MidChange(u)
      /\ UNCHANGED <<conf, aws, file, env, lock, cache, writes, failures>>
  BY DEF AskRotation, Saving, MidChange
<1>2. key(u) \in Keys /\ job[u] \in Jobs /\ JobShape(job[u])
  BY <1>0, <1>1, KeyTypes DEF JobTypes
<1>3. failures' \in 0 .. MaxFailures
  BY <1>0, <1>1 DEF StoreTypes
<1>4. CASE rotating' = rotating \cup {key(u)} /\ job' = [job EXCEPT ![u].at = "invalidate"]
  <2> DEFINE j == [job[u] EXCEPT !.at = "invalidate"]
  <2>1. job' = [job EXCEPT ![u] = j] /\ rotating' \subseteq Keys
    BY <1>0, <1>2, <1>4 DEF StoreTypes
  <2>2. "invalidate" \in JobStages
    BY DEF JobStages
  <2>3. j \in Jobs /\ j.at = "invalidate" /\ j.keys = job[u].keys /\ j.op = job[u].op /\ j.data = job[u].data
    BY <1>2, <2>2 DEF Jobs
  <2> HIDE DEF j
  <2>4. JobShape(j)
    BY <1>1, <1>2, <2>3 DEF JobShape
  <2>5. j.at \notin {"read", "cache", "truncate", "write"} /\ j.data \in {NoFile, job[u].data}
    BY <2>3
  <2> QED BY <1>1, <1>3, <2>1, <2>3, <2>4, <2>5, CacheStays, UnmarkedKeeps
<1>5. CASE rotating' = rotating /\ job' = [job EXCEPT ![u] = Idle]
  <2>1. Idle \in Jobs /\ JobShape(Idle) /\ Idle.at \notin {"read", "cache", "truncate", "write"}
        /\ Idle.data \in {NoFile, job[u].data} /\ rotating' \subseteq Keys
    BY <1>0, <1>5, IdleTypes DEF StoreTypes
  <2> QED BY <1>1, <1>3, <1>5, <2>1, CacheStays, UnmarkedKeeps
<1> QED BY <1>4, <1>5 DEF AskRotation

\* An entry, or all of the process's, is removed.
LEMMA RemovalKeeps ==
  ASSUME SecretsAssumption, SecretsInv, NEW u \in Users, Invalidate(u) \/ RefreshCache(u)
  PROVE  SecretsInv'
<1>0. StoreTypes /\ JobTypes /\ CacheTypes
  BY DEF SecretsInv, SecretsTypes
<1>1. /\ job[u].at \in {"invalidate", "refresh"} /\ ~Saving(u) /\ job' = [job EXCEPT ![u] = Idle]
      /\ UNCHANGED <<conf, stores, writes, failures>>
  BY DEF Invalidate, RefreshCache, Saving
<1>2. UNCHANGED <<conf, aws, file, env, lock, writes>> /\ rotating' \subseteq Keys /\ failures' \in 0 .. MaxFailures
  BY <1>0, <1>1 DEF stores, StoreTypes
<1>3. Idle \in Jobs /\ JobShape(Idle) /\ Idle.at \notin {"read", "cache", "truncate", "write"}
      /\ Idle.data \in {NoFile, job[u].data}
  BY IdleTypes
<1>4. ProcOf[u] \in Procs /\ key(u) \in Keys
  BY <1>0, <1>1, KeyTypes
<1>5. /\ cache' \in [Procs -> [Keys -> Entries]]
      /\ \A p \in Procs, k \in Keys : cache'[p][k].fresh => cache'[p][k] = cache[p][k]
      /\ \A p \in Procs, k \in Keys : cache'[p][k].fresh => ~(MidChange(u) /\ p = ProcOf[u] /\ k = key(u))
  <2>1. CASE Invalidate(u)
    <3>1. cache' = [cache EXCEPT ![ProcOf[u]][key(u)] = NoEntry]
      BY <2>1 DEF Invalidate
    <3>2. /\ cache' \in [Procs -> [Keys -> Entries]] /\ cache'[ProcOf[u]][key(u)] = NoEntry
          /\ \A p \in Procs, k \in Keys : p # ProcOf[u] \/ k # key(u) => cache'[p][k] = cache[p][k]
      BY <1>0, <1>4, <3>1, IdleTypes DEF CacheTypes
    <3> QED BY <3>2, IdleTypes
  <2>2. CASE RefreshCache(u)
    <3>1. cache' = [cache EXCEPT ![ProcOf[u]] = [k \in Keys |-> NoEntry]] /\ ~MidChange(u)
      BY <2>2 DEF RefreshCache, MidChange
    <3>2. /\ cache' \in [Procs -> [Keys -> Entries]] /\ \A k \in Keys : cache'[ProcOf[u]][k] = NoEntry
          /\ \A p \in Procs, k \in Keys : p # ProcOf[u] => cache'[p][k] = cache[p][k]
      BY <1>0, <1>4, <3>1, IdleTypes DEF CacheTypes
    <3> QED BY <3>1, <3>2, IdleTypes
  <2> QED BY <2>1, <2>2
<1>6. CacheTypes'
  BY <1>0, <1>5 DEF CacheTypes
<1> QED BY <1>1, <1>2, <1>3, <1>5, <1>6, UnmarkedKeeps

\* Where only entries go.
LEMMA EntriesGo ==
  ASSUME SecretsAssumption, SecretsInv,
         UNCHANGED <<conf, aws, rotating, file, env, lock, job, writes, failures>>,
         cache' \in [Procs -> [Keys -> Entries]],
         \A q \in Procs, l \in Keys : cache'[q][l] = cache[q][l] \/ ~cache'[q][l].fresh
  PROVE  SecretsInv'
<1>0. StoreTypes /\ JobTypes /\ CacheTypes /\ Locks /\ StoresApart
  BY DEF SecretsInv, SecretsTypes
<1>1. UNCHANGED <<conf, aws, rotating, file, env, lock, job, writes, failures>>
  OBVIOUS
<1>3. CacheTypes'
  BY <1>0 DEF CacheTypes
<1>4. StoreTypes' /\ JobTypes' /\ Locks'
  BY <1>0, <1>1 DEF StoreTypes, JobTypes, Locks, Saving
<1>5. StoresApart'
  <2>1. \A q, l : Held(q, l)' = Held(q, l)
    BY <1>1 DEF Held
  <2> QED BY <1>0, <1>1, <2>1 DEF StoresApart
<1>6. \A q \in Procs, l \in Keys : Lookup(q, l)' = Lookup(q, l) /\ \A i : NoneBefore(q, l, i) => NoneBefore(q, l, i)'
  BY <1>0, <1>1, NothingMoves DEF Moved
<1>7. \A v \in Users : job[v].at # "idle" => ProcOf[v] \in Procs /\ key(v) \in Keys /\ key(v)' = key(v)
  BY <1>0, <1>1, KeyTypes DEF key
<1>8. Reading'
  <2> SUFFICES ASSUME NEW v \in Users, job'[v].at = "read", ~job'[v].raced
               PROVE  \E n \in Nat : ReadsOn(ProcOf[v], key(v), job[v].left, n)'
    BY DEF Reading
  <2>1. PICK n \in Nat : ReadsOn(ProcOf[v], key(v), job[v].left, n)
    BY <1>1 DEF SecretsInv, Reading
  <2>2. PICK l \in Keys : l = key(v) /\ l = key(v)'
    BY <1>1, <1>7
  <2>3. NoneBefore(ProcOf[v], l, n + 1)'
    BY <1>1, <1>6, <1>7, <2>1, <2>2 DEF ReadsOn
  <2> QED BY <1>1, <2>1, <2>2, <2>3 DEF ReadsOn
<1>9. Caching'
  <2> SUFFICES ASSUME NEW v \in Users, job'[v].at = "cache", ~job'[v].raced
               PROVE  job'[v].val = Lookup(ProcOf[v], key(v))'
    BY DEF Caching
  <2>1. job[v].val = Lookup(ProcOf[v], key(v))
    BY <1>1 DEF SecretsInv, Caching
  <2>2. PICK l \in Keys : l = key(v) /\ l = key(v)'
    BY <1>1, <1>7
  <2> QED BY <1>1, <1>6, <1>7, <2>1, <2>2
<1>10. Coherent'
  <2> SUFFICES ASSUME NEW q \in Procs, NEW l \in Keys,
                      cache'[q][l].fresh, ~cache'[q][l].excused, cache'[q][l].val # Lookup(q, l)'
               PROVE  \E v \in Users : ProcOf[v] = q /\ job'[v].at # "idle" /\ key(v)' = l /\ MidChange(v)'
    BY DEF Coherent, MidChange
  <2>1. cache'[q][l] = cache[q][l] /\ Lookup(q, l)' = Lookup(q, l)
    BY <1>6
  <2>2. PICK v \in Users : ProcOf[v] = q /\ job[v].at # "idle" /\ key(v) = l /\ MidChange(v)
    BY <2>1 DEF SecretsInv, Coherent, MidChange
  <2> QED BY <1>1, <1>7, <2>2 DEF MidChange
<1> QED BY <1>3, <1>4, <1>5, <1>8, <1>9, <1>10 DEF SecretsInv, SecretsTypes

\* An entry expires.
LEMMA ExpiryKeeps ==
  ASSUME SecretsAssumption, SecretsInv, NEW p \in Procs, NEW k \in Keys, Expire(p, k)
  PROVE  SecretsInv'
<1>1. UNCHANGED <<conf, aws, rotating, file, env, lock, job, writes, failures>>
  BY DEF Expire, stores
<1>2. cache \in [Procs -> [Keys -> Entries]] /\ cache[p][k] \in Entries
  BY DEF SecretsInv, SecretsTypes, CacheTypes
<1>3. [cache[p][k] EXCEPT !.fresh = FALSE, !.excused = FALSE] \in Entries
      /\ ~[cache[p][k] EXCEPT !.fresh = FALSE, !.excused = FALSE].fresh
  BY <1>2 DEF Entries
<1>4. cache' = [cache EXCEPT ![p][k] = [cache[p][k] EXCEPT !.fresh = FALSE, !.excused = FALSE]]
  BY <1>2 DEF Expire
<1>5. /\ cache' \in [Procs -> [Keys -> Entries]]
      /\ \A q \in Procs, l \in Keys : cache'[q][l] = cache[q][l] \/ ~cache'[q][l].fresh
  BY <1>2, <1>3, <1>4
<1> QED BY <1>1, <1>5, EntriesGo

-----------------------------------------------------------------------------
(* Steps that change the stores.                                             *)

\* What such a step makes of the commands and of the entries, before its
\* bookkeeping: only the writer comes to the cache, and a goroutine in the middle of
\* changing an entry stays there as long as the entry does.
CommandsGoOn(jobs, entries, writer) ==
  /\ \A u \in Users : JobShape(jobs[u])
  /\ \A u \in Users : jobs[u].at # "idle" => job[u].at # "idle" /\ jobs[u].keys = job[u].keys
  /\ \A u \in Users : u # writer => jobs[u] = job[u] \/ jobs[u].at \notin {"read", "cache"}
  /\ \A u \in Users : MidChange(u) => jobs[u] = job[u] \/ \A k \in Keys : ~entries[ProcOf[u]][k].fresh
  /\ \A p \in Procs, k \in Keys : entries[p][k] = cache[p][k] \/ ~entries[p][k].fresh
  /\ writer # None =>
       jobs[writer].at = "invalidate" \/ (jobs[writer].at = "cache" /\ jobs[writer].op # "get")

\* The mutexes are held by those that save.
LocksGoOn(jobs) ==
  /\ lock' \in [Procs -> Users \cup {None}]
  /\ \A p \in Procs : lock'[p] # None => ProcOf[lock'[p]] = p /\ jobs[lock'[p]].at \in {"truncate", "write"}
  /\ \A u \in Users : jobs[u].at \in {"truncate", "write"} => lock'[ProcOf[u]] = u

\* A step with its bookkeeping keeps the invariant if commands, mutexes and stores
\* go on as said.
LEMMA MarkedKeeps ==
  ASSUME SecretsAssumption, SecretsInv, StoreTypes', conf' = conf,
         NEW jobs \in [Users -> Jobs], NEW entries \in [Procs -> [Keys -> Entries]],
         NEW writer \in Users \cup {None},
         CommandsGoOn(jobs, entries, writer), LocksGoOn(jobs),
         NEW store, writes' \in {writes, writes + 1},
         OneStoreGains(store, jobs),
         Mark(jobs, entries, writer)
  PROVE  SecretsInv'
<1>1. StoreTypes /\ JobTypes /\ CacheTypes /\ StoresApart
  BY DEF SecretsInv, SecretsTypes
<1>2. /\ writer # None => jobs[writer].at # "idle"
      /\ \A p \in Procs, k \in Keys : entries[p][k].fresh => entries[p][k].val # 0
  BY <1>1 DEF CommandsGoOn, CacheTypes
<1>3. JobTypes' /\ CacheTypes'
  <2>1. \A u \in Users : JobShape(jobs[u]) /\ (jobs[u].at # "idle" => job[u].at # "idle")
    BY DEF CommandsGoOn
  <2> QED BY <1>1, <1>2, <2>1, MarkTypes
<1>4. JobsMarked(jobs, writer)
  <2>1. \A u \in Users : jobs[u].at # "idle" => job[u].at # "idle"
    BY DEF CommandsGoOn
  <2> QED BY <1>1, <1>2, <2>1, MarkJobs
<1>5. \A u \in Users : job'[u].at = jobs[u].at /\ job'[u].data = jobs[u].data
  BY <1>4 DEF JobsMarked
<1>6. Locks'
  <2>1. lock' \in [Procs -> Users \cup {None}]
    BY DEF LocksGoOn
  <2>2. \A p \in Procs : lock'[p] # None => ProcOf[lock'[p]] = p /\ job'[lock'[p]].at \in {"truncate", "write"}
    BY <1>5, <2>1 DEF LocksGoOn
  <2>3. \A u \in Users : job'[u].at \in {"truncate", "write"} => lock'[ProcOf[u]] = u
    BY <1>5 DEF LocksGoOn
  <2> QED BY <2>1, <2>2, <2>3 DEF Locks, Saving
<1>7. StoresNew
  <2>1. OneStoreGains(store, job')
    BY <1>5 DEF OneStoreGains
  <2> QED BY <2>1, NewInOne
<1>8. StoresApart'
  BY <1>1, <1>3, <1>7, StayApart
<1>9. Reading' /\ Caching' /\ Coherent'
  BY <1>3, <1>7, MarkedStep DEF CommandsGoOn
<1> QED BY <1>3, <1>6, <1>8, <1>9 DEF SecretsInv, SecretsTypes

\* One goroutine changes a store, or makes ready to: it takes the mutex, keeps it, or
\* gives it back.
Relocked(u, at) ==
  \/ lock' = lock /\ (Saving(u) <=> at \in {"truncate", "write"})
  \/ lock' = [lock EXCEPT ![ProcOf[u]] = u] /\ lock[ProcOf[u]] = None /\ at \in {"truncate", "write"}
  \/ lock' = [lock EXCEPT ![ProcOf[u]] = None] /\ Saving(u) /\ at \notin {"truncate", "write"}

StoreGains(store, data) ==
  \A k \in Keys :
    /\ aws'[k] \in {0, aws[k]} \/ (store = "aws" /\ aws'[k] = writes' /\ writes' = writes + 1)
    /\ file'.data[k] \in Held("file", k)
    /\ data[k] \in Held("file", k) \/ (store = "file" /\ data[k] = writes' /\ writes' = writes + 1)
    /\ \A p \in Procs : env'[p][k] \in {0, env[p][k]}
         \/ (store = "env" /\ env'[p][k] = writes' /\ writes' = writes + 1)

\* A step of one goroutine with its bookkeeping keeps the invariant.
LEMMA OneMarked ==
  ASSUME SecretsAssumption, SecretsInv, StoreTypes', conf' = conf, NEW u \in Users,
         job[u].at \notin {"idle", "invalidate", "cache"},
         NEW j \in Jobs, JobShape(j), j.at # "idle" => j.keys = job[u].keys, NEW writer \in {u, None},
         writer = u => j.at = "invalidate" \/ (j.at = "cache" /\ j.op # "get"),
         writer = None => j.at \notin {"read", "cache"},
         Relocked(u, j.at), NEW store, writes' \in {writes, writes + 1}, StoreGains(store, j.data),
         Mark([job EXCEPT ![u] = j], cache, writer)
  PROVE  SecretsInv'
<1> DEFINE jobs == [job EXCEPT ![u] = j]
<1>1. StoreTypes /\ JobTypes /\ CacheTypes /\ Locks
  BY DEF SecretsInv, SecretsTypes
<1>2. jobs \in [Users -> Jobs] /\ jobs[u] = j /\ \A v \in Users : v # u => jobs[v] = job[v]
  BY <1>1 DEF JobTypes
<1>3. Mark(jobs, cache, writer)
  OBVIOUS
<1> HIDE DEF jobs
<1>4. cache \in [Procs -> [Keys -> Entries]]
  BY <1>1 DEF CacheTypes
<1>5. CommandsGoOn(jobs, cache, writer)
  <2>1. \A v \in Users : JobShape(jobs[v])
    BY <1>1, <1>2 DEF JobTypes
  <2>2. \A v \in Users : jobs[v].at # "idle" => job[v].at # "idle" /\ jobs[v].keys = job[v].keys
    BY <1>2
  <2>3. \A v \in Users : v # writer => jobs[v] = job[v] \/ jobs[v].at \notin {"read", "cache"}
    BY <1>2
  <2>4. \A v \in Users : MidChange(v) => jobs[v] = job[v]
    BY <1>2 DEF MidChange
  <2>5. writer # None =>
          jobs[writer].at = "invalidate" \/ (jobs[writer].at = "cache" /\ jobs[writer].op # "get")
    BY <1>2
  <2> QED BY <2>1, <2>2, <2>3, <2>4, <2>5 DEF CommandsGoOn
<1>10. writer \in Users \cup {None}
  OBVIOUS
<1>11. ProcOf[u] \in Procs /\ u # None /\ \A v \in Users : v # None /\ ProcOf[v] \in Procs
  BY DEF SecretsAssumption
<1>12. LocksGoOn(jobs)
  <2>1. /\ lock \in [Procs -> Users \cup {None}]
        /\ \A p \in Procs : lock[p] # None => /\ ProcOf[lock[p]] = p /\ job[lock[p]].at \in {"truncate", "write"}
                                              /\ lock[p] \in Users
        /\ \A v \in Users : job[v].at \in {"truncate", "write"} => lock[ProcOf[v]] = v
    BY <1>1 DEF Locks, Saving
  <2>2. CASE lock' = lock /\ (Saving(u) <=> j.at \in {"truncate", "write"})
    <3>1. \A v \in Users : jobs[v].at \in {"truncate", "write"} <=> job[v].at \in {"truncate", "write"}
      BY <1>2, <2>2 DEF Saving
    <3> QED BY <2>1, <2>2, <3>1 DEF LocksGoOn
  <2>3. CASE lock' = [lock EXCEPT ![ProcOf[u]] = u] /\ lock[ProcOf[u]] = None /\ j.at \in {"truncate", "write"}
    <3>1. /\ lock' \in [Procs -> Users \cup {None}] /\ lock'[ProcOf[u]] = u
          /\ \A p \in Procs : p # ProcOf[u] => lock'[p] = lock[p]
      BY <1>11, <2>1, <2>3
    <3>2. \A v \in Users : v # u /\ job[v].at \in {"truncate", "write"} => ProcOf[v] # ProcOf[u]
      BY <1>11, <2>1, <2>3
    <3> QED BY <1>2, <1>11, <2>1, <2>3, <3>1, <3>2 DEF LocksGoOn
  <2>4. CASE lock' = [lock EXCEPT ![ProcOf[u]] = None] /\ Saving(u) /\ j.at \notin {"truncate", "write"}
    <3>1. /\ lock' \in [Procs -> Users \cup {None}] /\ lock'[ProcOf[u]] = None
          /\ \A p \in Procs : p # ProcOf[u] => lock'[p] = lock[p]
      BY <1>11, <2>1, <2>4
    <3>2. \A v \in Users : v # u /\ job[v].at \in {"truncate", "write"} => ProcOf[v] # ProcOf[u]
      BY <1>11, <2>1, <2>4 DEF Saving
    <3> QED BY <1>2, <1>11, <2>1, <2>4, <3>1, <3>2 DEF LocksGoOn
  <2> QED BY <2>2, <2>3, <2>4 DEF Relocked
<1>13. OneStoreGains(store, jobs)
  <2>1. \A k \in Keys, v \in Users : job[v].data[k] \in Held("file", k)
    BY DEF Held
  <2> QED BY <1>2, <2>1 DEF OneStoreGains, StoreGains
<1> QED BY <1>2, <1>3, <1>4, <1>5, <1>10, <1>12, <1>13, MarkedKeeps

\* What becomes of the command: it fails, it goes on to the cache, or it goes on to
\* the removal of the entry.
StoredJob(u, v) == [job[u] EXCEPT !.at = "cache", !.val = v, !.data = NoFile]

\* A command whose value was stored has what the stage of the cache needs.
LEMMA StoredTypes ==
  ASSUME SecretsAssumption, JobTypes, NEW u \in Users, job[u].at # "idle", job[u].op \in {"set", "init"},
         NEW v \in Values, v # 0
  PROVE  LET j == StoredJob(u, v)
         IN  /\ j \in Jobs /\ JobShape(j) /\ j.at = "cache" /\ j.op # "get" /\ j.keys = job[u].keys
             /\ j.data = NoFile
<1> DEFINE j == StoredJob(u, v)
<1>1. job[u] \in Jobs /\ JobShape(job[u])
  BY DEF JobTypes
<1>2. NoFile \in [Keys -> Values] /\ "cache" \in JobStages
  BY IdleTypes DEF JobStages
<1>3. /\ j \in Jobs /\ j.at = "cache" /\ j.op = job[u].op /\ j.keys = job[u].keys /\ j.data = NoFile
      /\ j.val = v
  BY <1>1, <1>2 DEF Jobs, StoredJob
<1> HIDE DEF j
<1>4. JobShape(j)
  BY <1>1, <1>3 DEF JobShape
<1> QED BY <1>3, <1>4 DEF j

\* A command whose secret was deleted has what the removal needs.
LEMMA RemovingTypes ==
  ASSUME SecretsAssumption, JobTypes, NEW u \in Users, job[u].at # "idle",
         NEW j \in {[job[u] EXCEPT !.at = "invalidate"], [job[u] EXCEPT !.at = "invalidate", !.data = NoFile]}
  PROVE  /\ j \in Jobs /\ JobShape(j) /\ j.at = "invalidate" /\ j.keys = job[u].keys
         /\ j.data \in {NoFile, job[u].data}
<1>1. job[u] \in Jobs /\ JobShape(job[u])
  BY DEF JobTypes
<1>2. NoFile \in [Keys -> Values] /\ "invalidate" \in JobStages
  BY IdleTypes DEF JobStages
<1>3. /\ j \in Jobs /\ j.at = "invalidate" /\ j.op = job[u].op /\ j.keys = job[u].keys
      /\ j.data \in {NoFile, job[u].data}
  BY <1>1, <1>2 DEF Jobs
<1>4. JobShape(j)
  BY <1>1, <1>3 DEF JobShape
<1> QED BY <1>3, <1>4

\* Failures stay within their bound.
LEMMA FailTypes ==
  ASSUME SecretsAssumption, StoreTypes, NEW fails \in BOOLEAN, fails => CanFail, Fail(fails)
  PROVE  failures' \in 0 .. MaxFailures
BY DEF StoreTypes, Fail, CanFail, SecretsAssumption

\* The next value is one the bound allows, and new.
LEMMA NextValue ==
  ASSUME SecretsAssumption, StoreTypes, writes < MaxWrites
  PROVE  writes + 1 \in Values /\ writes + 1 # 0 /\ writes \in Values
BY DEF StoreTypes, Values, SecretsAssumption

\* AWS gets a new secret, or the command goes on to an update.
LEMMA CreateKeeps ==
  ASSUME SecretsAssumption, SecretsInv, NEW u \in Users, CreateSecret(u)
  PROVE  SecretsInv'
<1>0. StoreTypes /\ JobTypes
  BY DEF SecretsInv, SecretsTypes
<1>1. /\ job[u].at = "set" /\ ~Saving(u) /\ ~MidChange(u) /\ job[u].at \notin {"idle", "invalidate", "cache"}
      /\ UNCHANGED <<conf, rotating, file, env, lock>> /\ writes < MaxWrites
  BY DEF CreateSecret, Saving, MidChange
<1>2. job[u] \in Jobs /\ JobShape(job[u]) /\ job[u].op \in {"set", "init"}
  BY <1>0, <1>1 DEF JobTypes, JobShape
<1>3. key(u) \in Keys
  BY <1>0, <1>1, KeyTypes
<1>4. CASE /\ writes' = writes + 1 /\ aws' = [aws EXCEPT ![key(u)] = writes'] /\ Stored(u, writes')
           /\ failures' = failures
  <2>1. writes' \in Values /\ writes' # 0
    BY <1>0, <1>1, <1>4, NextValue
  <2>2. StoreTypes'
    BY <1>0, <1>1, <1>3, <1>4, <2>1 DEF StoreTypes
  <2> DEFINE j == StoredJob(u, writes')
  <2>3. Mark([job EXCEPT ![u] = j], cache, u)
    BY <1>4 DEF Stored, StoredJob
  <2>4. j \in Jobs /\ JobShape(j) /\ j.at = "cache" /\ j.op # "get" /\ j.keys = job[u].keys /\ j.data = NoFile
    BY <1>0, <1>1, <1>2, <2>1, StoredTypes
  <2> HIDE DEF j
  <2>5. StoreGains("aws", j.data)
    BY <1>0, <1>1, <1>3, <1>4, <2>4 DEF StoreGains, Held, NoFile, StoreTypes
  <2>6. Relocked(u, j.at)
    BY <1>1, <2>4 DEF Relocked
  <2>7. u \in {u, None} /\ (u = None => j.at \notin {"read", "cache"}) /\ writes' \in {writes, writes + 1}
    BY <1>4 DEF SecretsAssumption
  <2> QED BY <1>1, <2>2, <2>3, <2>4, <2>5, <2>6, <2>7, OneMarked
<1>5. CASE job' = [job EXCEPT ![u].at = "update"] /\ UNCHANGED <<writes, aws, cache>> /\ failures' \in 0 .. MaxFailures
  <2> DEFINE j == [job[u] EXCEPT !.at = "update"]
  <2>1. job' = [job EXCEPT ![u] = j] /\ rotating' \subseteq Keys
    BY <1>0, <1>1, <1>5 DEF StoreTypes
  <2>2. "update" \in JobStages
    BY DEF JobStages
  <2>3. j \in Jobs /\ j.at = "update" /\ j.keys = job[u].keys /\ j.op = job[u].op /\ j.data = job[u].data
    BY <1>2, <2>2 DEF Jobs
  <2> HIDE DEF j
  <2>4. JobShape(j)
    BY <1>1, <1>2, <2>3 DEF JobShape
  <2>5. j.at \notin {"read", "cache", "truncate", "write"} /\ j.data \in {NoFile, job[u].data}
    BY <2>3
  <2> QED BY <1>1, <1>5, <2>1, <2>3, <2>4, <2>5, CacheStays, UnmarkedKeeps
<1>6. \/ /\ writes' = writes + 1 /\ aws' = [aws EXCEPT ![key(u)] = writes'] /\ Stored(u, writes')
         /\ failures' = failures
      \/ job' = [job EXCEPT ![u].at = "update"] /\ UNCHANGED <<writes, aws, cache>> /\ failures' \in 0 .. MaxFailures
  <2>1. ASSUME aws[key(u)] # 0 \/ CanFail, Fail(aws[key(u)] = 0) PROVE failures' \in 0 .. MaxFailures
    BY <1>0, <2>1, FailTypes
  <2> QED BY <2>1 DEF CreateSecret
<1> QED BY <1>4, <1>5, <1>6

\* A failed command ends; what it changed all the same is bookkept.
LEMMA FailedKeeps ==
  ASSUME SecretsAssumption, SecretsInv, StoreTypes', conf' = conf, NEW u \in Users,
         job[u].at \notin {"idle", "invalidate", "cache"}, Relocked(u, "idle"),
         NEW store, writes' \in {writes, writes + 1}, StoreGains(store, NoFile), MarkFailed(u)
  PROVE  SecretsInv'
<1>1. Idle \in Jobs /\ JobShape(Idle) /\ Idle.at = "idle" /\ Idle.data = NoFile
  BY IdleTypes
<1>2. Mark([job EXCEPT ![u] = Idle], cache, None)
  BY DEF MarkFailed
<1>3. u # None /\ None \in {u, None}
  BY DEF SecretsAssumption
<1>4. Relocked(u, Idle.at) /\ StoreGains(store, Idle.data)
  BY <1>1
<1> HIDE DEF Idle
<1> QED BY <1>1, <1>2, <1>3, <1>4, OneMarked

\* AWS gets another value; an answer may be lost.
LEMMA UpdateKeeps ==
  ASSUME SecretsAssumption, SecretsInv, NEW u \in Users, UpdateSecret(u)
  PROVE  SecretsInv'
<1>0. StoreTypes /\ JobTypes
  BY DEF SecretsInv, SecretsTypes
<1>1. /\ job[u].at = "update" /\ ~Saving(u) /\ job[u].at \notin {"idle", "invalidate", "cache"}
      /\ UNCHANGED <<conf, rotating, file, env, lock>>
  BY DEF UpdateSecret, Saving
<1>2. job[u] \in Jobs /\ JobShape(job[u]) /\ job[u].op \in {"set", "init"}
  BY <1>0, <1>1 DEF JobTypes, JobShape
<1>3. key(u) \in Keys
  BY <1>0, <1>1, KeyTypes
<1>4. PICK applied \in BOOLEAN, fails \in BOOLEAN :
       /\ applied => aws[key(u)] # 0 /\ writes < MaxWrites
       /\ fails => CanFail
       /\ Fail(fails)
       /\ writes' = writes + IF applied THEN 1 ELSE 0
       /\ aws' = IF applied THEN [aws EXCEPT ![key(u)] = writes'] ELSE aws
       /\ IF applied /\ ~fails THEN Stored(u, writes') ELSE MarkFailed(u)
  BY DEF UpdateSecret
<1>5. failures' \in 0 .. MaxFailures
  BY <1>0, <1>4, FailTypes
<1>6. writes \in Values /\ writes \in Nat
  BY <1>0 DEF StoreTypes, Values
<1>7. writes' \in Values /\ (applied => writes' # 0 /\ writes' = writes + 1) /\ (~applied => writes' = writes)
  BY <1>0, <1>4, <1>6, NextValue
<1>8. StoreTypes'
  BY <1>0, <1>1, <1>3, <1>4, <1>5, <1>7 DEF StoreTypes
<1>9. writes' \in {writes, writes + 1}
  BY <1>7
<1>10. StoreGains("aws", NoFile)
  <2>1. CASE applied
    BY <1>0, <1>1, <1>3, <1>4, <1>7, <2>1 DEF StoreGains, Held, NoFile, StoreTypes
  <2>2. CASE ~applied
    BY <1>1, <1>4, <2>2 DEF StoreGains, Held, NoFile
  <2> QED BY <2>1, <2>2
<1>11. CASE applied /\ ~fails
  <2> DEFINE j == StoredJob(u, writes')
  <2>1. Mark([job EXCEPT ![u] = j], cache, u)
    BY <1>4, <1>11 DEF Stored, StoredJob
  <2>2. j \in Jobs /\ JobShape(j) /\ j.at = "cache" /\ j.op # "get" /\ j.keys = job[u].keys /\ j.data = NoFile
    BY <1>0, <1>1, <1>2, <1>7, <1>11, StoredTypes
  <2> HIDE DEF j
  <2>3. Relocked(u, j.at)
    BY <1>1, <2>2 DEF Relocked
  <2>4. u \in {u, None} /\ (u = None => j.at \notin {"read", "cache"})
    BY DEF SecretsAssumption
  <2> QED BY <1>1, <1>8, <1>9, <1>10, <2>1, <2>2, <2>3, <2>4, OneMarked
<1>12. CASE ~(applied /\ ~fails)
  <2>1. Relocked(u, "idle")
    BY <1>1 DEF Relocked
  <2>2. MarkFailed(u)
    BY <1>4, <1>12
  <2> QED BY <1>1, <1>8, <1>9, <1>10, <2>1, <2>2, FailedKeeps
<1> QED BY <1>11, <1>12

\* The environment of a process gets a value, or loses one.
LEMMA SetEnvKeeps ==
  ASSUME SecretsAssumption, SecretsInv, NEW u \in Users, SetEnv(u)
  PROVE  SecretsInv'
<1>0. StoreTypes /\ JobTypes
  BY DEF SecretsInv, SecretsTypes
<1>1. /\ job[u].at \in {"set", "delete"} /\ ~Saving(u) /\ job[u].at \notin {"idle", "invalidate", "cache"}
      /\ UNCHANGED <<conf, aws, rotating, file, lock, failures>>
  BY DEF SetEnv, Saving
<1>2. job[u] \in Jobs /\ JobShape(job[u])
  BY <1>0 DEF JobTypes
<1>3. key(u) \in Keys /\ ProcOf[u] \in Procs
  BY <1>0, <1>1, KeyTypes
<1> DEFINE v == IF job[u].at = "set" THEN writes + 1 ELSE 0
<1>4. /\ v <= MaxWrites
      /\ writes' = IF v = 0 THEN writes ELSE v
      /\ env' = [env EXCEPT ![ProcOf[u]][key(u)] = v]
      /\ IF v # 0 THEN Stored(u, v) ELSE Mark([job EXCEPT ![u].at = "invalidate"], cache, u)
  BY DEF SetEnv
<1>5. /\ writes \in Nat /\ v \in Values /\ (job[u].at = "set" <=> v # 0) /\ (v # 0 => v = writes + 1)
  BY <1>0, <1>4 DEF StoreTypes, Values, SecretsAssumption
<1> HIDE DEF v
<1>6. writes' \in Values /\ (v # 0 => writes' = v /\ writes' = writes + 1) /\ (v = 0 => writes' = writes)
  BY <1>0, <1>4, <1>5 DEF StoreTypes
<1>7. /\ env' \in [Procs -> [Keys -> Values]] /\ env'[ProcOf[u]][key(u)] = v
      /\ \A p \in Procs, k \in Keys : p # ProcOf[u] \/ k # key(u) => env'[p][k] = env[p][k]
  BY <1>0, <1>3, <1>4, <1>5 DEF StoreTypes
<1>8. StoreTypes'
  BY <1>0, <1>1, <1>6, <1>7 DEF StoreTypes
<1>9. writes' \in {writes, writes + 1}
  BY <1>6
<1>10. \A data : data \in {NoFile, job[u].data} => StoreGains("env", data)
  <2> SUFFICES ASSUME NEW data \in {NoFile, job[u].data}, NEW k \in Keys
               PROVE  /\ aws'[k] \in {0, aws[k]} /\ file'.data[k] \in Held("file", k)
                      /\ data[k] \in Held("file", k)
                      /\ \A p \in Procs : env'[p][k] \in {0, env[p][k]}
                            \/ (env'[p][k] = writes' /\ writes' = writes + 1)
    BY DEF StoreGains
  <2>1. data[k] \in Held("file", k) /\ file.data[k] \in Held("file", k)
    BY DEF Held, NoFile
  <2>2. \A p \in Procs : env'[p][k] \in {0, env[p][k]} \/ (env'[p][k] = writes' /\ writes' = writes + 1)
    BY <1>6, <1>7
  <2> QED BY <1>1, <2>1, <2>2
<1>11. u \in {u, None} /\ u # None
  BY DEF SecretsAssumption
<1>12. CASE v # 0
  <2> DEFINE j == StoredJob(u, v)
  <2>1. Mark([job EXCEPT ![u] = j], cache, u)
    BY <1>4, <1>12 DEF Stored, StoredJob
  <2>2. job[u].op \in {"set", "init"}
    BY <1>2, <1>5, <1>12 DEF JobShape
  <2>3. j \in Jobs /\ JobShape(j) /\ j.at = "cache" /\ j.op # "get" /\ j.keys = job[u].keys /\ j.data = NoFile
    BY <1>0, <1>1, <1>5, <1>12, <2>2, StoredTypes
  <2> HIDE DEF j
  <2>4. Relocked(u, j.at)
    BY <1>1, <2>3 DEF Relocked
  <2>5. StoreGains("env", j.data)
    BY <1>10, <2>3
  <2> QED BY <1>1, <1>8, <1>9, <1>11, <2>1, <2>3, <2>4, <2>5, OneMarked
<1>13. CASE v = 0
  <2> DEFINE j == [job[u] EXCEPT !.at = "invalidate"]
  <2>1. [job EXCEPT ![u].at = "invalidate"] = [job EXCEPT ![u] = j]
    OBVIOUS
  <2>2. Mark([job EXCEPT ![u] = j], cache, u)
    BY <1>4, <1>13, <2>1
  <2>3. j \in Jobs /\ JobShape(j) /\ j.at = "invalidate" /\ j.keys = job[u].keys /\ j.data \in {NoFile, job[u].data}
    BY <1>0, <1>1, RemovingTypes
  <2> HIDE DEF j
  <2>4. Relocked(u, j.at)
    BY <1>1, <2>3 DEF Relocked
  <2>5. StoreGains("env", j.data)
    BY <1>10, <2>3
  <2> QED BY <1>1, <1>8, <1>9, <1>11, <2>2, <2>3, <2>4, <2>5, OneMarked
<1> QED BY <1>12, <1>13

\* AWS loses a secret; an answer may be lost.
LEMMA DeleteKeeps ==
  ASSUME SecretsAssumption, SecretsInv, NEW u \in Users, DeleteAWS(u)
  PROVE  SecretsInv'
<1>0. StoreTypes /\ JobTypes
  BY DEF SecretsInv, SecretsTypes
<1>1. /\ job[u].at = "delete" /\ ~Saving(u) /\ job[u].at \notin {"idle", "invalidate", "cache"}
      /\ UNCHANGED <<conf, rotating, file, env, lock, writes>>
  BY DEF DeleteAWS, Saving
<1>2. key(u) \in Keys
  BY <1>0, <1>1, KeyTypes
<1>3. PICK applied \in BOOLEAN, fails \in BOOLEAN :
       /\ fails => CanFail
       /\ Fail(fails)
       /\ aws' = IF applied THEN [aws EXCEPT ![key(u)] = 0] ELSE aws
       /\ IF applied /\ ~fails THEN Mark([job EXCEPT ![u].at = "invalidate"], cache, u) ELSE MarkFailed(u)
  BY DEF DeleteAWS
<1>4. failures' \in 0 .. MaxFailures
  BY <1>0, <1>3, FailTypes
<1>5. StoreTypes'
  BY <1>0, <1>1, <1>2, <1>3, <1>4, IdleTypes DEF StoreTypes
<1>6. \A data : data \in {NoFile, job[u].data} => StoreGains("aws", data)
  <2> SUFFICES ASSUME NEW data \in {NoFile, job[u].data}, NEW k \in Keys
               PROVE  /\ aws'[k] \in {0, aws[k]} /\ file'.data[k] \in Held("file", k)
                      /\ data[k] \in Held("file", k)
                      /\ \A p \in Procs : env'[p][k] \in {0, env[p][k]}
    BY DEF StoreGains
  <2>1. data[k] \in Held("file", k) /\ file.data[k] \in Held("file", k)
    BY DEF Held, NoFile
  <2>2. aws'[k] \in {0, aws[k]}
    BY <1>0, <1>2, <1>3 DEF StoreTypes
  <2> QED BY <1>1, <2>1, <2>2
<1>7. writes' \in {writes, writes + 1} /\ u \in {u, None} /\ u # None
  BY <1>1 DEF SecretsAssumption
<1>8. CASE applied /\ ~fails
  <2> DEFINE j == [job[u] EXCEPT !.at = "invalidate"]
  <2>1. [job EXCEPT ![u].at = "invalidate"] = [job EXCEPT ![u] = j]
    OBVIOUS
  <2>2. Mark([job EXCEPT ![u] = j], cache, u)
    BY <1>3, <1>8, <2>1
  <2>3. j \in Jobs /\ JobShape(j) /\ j.at = "invalidate" /\ j.keys = job[u].keys /\ j.data \in {NoFile, job[u].data}
    BY <1>0, <1>1, RemovingTypes
  <2> HIDE DEF j
  <2>4. Relocked(u, j.at)
    BY <1>1, <2>3 DEF Relocked
  <2>5. StoreGains("aws", j.data)
    BY <1>6, <2>3
  <2> QED BY <1>1, <1>5, <1>7, <2>2, <2>3, <2>4, <2>5, OneMarked
<1>9. CASE ~(applied /\ ~fails)
  <2>1. Relocked(u, "idle") /\ StoreGains("aws", NoFile)
    BY <1>1, <1>6 DEF Relocked
  <2>2. MarkFailed(u)
    BY <1>3, <1>9
  <2> QED BY <1>1, <1>5, <1>7, <2>1, <2>2, FailedKeeps
<1> QED BY <1>8, <1>9

\* AWS rotates a secret, if it still has it.
LEMMA RotatedKeeps ==
  ASSUME SecretsAssumption, SecretsInv, Rotated
  PROVE  SecretsInv'
<1>0. StoreTypes /\ JobTypes /\ CacheTypes /\ Locks
  BY DEF SecretsInv, SecretsTypes
<1>1. /\ UNCHANGED <<conf, file, env, lock, failures>> /\ writes < MaxWrites /\ Mark(job, cache, None)
  BY DEF Rotated
<1>2. PICK k \in rotating :
       /\ rotating' = rotating \ {k}
       /\ writes' = writes + 1
       /\ aws' = IF aws[k] = 0 THEN aws ELSE [aws EXCEPT ![k] = writes']
  BY DEF Rotated
<1>3. writes' \in Values /\ writes' \in {writes, writes + 1} /\ k \in Keys
  BY <1>0, <1>1, <1>2, NextValue DEF StoreTypes
<1>4. StoreTypes'
  BY <1>0, <1>1, <1>2, <1>3 DEF StoreTypes
<1>5. OneStoreGains("aws", job)
  BY <1>0, <1>1, <1>2, <1>3 DEF OneStoreGains, Held, StoreTypes
<1>6. CommandsGoOn(job, cache, None)
  BY <1>0 DEF CommandsGoOn, JobTypes
<1>7. LocksGoOn(job)
  BY <1>0, <1>1 DEF LocksGoOn, Locks, Saving
<1>8. job \in [Users -> Jobs] /\ cache \in [Procs -> [Keys -> Entries]] /\ None \in Users \cup {None}
  BY <1>0 DEF JobTypes, CacheTypes
<1> QED BY <1>1, <1>3, <1>4, <1>5, <1>6, <1>7, <1>8, MarkedKeeps

-----------------------------------------------------------------------------
(* The secrets file, and a process that starts again.                        *)

\* What is loaded is in the file, or nothing.
Loaded == IF file.state = "whole" THEN file.data ELSE NoFile

\* A goroutine that is to save the file, with its secret changed to v.
Saver(u, v) == [job[u] EXCEPT !.at = "truncate", !.val = v, !.data = [Loaded EXCEPT ![key(u)] = v]]

\* That goroutine has what the stage needs, and its data are what is in the file but
\* for its secret.
LEMMA SaverTypes ==
  ASSUME SecretsAssumption, StoreTypes, JobTypes, NEW u \in Users, job[u].at # "idle", NEW v \in Values,
         v # 0 => job[u].op \in {"set", "init"}
  PROVE  LET j == Saver(u, v)
         IN  /\ j \in Jobs /\ JobShape(j) /\ j.at = "truncate" /\ j.keys = job[u].keys /\ j.val = v
             /\ j.data = [Loaded EXCEPT ![key(u)] = v]
             /\ \A k \in Keys : j.data[k] \in Held("file", k) \/ j.data[k] = v
<1> DEFINE j == Saver(u, v)
<1>1. job[u] \in Jobs /\ JobShape(job[u])
  BY DEF JobTypes
<1>2. Loaded \in [Keys -> Values] /\ \A k \in Keys : Loaded[k] \in Held("file", k)
  BY IdleTypes DEF StoreTypes, Loaded, Held, NoFile
<1>3. "truncate" \in JobStages /\ key(u) \in Keys
  BY KeyTypes DEF JobStages
<1> HIDE DEF Loaded
<1> DEFINE d == [Loaded EXCEPT ![key(u)] = v]
<1>4. d \in [Keys -> Values] /\ \A k \in Keys : d[k] \in Held("file", k) \/ d[k] = v
  BY <1>2, <1>3
<1>5. j = [job[u] EXCEPT !.at = "truncate", !.val = v, !.data = d]
  BY DEF Saver
<1> HIDE DEF d, j
<1>6. /\ j \in Jobs /\ j.at = "truncate" /\ j.op = job[u].op /\ j.keys = job[u].keys /\ j.data = d
      /\ j.val = v
  BY <1>1, <1>3, <1>4, <1>5 DEF Jobs
<1>7. JobShape(j)
  BY <1>1, <1>6 DEF JobShape
<1> QED BY <1>4, <1>6, <1>7 DEF d, j

\* The file is loaded, and the mutex taken.
LEMMA LoadKeeps ==
  ASSUME SecretsAssumption, SecretsInv, NEW u \in Users, LoadFile(u)
  PROVE  SecretsInv'
<1>0. StoreTypes /\ JobTypes
  BY DEF SecretsInv, SecretsTypes
<1>1. /\ job[u].at \in {"set", "delete"} /\ ~Saving(u) /\ job[u].at \notin {"idle", "invalidate", "cache"}
      /\ UNCHANGED <<conf, aws, rotating, file, env, failures>> /\ lock[ProcOf[u]] = None
  BY DEF LoadFile, Lockable, Saving
<1>2. job[u].at = "set" => job[u].op \in {"set", "init"}
  BY <1>0 DEF JobTypes, JobShape
<1>3. \/ /\ job[u].at = "set" /\ writes < MaxWrites /\ writes' = writes + 1
         /\ lock' = [lock EXCEPT ![ProcOf[u]] = u] /\ Mark([job EXCEPT ![u] = Saver(u, writes')], cache, None)
      \/ writes' = writes /\ lock' = lock /\ MarkFailed(u)
      \/ /\ writes' = writes /\ lock' = [lock EXCEPT ![ProcOf[u]] = u]
         /\ Mark([job EXCEPT ![u] = Saver(u, 0)], cache, None)
  BY DEF LoadFile, Saver, Loaded
<1>4. writes \in Values /\ u # None /\ None \in {u, None}
  BY <1>0 DEF StoreTypes, SecretsAssumption
<1>5. CASE writes' = writes /\ lock' = lock /\ MarkFailed(u)
  <2>1. StoreTypes' /\ Relocked(u, "idle") /\ writes' \in {writes, writes + 1}
    BY <1>0, <1>1, <1>5 DEF StoreTypes, Relocked
  <2>2. StoreGains("file", NoFile)
    BY <1>1 DEF StoreGains, Held, NoFile
  <2> QED BY <1>1, <1>5, <2>1, <2>2, FailedKeeps
<1>6. ASSUME NEW v \in Values, v # 0 => job[u].op \in {"set", "init"} /\ v = writes' /\ writes' = writes + 1,
             writes' \in Values, writes' \in {writes, writes + 1}, lock' = [lock EXCEPT ![ProcOf[u]] = u],
             Mark([job EXCEPT ![u] = Saver(u, v)], cache, None)
      PROVE  SecretsInv'
  <2> DEFINE j == Saver(u, v)
  <2>1. /\ j \in Jobs /\ JobShape(j) /\ j.at = "truncate" /\ j.keys = job[u].keys
        /\ \A k \in Keys : j.data[k] \in Held("file", k) \/ j.data[k] = v
    BY <1>0, <1>1, <1>6, SaverTypes
  <2>2. Mark([job EXCEPT ![u] = j], cache, None)
    BY <1>6
  <2> HIDE DEF j
  <2>3. StoreTypes'
    BY <1>0, <1>1, <1>6 DEF StoreTypes
  <2>4. Relocked(u, j.at)
    BY <1>1, <1>6, <2>1 DEF Relocked
  <2>5. StoreGains("file", j.data)
    BY <1>1, <1>6, <2>1 DEF StoreGains, Held
  <2>6. None = u => j.at = "invalidate" \/ (j.at = "cache" /\ j.op # "get")
    BY <1>4
  <2>7. j.at \notin {"read", "cache"}
    BY <2>1
  <2> QED BY <1>1, <1>4, <1>6, <2>1, <2>2, <2>3, <2>4, <2>5, <2>6, <2>7, OneMarked
<1>7. CASE /\ job[u].at = "set" /\ writes < MaxWrites /\ writes' = writes + 1
           /\ lock' = [lock EXCEPT ![ProcOf[u]] = u] /\ Mark([job EXCEPT ![u] = Saver(u, writes')], cache, None)
  <2>1. writes' \in Values /\ writes' # 0 /\ writes' \in {writes, writes + 1}
    BY <1>0, <1>7, NextValue
  <2> QED BY <1>2, <1>6, <1>7, <2>1
<1>8. CASE /\ writes' = writes /\ lock' = [lock EXCEPT ![ProcOf[u]] = u]
           /\ Mark([job EXCEPT ![u] = Saver(u, 0)], cache, None)
  <2>1. 0 \in Values /\ writes' \in Values /\ writes' \in {writes, writes + 1}
    BY <1>4, <1>8, IdleTypes
  <2> QED BY <1>6, <1>8, <2>1
<1> QED BY <1>3, <1>5, <1>7, <1>8

\* The file is truncated.
LEMMA TruncateKeeps ==
  ASSUME SecretsAssumption, SecretsInv, NEW u \in Users, TruncateFile(u)
  PROVE  SecretsInv'
<1>0. StoreTypes /\ JobTypes
  BY DEF SecretsInv, SecretsTypes
<1>1. /\ job[u].at = "truncate" /\ Saving(u) /\ job[u].at \notin {"idle", "invalidate", "cache"}
      /\ file' = [file EXCEPT !.state = "truncated"]
      /\ UNCHANGED <<conf, aws, rotating, env, lock, writes, failures>>
      /\ Mark([job EXCEPT ![u].at = "write"], cache, None)
  BY DEF TruncateFile, Saving
<1>2. job[u] \in Jobs /\ JobShape(job[u]) /\ u # None
  BY <1>0 DEF JobTypes, SecretsAssumption
<1>3. "write" \in JobStages
  BY DEF JobStages
<1> DEFINE j == [job[u] EXCEPT !.at = "write"]
<1>4. [job EXCEPT ![u].at = "write"] = [job EXCEPT ![u] = j]
  OBVIOUS
<1>5. Mark([job EXCEPT ![u] = j], cache, None)
  BY <1>1, <1>4
<1>6. /\ j \in Jobs /\ j.at = "write" /\ j.keys = job[u].keys /\ j.op = job[u].op /\ j.data = job[u].data
      /\ j.val = job[u].val
  BY <1>2, <1>3 DEF Jobs
<1> HIDE DEF j
<1>7. JobShape(j)
  BY <1>1, <1>2, <1>6 DEF JobShape
<1>8. StoreTypes' /\ file'.data = file.data
  BY <1>0, <1>1 DEF StoreTypes
<1>9. Relocked(u, j.at) /\ writes' \in {writes, writes + 1} /\ j.at \notin {"read", "cache"} /\ None \in {u, None}
  BY <1>1, <1>6 DEF Relocked
<1>10. StoreGains("file", j.data)
  BY <1>1, <1>6, <1>8 DEF StoreGains, Held
<1>11. conf' = conf /\ (j.at # "idle" => j.keys = job[u].keys)
       /\ (None = u => j.at = "invalidate" \/ (j.at = "cache" /\ j.op # "get"))
  BY <1>1, <1>2, <1>6
<1> QED BY <1>1, <1>5, <1>6, <1>7, <1>8, <1>9, <1>10, <1>11, OneMarked

\* The file is written, and the mutex given back.
LEMMA WriteKeeps ==
  ASSUME SecretsAssumption, SecretsInv, NEW u \in Users, WriteFile(u)
  PROVE  SecretsInv'
<1>0. StoreTypes /\ JobTypes
  BY DEF SecretsInv, SecretsTypes
<1>1. /\ job[u].at = "write" /\ Saving(u) /\ job[u].at \notin {"idle", "invalidate", "cache"}
      /\ UNCHANGED <<conf, aws, rotating, env, writes>> /\ lock' = [lock EXCEPT ![ProcOf[u]] = None]
  BY DEF WriteFile, Saving
<1>2. job[u] \in Jobs /\ JobShape(job[u]) /\ u # None
  BY <1>0 DEF JobTypes, SecretsAssumption
<1>3. job[u].data \in [Keys -> Values] /\ job[u].val \in Values /\ NoFile \in [Keys -> Values]
      /\ (job[u].val # 0 => job[u].op \in {"set", "init"})
  BY <1>1, <1>2, IdleTypes DEF Jobs, JobShape
<1>4. writes' \in {writes, writes + 1} /\ None \in {u, None} /\ u \in {u, None}
  BY <1>1
<1>5. ASSUME NEW d \in {job[u].data, NoFile}, file'.data = d
      PROVE  StoreGains("file", NoFile)
  BY <1>1, <1>5 DEF StoreGains, Held, NoFile
<1>6. CASE /\ file' \in {[data |-> job[u].data, state |-> s] : s \in {"whole", "torn"}} /\ failures' = failures
           /\ IF job[u].val # 0 THEN Stored(u, job[u].val)
              ELSE Mark([job EXCEPT ![u].at = "invalidate", ![u].data = NoFile], cache, u)
  <2>1. file'.data = job[u].data /\ file' \in [data : [Keys -> Values], state : {"whole", "truncated", "torn"}]
    BY <1>3, <1>6
  <2>2. StoreTypes'
    BY <1>0, <1>1, <1>6, <2>1 DEF StoreTypes
  <2>3. StoreGains("file", NoFile)
    BY <1>5, <2>1
  <2>4. \E j \in Jobs : /\ JobShape(j) /\ j.keys = job[u].keys /\ j.data = NoFile
                        /\ j.at = "invalidate" \/ (j.at = "cache" /\ j.op # "get")
                        /\ Mark([job EXCEPT ![u] = j], cache, u)
    <3>1. CASE job[u].val # 0
      <4> DEFINE j == StoredJob(u, job[u].val)
      <4>1. Mark([job EXCEPT ![u] = j], cache, u)
        BY <1>6, <3>1 DEF Stored, StoredJob
      <4>2. j \in Jobs /\ JobShape(j) /\ j.at = "cache" /\ j.op # "get" /\ j.keys = job[u].keys /\ j.data = NoFile
        BY <1>0, <1>1, <1>3, <3>1, StoredTypes
      <4> HIDE DEF j
      <4> QED BY <4>1, <4>2
    <3>2. CASE job[u].val = 0
      <4> DEFINE j == [job[u] EXCEPT !.at = "invalidate", !.data = NoFile]
      <4>1. [job EXCEPT ![u].at = "invalidate", ![u].data = NoFile] = [job EXCEPT ![u] = j]
        BY <1>0 DEF JobTypes
      <4>2. Mark([job EXCEPT ![u] = j], cache, u)
        BY <1>6, <3>2, <4>1
      <4>3. j \in Jobs /\ JobShape(j) /\ j.at = "invalidate" /\ j.keys = job[u].keys
        BY <1>0, <1>1, RemovingTypes
      <4>4. j.data = NoFile
        BY <1>2 DEF Jobs
      <4> HIDE DEF j
      <4> QED BY <4>2, <4>3, <4>4
    <3> QED BY <3>1, <3>2
  <2>5. PICK j \in Jobs : /\ JobShape(j) /\ j.keys = job[u].keys /\ j.data = NoFile
                          /\ j.at = "invalidate" \/ (j.at = "cache" /\ j.op # "get")
                          /\ Mark([job EXCEPT ![u] = j], cache, u)
    BY <2>4
  <2>6. Relocked(u, j.at) /\ StoreGains("file", j.data)
    BY <1>1, <2>3, <2>5 DEF Relocked
  <2> QED BY <1>1, <1>2, <1>4, <2>2, <2>5, <2>6, OneMarked
<1>7. CASE file' = [data |-> NoFile, state |-> "torn"] /\ CanFail /\ Fail(TRUE) /\ MarkFailed(u)
  <2>1. failures' \in 0 .. MaxFailures
    BY <1>0, <1>7, FailTypes
  <2>2. StoreTypes' /\ file'.data = NoFile
    BY <1>0, <1>1, <1>3, <1>7, <2>1 DEF StoreTypes
  <2>3. StoreGains("file", NoFile) /\ Relocked(u, "idle")
    BY <1>1, <1>5, <2>2 DEF Relocked
  <2> QED BY <1>1, <1>4, <1>7, <2>2, <2>3, FailedKeeps
<1>8. \/ /\ file' \in {[data |-> job[u].data, state |-> s] : s \in {"whole", "torn"}} /\ failures' = failures
         /\ IF job[u].val # 0 THEN Stored(u, job[u].val)
            ELSE Mark([job EXCEPT ![u].at = "invalidate", ![u].data = NoFile], cache, u)
      \/ file' = [data |-> NoFile, state |-> "torn"] /\ CanFail /\ Fail(TRUE) /\ MarkFailed(u)
  BY DEF WriteFile
<1> QED BY <1>6, <1>7, <1>8

\* A process starts again, with no environment, no mutex and an empty cache.
LEMMA RestartKeeps ==
  ASSUME SecretsAssumption, SecretsInv, NEW p \in Procs, Restart(p)
  PROVE  SecretsInv'
<1>0. StoreTypes /\ JobTypes /\ CacheTypes /\ Locks
  BY DEF SecretsInv, SecretsTypes
<1> DEFINE jobs == [u \in Users |-> IF ProcOf[u] = p THEN Idle ELSE job[u]]
           entries == [cache EXCEPT ![p] = [k \in Keys |-> NoEntry]]
<1>1. /\ file' = file \/ file' \in {[data |-> NoFile, state |-> s] : s \in {"whole", "torn"}}
      /\ lock' = [lock EXCEPT ![p] = None]
      /\ env' = [env EXCEPT ![p] = NoFile]
      /\ UNCHANGED <<conf, aws, rotating, writes, failures>>
      /\ Mark(jobs, entries, None)
  BY DEF Restart
<1>2. /\ jobs \in [Users -> Jobs]
      /\ \A u \in Users : jobs[u] = IF ProcOf[u] = p THEN Idle ELSE job[u]
  BY <1>0, IdleTypes DEF JobTypes
<1>3. /\ entries \in [Procs -> [Keys -> Entries]] /\ \A k \in Keys : ~entries[p][k].fresh
      /\ \A q \in Procs : q # p => entries[q] = cache[q]
  BY <1>0, IdleTypes DEF CacheTypes
<1> HIDE DEF jobs, entries
<1>4. StoreTypes' /\ file'.data \in {NoFile, file.data}
  <2>1. file' \in [data : [Keys -> Values], state : {"whole", "truncated", "torn"}]
        /\ file'.data \in {NoFile, file.data}
    BY <1>0, <1>1, IdleTypes DEF StoreTypes
  <2>2. env' \in [Procs -> [Keys -> Values]]
    BY <1>0, <1>1, IdleTypes DEF StoreTypes
  <2> QED BY <1>0, <1>1, <2>1, <2>2 DEF StoreTypes
<1>5. OneStoreGains("file", jobs)
  <2> SUFFICES ASSUME NEW k \in Keys
               PROVE  /\ aws'[k] \in {0, aws[k]} /\ file'.data[k] \in Held("file", k)
                      /\ \A u \in Users : jobs[u].data[k] \in Held("file", k)
                      /\ \A q \in Procs : env'[q][k] \in {0, env[q][k]}
    BY DEF OneStoreGains
  <2>1. \A u \in Users : jobs[u].data[k] \in Held("file", k)
    BY <1>2, IdleTypes DEF Held, NoFile
  <2>2. file'.data[k] \in Held("file", k)
    BY <1>4 DEF Held, NoFile
  <2>3. \A q \in Procs : env'[q][k] \in {0, env[q][k]}
    BY <1>0, <1>1 DEF StoreTypes, NoFile
  <2> QED BY <1>1, <2>1, <2>2, <2>3
<1>6. CommandsGoOn(jobs, entries, None)
  <2>1. \A u \in Users : JobShape(jobs[u])
    BY <1>0, <1>2, IdleTypes DEF JobTypes
  <2>2. \A u \in Users : jobs[u].at # "idle" => job[u].at # "idle" /\ jobs[u].keys = job[u].keys
    BY <1>2, IdleTypes
  <2>3. \A u \in Users : jobs[u] = job[u] \/ jobs[u].at \notin {"read", "cache"}
    BY <1>2, IdleTypes
  <2>4. \A u \in Users : jobs[u] = job[u] \/ \A k \in Keys : ~entries[ProcOf[u]][k].fresh
    BY <1>2, <1>3
  <2>5. \A q \in Procs, k \in Keys : entries[q][k] = cache[q][k] \/ ~entries[q][k].fresh
    BY <1>3
  <2> QED BY <2>1, <2>2, <2>3, <2>4, <2>5 DEF CommandsGoOn
<1>7. LocksGoOn(jobs)
  <2>1. /\ lock' \in [Procs -> Users \cup {None}] /\ lock'[p] = None /\ \A q \in Procs : q # p => lock'[q] = lock[q]
    BY <1>0, <1>1 DEF Locks
  <2>2. ASSUME NEW q \in Procs, lock'[q] # None
        PROVE  ProcOf[lock'[q]] = q /\ jobs[lock'[q]].at \in {"truncate", "write"}
    <3>1. q # p /\ lock[q] # None /\ lock'[q] = lock[q] /\ lock[q] \in Users
      BY <1>0, <2>1, <2>2 DEF Locks
    <3>2. ProcOf[lock[q]] = q /\ job[lock[q]].at \in {"truncate", "write"}
      BY <1>0, <3>1 DEF Locks, Saving
    <3> QED BY <1>2, <3>1, <3>2
  <2>3. ASSUME NEW u \in Users, jobs[u].at \in {"truncate", "write"} PROVE lock'[ProcOf[u]] = u
    <3>1. ProcOf[u] # p /\ jobs[u] = job[u] /\ ProcOf[u] \in Procs
      BY <1>2, <2>3, IdleTypes DEF SecretsAssumption
    <3> QED BY <1>0, <2>1, <2>3, <3>1 DEF Locks, Saving
  <2> QED BY <2>1, <2>2, <2>3 DEF LocksGoOn
<1>8. writes' \in {writes, writes + 1} /\ None \in Users \cup {None}
  BY <1>1
<1> QED BY <1>1, <1>2, <1>3, <1>4, <1>5, <1>6, <1>7, <1>8, MarkedKeeps

-----------------------------------------------------------------------------
(* The invariant, and what follows from it.                                  *)

\* No process has read or stored anything at the start.
LEMMA SecretsInit == ASSUME SecretsAssumption PROVE Init => SecretsInv
<1> SUFFICES ASSUME Init PROVE SecretsInv
  OBVIOUS
<1>1. 0 \in Values /\ [k \in Keys |-> 0] \in [Keys -> Values] /\ NoFile = [k \in Keys |-> 0]
  BY IdleTypes DEF NoFile
<1>2. MaxWrites \in Nat /\ MaxFailures \in Nat
  BY DEF SecretsAssumption
<1>3. file \in [data : [Keys -> Values], state : {"whole", "truncated", "torn"}]
  BY <1>1 DEF Init
<1>4. env \in [Procs -> [Keys -> Values]] /\ aws \in [Keys -> Values]
  BY <1>1 DEF Init
<1>5. StoreTypes
  BY <1>1, <1>2, <1>3, <1>4 DEF Init, StoreTypes
<1>6. job = [u \in Users |-> Idle] /\ JobTypes
  BY IdleTypes DEF Init, JobTypes
<1>7. cache = [p \in Procs |-> [k \in Keys |-> NoEntry]] /\ CacheTypes
  BY IdleTypes DEF Init, CacheTypes
<1>8. Locks
  BY <1>6, IdleTypes DEF Init, Locks, Saving
<1>9. StoresApart
  <2>1. \A prov : \A k \in Keys : Held(prov, k) = {0}
    <3> TAKE prov
    <3> TAKE k \in Keys
    <3>1. aws[k] = 0 /\ file.data[k] = 0 /\ (\A u \in Users : job[u].data[k] = 0) /\ \A p \in Procs : env[p][k] = 0
      BY <1>6, IdleTypes DEF Init, NoFile
    <3> QED BY <3>1 DEF Held
  <2>2. writes = 0
    BY DEF Init
  <2> QED BY <2>1, <2>2 DEF StoresApart
<1>10. Reading /\ Caching /\ Coherent
  BY <1>6, <1>7, IdleTypes DEF Reading, Caching, Coherent
<1> QED BY <1>5, <1>6, <1>7, <1>8, <1>9, <1>10 DEF SecretsInv, SecretsTypes

\* Every step keeps it.
LEMMA SecretsNext == ASSUME SecretsAssumption PROVE SecretsInv /\ [Next]_vars => SecretsInv'
<1> SUFFICES ASSUME SecretsInv, [Next]_vars PROVE SecretsInv'
  OBVIOUS
<1>1. CASE UNCHANGED vars
  <2>1. UNCHANGED <<conf, aws, rotating, file, env, lock, cache, job, writes, failures>>
    BY <1>1 DEF vars
  <2>2. cache \in [Procs -> [Keys -> Entries]]
    BY DEF SecretsInv, SecretsTypes, CacheTypes
  <2> QED BY <2>1, <2>2, EntriesGo
<1>2. ASSUME NEW u \in Users,
             \/ Start(u) \/ CheckCache(u) \/ ReadProvider(u) \/ CacheSecret(u)
             \/ AskRotation(u) \/ Invalidate(u) \/ RefreshCache(u)
      PROVE  SecretsInv'
  BY <1>2, StartKeeps, CheckKeeps, ReadKeeps, CacheKeeps, RotationKeeps, RemovalKeeps
<1>3. ASSUME NEW u \in Users,
             \/ CreateSecret(u) \/ UpdateSecret(u) \/ SetEnv(u) \/ DeleteAWS(u)
             \/ LoadFile(u) \/ TruncateFile(u) \/ WriteFile(u)
      PROVE  SecretsInv'
  BY <1>3, CreateKeeps, UpdateKeeps, SetEnvKeeps, DeleteKeeps, LoadKeeps, TruncateKeeps, WriteKeeps
<1>4. ASSUME NEW p \in Procs, Restart(p) \/ \E k \in Keys : Expire(p, k) PROVE SecretsInv'
  BY <1>4, RestartKeeps, ExpiryKeeps
<1>5. CASE Rotated
  BY <1>5, RotatedKeeps
<1> QED BY <1>1, <1>2, <1>3, <1>4, <1>5 DEF Next

\* The invariant holds in every state of the manager.
LEMMA SecretsInvariance == ASSUME SecretsAssumption PROVE Spec => []SecretsInv
BY SecretsInit, SecretsNext, PTL DEF Spec

-----------------------------------------------------------------------------
(* The secrets file.                                                         *)

\* As long as the file operations have neither been cut short nor met another
\* process's, one process at a time is at the file, and what it is about to write is
\* what was in it with its own change.
FileLedger ==
  ledger # None =>
    /\ \A p, q \in Procs : lock[p] # None /\ lock[q] # None => p = q
    /\ file.data = ledger /\ file.state \in {"whole", "truncated"}
    /\ file.state = "truncated" <=> \E u \in Users : job[u].at = "write"
    /\ \A u \in Users : Saving(u) => job[u].data = [ledger EXCEPT ![key(u)] = job[u].val]

\* The bookkeeping changes nothing of what a command does.
LEMMA MarkLeaves ==
  ASSUME NEW jobs, NEW entries, NEW writer, NEW u \in Users, jobs[u] \in Jobs, Mark(jobs, entries, writer)
  PROVE  /\ job'[u].at = jobs[u].at /\ job'[u].keys = jobs[u].keys /\ job'[u].val = jobs[u].val
         /\ job'[u].data = jobs[u].data
<1>1. \A r : LET j == [jobs[u] EXCEPT !.raced = r]
             IN  j.at = jobs[u].at /\ j.keys = jobs[u].keys /\ j.val = jobs[u].val /\ j.data = jobs[u].data
  BY DEF Jobs
<1>2. \/ job'[u] = jobs[u]
      \/ \E r : job'[u] = [jobs[u] EXCEPT !.raced = r]
  BY DEF Mark
<1> QED BY <1>1, <1>2

\* Where the file and the mutexes stay, so do those that save.
LEMMA OthersSave ==
  ASSUME SecretsAssumption, SecretsInv, SecretsInv', UNCHANGED <<file, lock, ledger>>, FileLedger,
         \A v \in Users : Saving(v) =>
           /\ job'[v].at = job[v].at /\ job'[v].keys = job[v].keys /\ job'[v].val = job[v].val
           /\ job'[v].data = job[v].data
  PROVE  FileLedger'
<1>1. Locks /\ Locks'
  BY DEF SecretsInv, SecretsTypes
<1>2. \A v \in Users : Saving(v) <=> Saving(v)'
  BY <1>1 DEF Locks, SecretsAssumption
<1>3. \A v \in Users : Saving(v) => key(v)' = key(v)
  BY DEF key
<1>4. \A v \in Users : job[v].at = "write" <=> job'[v].at = "write"
  BY <1>2 DEF Saving
<1> QED BY <1>2, <1>3, <1>4 DEF FileLedger

\* Steps of one goroutine that is not at the file.
LEMMA ElsewhereKeeps ==
  ASSUME SecretsAssumption, SecretsInv, SecretsInv', UNCHANGED <<file, lock, ledger>>, FileLedger, NEW u \in Users, ~Saving(u),
         \/ \E j : job' = [job EXCEPT ![u] = j]
         \/ \E j, entries, writer : Mark([job EXCEPT ![u] = j], entries, writer)
  PROVE  FileLedger'
<1>1. job \in [Users -> Jobs]
  BY DEF SecretsInv, SecretsTypes, JobTypes
<1>2. ASSUME NEW v \in Users, v # u
      PROVE  /\ job'[v].at = job[v].at /\ job'[v].keys = job[v].keys /\ job'[v].val = job[v].val
             /\ job'[v].data = job[v].data
  <2>1. CASE \E j : job' = [job EXCEPT ![u] = j]
    BY <1>1, <1>2, <2>1
  <2>2. ASSUME NEW j, NEW entries, NEW writer, Mark([job EXCEPT ![u] = j], entries, writer)
        PROVE  /\ job'[v].at = job[v].at /\ job'[v].keys = job[v].keys /\ job'[v].val = job[v].val
               /\ job'[v].data = job[v].data
    <3> DEFINE jobs == [job EXCEPT ![u] = j]
    <3>1. jobs[v] = job[v] /\ jobs[v] \in Jobs
      BY <1>1, <1>2
    <3>2. Mark(jobs, entries, writer)
      BY <2>2
    <3> HIDE DEF jobs
    <3> QED BY <3>1, <3>2, MarkLeaves
  <2> QED BY <2>1, <2>2
<1> QED BY <1>2, OthersSave

\* Commands away from the file, up to the answer of a provider ...
LEMMA ReadsElsewhere ==
  ASSUME SecretsAssumption, SecretsInv, SecretsInv', FileLedger, NEW u \in Users,
         \/ Start(u) \/ CheckCache(u) \/ ReadProvider(u) \/ CacheSecret(u)
         \/ AskRotation(u) \/ Invalidate(u) \/ RefreshCache(u)
  PROVE  FileLedger'
<1>1. job \in [Users -> Jobs]
  BY DEF SecretsInv, SecretsTypes, JobTypes
<1>2. ~Saving(u) /\ UNCHANGED <<file, lock, ledger>>
  BY IdleTypes DEF Saving, Start, CheckCache, ReadProvider, CacheSecret, AskRotation,
     Invalidate, RefreshCache, stores
<1>3. \E j : job' = [job EXCEPT ![u] = j]
  <2>1. CASE Start(u)
    BY <2>1 DEF Start
  <2>2. CASE CheckCache(u)
    BY <2>2 DEF CheckCache
  <2>3. CASE ReadProvider(u)
    BY <2>3 DEF ReadProvider
  <2>4. CASE AskRotation(u)
    <3>1. [job EXCEPT ![u].at = "invalidate"] = [job EXCEPT ![u] = [job[u] EXCEPT !.at = "invalidate"]]
      BY <1>1
    <3> QED BY <2>4, <3>1 DEF AskRotation
  <2>5. CASE CacheSecret(u) \/ Invalidate(u) \/ RefreshCache(u)
    BY <2>5 DEF CacheSecret, Invalidate, RefreshCache
  <2> QED BY <2>1, <2>2, <2>3, <2>4, <2>5
<1> QED BY <1>2, <1>3, ElsewhereKeeps

\* ... and those that change AWS or the environment.
LEMMA ChangesElsewhere ==
  ASSUME SecretsAssumption, SecretsInv, SecretsInv', FileLedger, NEW u \in Users,
         CreateSecret(u) \/ UpdateSecret(u) \/ SetEnv(u) \/ DeleteAWS(u)
  PROVE  FileLedger'
<1>1. job \in [Users -> Jobs]
  BY DEF SecretsInv, SecretsTypes, JobTypes
<1>2. ~Saving(u) /\ UNCHANGED <<file, lock, ledger>>
  BY DEF Saving, CreateSecret, UpdateSecret, SetEnv, DeleteAWS
<1>3. \A at : [job EXCEPT ![u].at = at] = [job EXCEPT ![u] = [job[u] EXCEPT !.at = at]]
  BY <1>1
<1>4. \/ \E j : job' = [job EXCEPT ![u] = j]
      \/ \E j, entries, writer : Mark([job EXCEPT ![u] = j], entries, writer)
  <2>1. ASSUME NEW v, Stored(u, v)
        PROVE  \E j, entries, writer : Mark([job EXCEPT ![u] = j], entries, writer)
    BY <2>1 DEF Stored
  <2>2. ASSUME MarkFailed(u)
        PROVE  \E j, entries, writer : Mark([job EXCEPT ![u] = j], entries, writer)
    BY <2>2 DEF MarkFailed
  <2>3. ASSUME Mark([job EXCEPT ![u].at = "invalidate"], cache, u)
        PROVE  \E j, entries, writer : Mark([job EXCEPT ![u] = j], entries, writer)
    BY <2>3, <1>3
  <2>4. CASE CreateSecret(u)
    BY <1>3, <2>1, <2>4 DEF CreateSecret
  <2>5. CASE UpdateSecret(u)
    BY <2>1, <2>2, <2>5 DEF UpdateSecret
  <2>6. CASE SetEnv(u)
    BY <2>1, <2>3, <2>6 DEF SetEnv
  <2>7. CASE DeleteAWS(u)
    BY <2>2, <2>3, <2>7 DEF DeleteAWS
  <2> QED BY <2>4, <2>5, <2>6, <2>7
<1> QED BY <1>2, <1>4, ElsewhereKeeps

\* Time, and a rotation at AWS.
LEMMA OutsideElsewhere ==
  ASSUME SecretsAssumption, SecretsInv, SecretsInv', FileLedger,
         Rotated \/ \E p \in Procs, k \in Keys : Expire(p, k)
  PROVE  FileLedger'
<1>1. job \in [Users -> Jobs]
  BY DEF SecretsInv, SecretsTypes, JobTypes
<1>2. CASE Rotated
  <2>1. Mark(job, cache, None) /\ UNCHANGED <<file, lock, ledger>>
    BY <1>2 DEF Rotated
  <2>2. \A v \in Users : /\ job'[v].at = job[v].at /\ job'[v].keys = job[v].keys
                         /\ job'[v].val = job[v].val /\ job'[v].data = job[v].data
    BY <1>1, <2>1, MarkLeaves
  <2> QED BY <2>1, <2>2, OthersSave
<1>3. CASE \E p \in Procs, k \in Keys : Expire(p, k)
  <2>1. UNCHANGED <<file, lock, job, ledger>>
    BY <1>3 DEF Expire, stores
  <2> QED BY <2>1, OthersSave
<1> QED BY <1>2, <1>3

\* While the operations are told in the ledger, a goroutine that saves is the only one.
LEMMA SavesAlone ==
  ASSUME SecretsAssumption, SecretsInv, FileLedger, ledger # None, NEW u \in Users, Saving(u)
  PROVE  \A v \in Users : Saving(v) => v = u
<1>1. Locks
  BY DEF SecretsInv, SecretsTypes
<1>2. \A v \in Users : Saving(v) => lock[ProcOf[v]] = v /\ ProcOf[v] \in Procs /\ v # None
  BY <1>1 DEF Locks, SecretsAssumption
<1>3. \A v \in Users : Saving(v) => ProcOf[v] = ProcOf[u]
  BY <1>2 DEF FileLedger
<1> QED BY <1>2, <1>3

\* Truncating a file that is whole loses nothing: it is written next.
LEMMA TruncateLedger ==
  ASSUME SecretsAssumption, SecretsInv, SecretsInv', FileLedger, NEW u \in Users, TruncateFile(u)
  PROVE  FileLedger'
<1> SUFFICES ASSUME ledger' # None
             PROVE  /\ \A p, q \in Procs : lock'[p] # None /\ lock'[q] # None => p = q
                    /\ file'.data = ledger' /\ file'.state \in {"whole", "truncated"}
                    /\ file'.state = "truncated" <=> \E v \in Users : job'[v].at = "write"
                    /\ \A v \in Users : Saving(v)' =>
                         job'[v].data = [ledger' EXCEPT ![key(v)'] = job'[v].val]
  BY DEF FileLedger
<1>1. job \in [Users -> Jobs] /\ file \in [data : [Keys -> Values], state : {"whole", "truncated", "torn"}]
  BY DEF SecretsInv, SecretsTypes, JobTypes, StoreTypes
<1>2. UNCHANGED <<lock, ledger>> /\ file'.data = file.data /\ file'.state = "truncated" /\ Saving(u)
  BY <1>1 DEF TruncateFile, Saving
<1> DEFINE jobs == [job EXCEPT ![u].at = "write"]
<1>3. jobs \in [Users -> Jobs]
  BY <1>1 DEF Jobs, JobStages
<1>4. \A v \in Users : /\ jobs[v].keys = job[v].keys /\ jobs[v].val = job[v].val /\ jobs[v].data = job[v].data
                       /\ v # u => jobs[v].at = job[v].at
                       /\ v = u => jobs[v].at = "write"
  BY <1>1 DEF Jobs
<1>5. Mark(jobs, cache, None)
  BY DEF TruncateFile
<1> HIDE DEF jobs
<1>6. \A v \in Users : /\ job'[v].keys = job[v].keys /\ job'[v].val = job[v].val /\ job'[v].data = job[v].data
                       /\ v # u => job'[v].at = job[v].at
                       /\ v = u => job'[v].at = "write"
  BY <1>3, <1>4, <1>5, MarkLeaves
<1>7. \A v \in Users : Saving(v)' => Saving(v)
  BY <1>2, <1>6 DEF Saving
<1>8. \A v \in Users : key(v)' = key(v)
  BY <1>6 DEF key
<1>9. job'[u].at = "write"
  BY <1>6
<1> QED BY <1>2, <1>6, <1>7, <1>8, <1>9 DEF FileLedger

\* A file is loaded for a change only when it is whole and no process is at it.
LEMMA LoadLedger ==
  ASSUME SecretsAssumption, SecretsInv, SecretsInv', FileLedger, NEW u \in Users, LoadFile(u)
  PROVE  FileLedger'
<1> SUFFICES ASSUME ledger' # None
             PROVE  /\ \A p, q \in Procs : lock'[p] # None /\ lock'[q] # None => p = q
                    /\ file'.data = ledger' /\ file'.state \in {"whole", "truncated"}
                    /\ file'.state = "truncated" <=> \E v \in Users : job'[v].at = "write"
                    /\ \A v \in Users : Saving(v)' =>
                         job'[v].data = [ledger' EXCEPT ![key(v)'] = job'[v].val]
  BY DEF FileLedger
<1>1. StoreTypes /\ JobTypes /\ Locks /\ ProcOf[u] \in Procs
  BY DEF SecretsInv, SecretsTypes, SecretsAssumption
<1>2. /\ file' = file /\ ledger' = ledger /\ ~Overlaps(ProcOf[u]) /\ lock[ProcOf[u]] = None
      /\ job[u].at \in {"set", "delete"} /\ job[u].at # "idle"
  BY DEF LoadFile, Lockable
<1>3. \A p \in Procs : lock[p] = None
  BY <1>2 DEF Overlaps
<1>4. \A v \in Users : ~Saving(v)
  BY <1>1, <1>3 DEF Locks, SecretsAssumption
<1>5. file.state = "whole" /\ file.data = ledger /\ Loaded = ledger
  <2>1. \A v \in Users : job[v].at # "write"
    BY <1>4 DEF Saving
  <2> QED BY <1>2, <2>1 DEF FileLedger, Loaded
<1>6. PICK v : /\ v \in Values /\ (v # 0 => job[u].op \in {"set", "init"})
               /\ lock' = [lock EXCEPT ![ProcOf[u]] = u]
               /\ Mark([job EXCEPT ![u] = Saver(u, v)], cache, None)
  <2>1. \/ /\ job[u].at = "set" /\ writes < MaxWrites /\ writes' = writes + 1
           /\ lock' = [lock EXCEPT ![ProcOf[u]] = u] /\ Mark([job EXCEPT ![u] = Saver(u, writes')], cache, None)
        \/ lock' = [lock EXCEPT ![ProcOf[u]] = u] /\ Mark([job EXCEPT ![u] = Saver(u, 0)], cache, None)
    BY <1>5 DEF LoadFile, Saver, Loaded
  <2>2. job[u].at = "set" => job[u].op \in {"set", "init"}
    BY <1>1 DEF JobTypes, JobShape
  <2>3. writes < MaxWrites /\ writes' = writes + 1 => writes' \in Values /\ writes' # 0
    BY <1>1, NextValue
  <2>4. 0 \in Values
    BY IdleTypes
  <2> QED BY <2>1, <2>2, <2>3, <2>4
<1> DEFINE j == Saver(u, v)
           jobs == [job EXCEPT ![u] = j]
<1>7. /\ j \in Jobs /\ j.at = "truncate" /\ j.keys = job[u].keys /\ j.val = v
      /\ j.data = [ledger EXCEPT ![key(u)] = v]
  BY <1>1, <1>2, <1>5, <1>6, SaverTypes
<1>8. Mark(jobs, cache, None)
  BY <1>6
<1> HIDE DEF j
<1>9. jobs \in [Users -> Jobs] /\ jobs[u] = j /\ \A w \in Users : w # u => jobs[w] = job[w]
  BY <1>1, <1>7 DEF JobTypes
<1> HIDE DEF jobs
<1>10. \A w \in Users : /\ job'[w].at = jobs[w].at /\ job'[w].keys = jobs[w].keys
                        /\ job'[w].val = jobs[w].val /\ job'[w].data = jobs[w].data
  BY <1>8, <1>9, MarkLeaves
<1>11. \A w \in Users : w # u => job'[w].at \notin {"truncate", "write"}
  BY <1>4, <1>9, <1>10 DEF Saving
<1>12. /\ job'[u].at = "truncate" /\ job'[u].val = v /\ job'[u].data = [ledger EXCEPT ![key(u)] = v]
       /\ key(u)' = key(u)
  BY <1>7, <1>9, <1>10 DEF key
<1>13. \A w \in Users : Saving(w)' =>
         job'[w].data = [ledger' EXCEPT ![key(w)'] = job'[w].val]
  <2> TAKE w \in Users
  <2> HAVE Saving(w)'
  <2>1. w = u
    BY <1>11 DEF Saving
  <2> QED BY <1>2, <1>12, <2>1
<1>14. \A p \in Procs : lock'[p] # None => p = ProcOf[u]
  BY <1>1, <1>3, <1>6 DEF Locks
<1>15. \A w \in Users : job'[w].at # "write"
  BY <1>11, <1>12
<1> QED BY <1>2, <1>5, <1>13, <1>14, <1>15

\* What is written is the ledger with the goroutine's change.
LEMMA WriteLedger ==
  ASSUME SecretsAssumption, SecretsInv, SecretsInv', FileLedger, NEW u \in Users, WriteFile(u)
  PROVE  FileLedger'
<1> SUFFICES ASSUME ledger' # None
             PROVE  /\ \A p, q \in Procs : lock'[p] # None /\ lock'[q] # None => p = q
                    /\ file'.data = ledger' /\ file'.state \in {"whole", "truncated"}
                    /\ file'.state = "truncated" <=> \E v \in Users : job'[v].at = "write"
                    /\ \A v \in Users : Saving(v)' =>
                         job'[v].data = [ledger' EXCEPT ![key(v)'] = job'[v].val]
  BY DEF FileLedger
<1>1. StoreTypes /\ JobTypes /\ Locks /\ ProcOf[u] \in Procs
  BY DEF SecretsInv, SecretsTypes, SecretsAssumption
<1>2. /\ job[u].at = "write" /\ Saving(u) /\ lock' = [lock EXCEPT ![ProcOf[u]] = None]
      /\ file' \in {[data |-> job[u].data, state |-> s] :
                      s \in IF file.state = "truncated" THEN {"whole"} ELSE {"whole", "torn"}}
      /\ ledger # None /\ ledger' = [ledger EXCEPT ![key(u)] = job[u].val]
      /\ IF job[u].val # 0 THEN Stored(u, job[u].val)
         ELSE Mark([job EXCEPT ![u].at = "invalidate", ![u].data = NoFile], cache, u)
  BY DEF WriteFile, Saving
<1>3. \A w \in Users : Saving(w) => w = u
  BY <1>2, SavesAlone
<1>4. file.state = "truncated" /\ job[u].data = ledger'
  BY <1>2 DEF FileLedger
<1>5. file'.data = ledger' /\ file'.state = "whole"
  BY <1>2, <1>4
<1>6. \A p \in Procs : lock'[p] = None
  <2>1. \A p \in Procs : lock[p] # None => p = ProcOf[u]
    BY <1>1, <1>3 DEF Locks
  <2> QED BY <1>1, <1>2, <2>1 DEF Locks
<1>7. \A w \in Users : ~Saving(w)'
  <2>1. Locks'
    BY DEF SecretsInv, SecretsTypes
  <2> QED BY <1>6, <2>1 DEF Locks, SecretsAssumption
<1>8. \A w \in Users : job'[w].at # "write"
  BY <1>7 DEF Saving
<1> QED BY <1>5, <1>6, <1>7, <1>8

\* A process that starts again while none of its goroutines writes leaves the file.
LEMMA RestartLedger ==
  ASSUME SecretsAssumption, SecretsInv, SecretsInv', FileLedger, NEW p \in Procs, Restart(p)
  PROVE  FileLedger'
<1> SUFFICES ASSUME ledger' # None
             PROVE  /\ \A q, r \in Procs : lock'[q] # None /\ lock'[r] # None => q = r
                    /\ file'.data = ledger' /\ file'.state \in {"whole", "truncated"}
                    /\ file'.state = "truncated" <=> \E v \in Users : job'[v].at = "write"
                    /\ \A v \in Users : Saving(v)' =>
                         job'[v].data = [ledger' EXCEPT ![key(v)'] = job'[v].val]
  BY DEF FileLedger
<1>1. StoreTypes /\ JobTypes /\ Locks
  BY DEF SecretsInv, SecretsTypes
<1>2. /\ file' = file /\ ledger' = ledger /\ lock' = [lock EXCEPT ![p] = None]
      /\ \A u \in Users : lock[p] = u => job[u].at # "write"
  BY DEF Restart
<1> DEFINE jobs == [u \in Users |-> IF ProcOf[u] = p THEN Idle ELSE job[u]]
           entries == [cache EXCEPT ![p] = [k \in Keys |-> NoEntry]]
<1>3. Mark(jobs, entries, None)
  BY DEF Restart
<1>4. /\ jobs \in [Users -> Jobs]
      /\ \A u \in Users : jobs[u] = IF ProcOf[u] = p THEN Idle ELSE job[u]
  BY <1>1, IdleTypes DEF JobTypes
<1> HIDE DEF jobs, entries
<1>5. \A w \in Users : /\ job'[w].at = jobs[w].at /\ job'[w].keys = jobs[w].keys
                       /\ job'[w].val = jobs[w].val /\ job'[w].data = jobs[w].data
  BY <1>3, <1>4, MarkLeaves
<1>6. \A w \in Users : Saving(w)' => Saving(w) /\ key(w)' = key(w) /\ job'[w].val = job[w].val
                                     /\ job'[w].data = job[w].data
  <2> TAKE w \in Users
  <2> HAVE Saving(w)'
  <2>1. jobs[w].at \in {"truncate", "write"}
    BY <1>5 DEF Saving
  <2>2. jobs[w] = job[w]
    BY <1>4, <2>1, IdleTypes
  <2> QED BY <1>5, <2>1, <2>2 DEF Saving, key
<1>7. \A w \in Users : job'[w].at = "write" <=> job[w].at = "write"
  <2> TAKE w \in Users
  <2>1. CASE ProcOf[w] = p
    <3>1. job'[w].at = "idle"
      BY <1>4, <1>5, <2>1, IdleTypes
    <3>2. job[w].at # "write"
      BY <1>1, <1>2, <2>1 DEF Locks, Saving
    <3> QED BY <3>1, <3>2
  <2>2. CASE ProcOf[w] # p
    BY <1>4, <1>5, <2>2
  <2> QED BY <2>1, <2>2
<1>8. \A q \in Procs : lock'[q] # None => lock[q] # None
  BY <1>1, <1>2 DEF Locks
<1> QED BY <1>2, <1>6, <1>7, <1>8 DEF FileLedger

\* The ledger holds from the start ...
LEMMA LedgerInit == ASSUME SecretsAssumption PROVE Init => FileLedger
<1> SUFFICES ASSUME Init PROVE FileLedger
  OBVIOUS
<1>1. ledger = NoFile /\ file.data = NoFile /\ file.state = "whole" /\ \A p \in Procs : lock[p] = None
  BY DEF Init
<1>2. \A u \in Users : job[u].at = "idle"
  BY IdleTypes DEF Init
<1> QED BY <1>1, <1>2 DEF FileLedger, Saving

\* ... and with every step.
LEMMA LedgerNext ==
  ASSUME SecretsAssumption PROVE SecretsInv /\ SecretsInv' /\ FileLedger /\ [Next]_vars => FileLedger'
<1> SUFFICES ASSUME SecretsInv, SecretsInv', FileLedger, [Next]_vars PROVE FileLedger'
  OBVIOUS
<1>1. CASE UNCHANGED vars
  BY <1>1 DEF vars, FileLedger, Saving, key
<1>2. CASE Next
  BY <1>2, ReadsElsewhere, ChangesElsewhere, OutsideElsewhere, TruncateLedger, LoadLedger,
     WriteLedger,
     RestartLedger DEF Next
<1> QED BY <1>1, <1>2

\* Both together.
LEMMA LedgerInvariance == ASSUME SecretsAssumption PROVE Spec => [](SecretsInv /\ FileLedger)
BY SecretsInit, SecretsNext, LedgerInit, LedgerNext, PTL DEF Spec

\* The commands under way have secrets left to work on.
LEMMA TypesFromInv == ASSUME SecretsAssumption, SecretsInv PROVE TypeOK
<1>1. StoreTypes /\ JobTypes /\ CacheTypes /\ Locks
  BY DEF SecretsInv, SecretsTypes
<1>2. \A u \in Users : job[u].at # "idle" => Len(job[u].keys) > 0
  <2> TAKE u \in Users
  <2> HAVE job[u].at # "idle"
  <2>1. job[u].keys \in Seq(Keys) /\ job[u].keys # <<>>
    BY <1>1 DEF JobTypes, Jobs, JobShape
  <2> QED BY <2>1, LenProperties, EmptySeq
<1> QED BY <1>1, <1>2 DEF StoreTypes, CacheTypes, Locks, Saving, TypeOK, Values

-----------------------------------------------------------------------------
(* What the properties say.                                                  *)

\* The type invariant: among it that a goroutine holds the file provider's mutex
\* exactly while it saves the file, and that no cached secret is empty.
THEOREM SecretsTypeCorrect == ASSUME SecretsAssumption PROVE Spec => []TypeOK
BY SecretsInvariance, TypesFromInv, PTL

\* Between its own finished commands a manager answers from its cache what its
\* providers would (GetSecret, SetSecret, DeleteSecret, RotateSecret).
THEOREM SecretsCoherent == ASSUME SecretsAssumption PROVE Spec => []Coherent
<1>1. SecretsInv => Coherent
  BY DEF SecretsInv
<1> QED BY <1>1, SecretsInvariance, PTL

\* What the goroutines of a process do to the secrets file, each loading and saving
\* all of it, loses no secret and brings none back (FileProvider under its mutex).
THEOREM SecretsFile == ASSUME SecretsAssumption PROVE Spec => []FileKept
<1>1. FileLedger => FileKept
  BY DEF FileLedger, FileKept
<1> QED BY <1>1, LedgerInvariance, PTL
==============================================================================
