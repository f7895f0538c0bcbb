---------------------------- MODULE SecretsManager ----------------------------
(* The secrets manager of internal/secrets/manager.go: providers read in   *)
(* order of priority, a cache with a lifetime, and no lock held while a    *)
(* provider is called.  Several processes, the server                      *)
(* (internal/config/secrets_integration.go) and the command line tool      *)
(* (cmd/secrets/main.go), share AWS and the secrets file.                  *)
EXTENDS Naturals, FiniteSets, SecretsSetup

CONSTANTS
  Procs,          \* processes, each with a manager of its own
  Users,          \* goroutines that use a manager
  ProcOf,         \* the process of each user
  Tools,          \* processes of the command line tool: one for each command
  Keys,           \* secrets
  Configurations, \* per process: the providers it is set up with, by priority
  Commands,       \* per user: the commands it may issue, [op, keys, prov]
  None,           \* nobody
  MaxWrites,      \* bound: values written
  MaxFailures     \* bound: calls of AWS and file writes that fail

Providers == {"aws", "vault", "file", "env"}

\* A process of the tool has one goroutine, and setting a manager up always
\* includes the environment.
SecretsAssumption ==
  /\ ProcOf \in [Users -> Procs] /\ Tools \subseteq Procs /\ None \notin Users
  /\ \A u, v \in Users : ProcOf[u] = ProcOf[v] /\ ProcOf[u] \in Tools => u = v
  /\ \A setup \in Configurations :
       DOMAIN setup = Procs /\ \A p \in Procs : setup[p] \in Seq(Providers) \ {<<>>}
  /\ \A u \in Users : \A c \in Commands[u] :
       c.op \in {"get", "set", "init", "delete", "rotate", "refresh"} /\ c.keys \in Seq(Keys)
  /\ MaxWrites \in Nat /\ MaxFailures \in Nat

VARIABLES
  conf,       \* the providers each process is set up with
  aws,        \* the value of each secret in AWS; 0 where there is none
  rotating,   \* secrets that AWS was asked to rotate
  file,       \* the secrets file: what was saved last, and whether it can be read
  env,        \* per process: its environment
  lock,       \* per process: the user that holds the file provider's mutex
  cache,      \* per process: the cached secrets
  job,        \* per user: its command and how far it is
  writes, failures,
  ledger      \* auxiliary: what the finished file operations amount to, or none
              \* once a write was cut short or met another process's

vars == <<conf, aws, rotating, file, env, lock, cache, job, writes, failures, ledger>>
stores == <<aws, rotating, file, env, lock>>

NoFile  == [k \in Keys |-> 0]
Idle    == [op |-> "none", keys |-> <<>>, prov |-> "", at |-> "idle", left |-> <<>>,
            val |-> 0, data |-> NoFile, raced |-> FALSE]
NoEntry == [val |-> 0, fresh |-> FALSE, excused |-> FALSE]

TypeOK ==
  /\ conf \in Configurations
  /\ aws \in [Keys -> 0 .. MaxWrites] /\ rotating \subseteq Keys
  /\ file.state \in {"whole", "truncated", "torn"} /\ file.data \in [Keys -> 0 .. MaxWrites]
  /\ \A p \in Procs : lock[p] # None => ProcOf[lock[p]] = p /\ job[lock[p]].at \in {"truncate", "write"}
  /\ \A u \in Users : job[u].at \in {"truncate", "write"} => lock[ProcOf[u]] = u
  /\ \A p \in Procs, k \in Keys : cache[p][k].fresh => cache[p][k].val # 0
  /\ \A u \in Users : job[u].at # "idle" => Len(job[u].keys) > 0
  /\ writes \in 0 .. MaxWrites /\ failures \in 0 .. MaxFailures

-----------------------------------------------------------------------------
(* What the providers hold.                                                *)

key(u) == Head(job[u].keys)

\* The file as a process finds it.  A reader waits for its own process's
\* writer, so only other processes find a file that is being written.
FileData(p) ==
  IF file.state = "whole" \/ (file.state = "truncated" /\ lock[p] # None) THEN file.data ELSE NoFile

\* The placeholder for Vault always fails.
ValueIn(p, prov, k) ==
  CASE prov = "aws" -> aws[k] [] prov = "file" -> FileData(p)[k] [] prov = "env" -> env[p][k]
    [] OTHER -> 0

\* The first provider in order of priority that has a value.
Lookup(p, k) ==
  LET having == {i \in DOMAIN conf[p] : ValueIn(p, conf[p][i], k) # 0}
  IN  IF having = {} THEN 0
      ELSE ValueIn(p, conf[p][CHOOSE i \in having : \A j \in having : i <= j], k)

\* A cached secret that has not expired.
Usable(p, k) == cache[p][k].fresh

-----------------------------------------------------------------------------
(* Bookkeeping of the properties.                                          *)

\* A step changed the providers on behalf of writer (None: nobody's): commands
\* under way may hold what it replaced, and entries of other processes, or of
\* other secrets, are out of date until they expire.  What the writer is about to
\* cache is so too if a provider of higher priority hides it.
Mark(jobs, entries, writer) ==
  LET before == [p \in Procs |-> [k \in Keys |-> Lookup(p, k)]]
      after  == [p \in Procs |-> [k \in Keys |-> Lookup(p, k)']]
      Changed(p, k) == after[p][k] # before[p][k]
  IN  /\ job' = [u \in Users |->
           IF u = writer
           THEN [jobs[u] EXCEPT !.raced = after[ProcOf[u]][key(u)] # jobs[u].val]
           ELSE IF jobs[u].at # "idle" /\ Changed(ProcOf[u], key(u))
           THEN [jobs[u] EXCEPT !.raced = TRUE] ELSE jobs[u]]
      /\ cache' = [p \in Procs |-> [k \in Keys |->
           IF entries[p][k].fresh /\ Changed(p, k) /\ (writer = None \/ ProcOf[writer] # p \/ k # key(writer))
           THEN [entries[p][k] EXCEPT !.excused = TRUE] ELSE entries[p][k]]]

\* A command that ends with an error: its caller is told, and what changed
\* although the call failed is nobody's to put into the cache.
MarkFailed(u) == Mark([job EXCEPT ![u] = Idle], cache, None)

CanFail == failures < MaxFailures
Fail(fails) == failures' = failures + IF fails THEN 1 ELSE 0

-----------------------------------------------------------------------------
(* Commands.                                                               *)

\* What u does next with the secret at the head of keys.
Enter(u, c, keys) ==
  [Idle EXCEPT !.op = c.op, !.prov = c.prov, !.keys = keys,
               !.at = IF c.op \in {"get", "init"} THEN "look" ELSE c.op]

\* The command goes on with its next secret, or is over.
Proceed(u) ==
  IF Len(job[u].keys) = 1 THEN Idle ELSE Enter(u, job[u], Tail(job[u].keys))

SetUpWith(u, prov) == \E i \in DOMAIN conf[ProcOf[u]] : conf[ProcOf[u]][i] = prov

\* get, validate and export read secrets; set and import store them; init
\* stores what is missing.  A provider the manager was not set up with is
\* refused before anything happens.  The tool is a new process for each command,
\* with an empty cache.
Start(u) ==
  /\ job[u] = Idle
  /\ \E c \in Commands[u] :
       /\ c.keys # <<>>
       /\ c.op \in {"set", "delete", "rotate"} => SetUpWith(u, c.prov)
       /\ job' = [job EXCEPT ![u] = Enter(u, c, c.keys)]
  /\ IF ProcOf[u] \in Tools
     THEN /\ env' = [env EXCEPT ![ProcOf[u]] = NoFile]
          /\ cache' = [cache EXCEPT ![ProcOf[u]] = [k \in Keys |-> NoEntry]]
     ELSE UNCHANGED <<env, cache>>
  /\ UNCHANGED <<conf, aws, rotating, file, lock, writes, failures, ledger>>

-----------------------------------------------------------------------------
(* GetSecret.                                                              *)

\* Under the read lock: a fresh entry is the answer.
CheckCache(u) ==
  /\ job[u].at = "look"
  /\ job' = [job EXCEPT ![u] =
               IF Usable(ProcOf[u], key(u)) THEN Proceed(u)
               ELSE [@ EXCEPT !.at = "read", !.left = conf[ProcOf[u]], !.raced = FALSE]]
  /\ UNCHANGED <<conf, stores, cache, writes, failures, ledger>>

\* No provider had it: get goes on, init stores a value.
NotFound(u) ==
  IF job[u].op = "init" /\ SetUpWith(u, job[u].prov)
  THEN [job[u] EXCEPT !.at = "set", !.left = <<>>]
  ELSE IF job[u].op = "init" THEN Idle ELSE Proceed(u)

\* The next provider is asked.  An error counts as not having the secret.
ReadProvider(u) ==
  /\ job[u].at = "read"
  /\ LET p == ProcOf[u]
         prov == Head(job[u].left)
     IN  /\ prov = "file" => lock[p] = None
         /\ \E fails \in BOOLEAN :
              /\ fails => prov = "aws" /\ CanFail
              /\ Fail(fails)
              /\ LET v == IF fails THEN 0 ELSE ValueIn(p, prov, key(u))
                     raced == job[u].raced \/ fails
                 IN  job' = [job EXCEPT ![u] =
                       IF v # 0 THEN [@ EXCEPT !.at = "cache", !.val = v, !.raced = raced, !.left = <<>>]
                       ELSE IF Len(job[u].left) = 1 THEN NotFound(u)
                       ELSE [@ EXCEPT !.left = Tail(job[u].left), !.raced = raced]]
  /\ UNCHANGED <<conf, stores, cache, writes, ledger>>

\* Mutated form: SetSecret leaves the cache as it is.
CacheEntry_SetForgets(u) ==
  IF job[u].op = "set" THEN cache[ProcOf[u]][key(u)]
  ELSE [val |-> job[u].val, fresh |-> TRUE, excused |-> job[u].raced]

\* The entry of what was read or stored.
CacheEntry(u) == [val |-> job[u].val, fresh |-> TRUE, excused |-> job[u].raced]

\* cacheSecret, which ends GetSecret and SetSecret.
CacheSecret(u) ==
  /\ job[u].at = "cache"
  /\ cache' = [cache EXCEPT ![ProcOf[u]][key(u)] = CacheEntry(u)]
  /\ job' = [job EXCEPT ![u] = Proceed(u)]
  /\ UNCHANGED <<conf, stores, writes, failures, ledger>>

-----------------------------------------------------------------------------
(* SetSecret.                                                              *)

\* What follows the provider's answer.
Stored(u, v) == Mark([job EXCEPT ![u] = [@ EXCEPT !.at = "cache", !.val = v, !.data = NoFile]], cache, u)

\* AWS: create, and update if that fails, as the secret may exist.
CreateSecret(u) ==
  /\ job[u].at = "set" /\ job[u].prov = "aws" /\ writes < MaxWrites
  /\ UNCHANGED <<conf, rotating, file, env, lock, ledger>>
  /\ \/ /\ aws[key(u)] = 0
        /\ writes' = writes + 1
        /\ aws' = [aws EXCEPT ![key(u)] = writes']
        /\ Stored(u, writes')
        /\ UNCHANGED failures
     \/ /\ aws[key(u)] # 0 \/ CanFail
        /\ Fail(aws[key(u)] = 0)
        /\ job' = [job EXCEPT ![u].at = "update"]
        /\ UNCHANGED <<writes, aws, cache>>

\* The update fails if the secret is gone; a lost answer leaves it done.
UpdateSecret(u) ==
  /\ job[u].at = "update"
  /\ UNCHANGED <<conf, rotating, file, env, lock, ledger>>
  /\ \E applied \in BOOLEAN, fails \in BOOLEAN :
       /\ applied => aws[key(u)] # 0 /\ writes < MaxWrites
       /\ fails => CanFail
       /\ aws[key(u)] # 0 /\ ~fails => applied
       /\ Fail(fails)
       /\ writes' = writes + IF applied THEN 1 ELSE 0
       /\ aws' = IF applied THEN [aws EXCEPT ![key(u)] = writes'] ELSE aws
       /\ IF applied /\ ~fails THEN Stored(u, writes') ELSE MarkFailed(u)

\* The environment is the process's own.
SetEnv(u) ==
  /\ job[u].at \in {"set", "delete"} /\ job[u].prov = "env"
  /\ UNCHANGED <<conf, aws, rotating, file, lock, failures, ledger>>
  /\ LET v == IF job[u].at = "set" THEN writes + 1 ELSE 0 IN
     /\ v <= MaxWrites
     /\ writes' = IF v = 0 THEN writes ELSE v
     /\ env' = [env EXCEPT ![ProcOf[u]][key(u)] = v]
     /\ IF v # 0 THEN Stored(u, v) ELSE Mark([job EXCEPT ![u].at = "invalidate"], cache, u)

-----------------------------------------------------------------------------
(* The file provider: SetSecret and DeleteSecret load the whole map, change *)
(* it and save it, under a mutex of the process.                            *)

\* Mutated form: the file provider has no mutex.
Lockable_Always(p) == TRUE

Lockable(p) == lock[p] = None

\* Two processes are at the file at once.
Overlaps(p) == \E q \in Procs \ {p} : lock[q] # None

\* loadSecrets: an empty file is an empty map, and so is, for a set, one that
\* cannot be decrypted.
LoadFile(u) ==
  /\ job[u].at \in {"set", "delete"} /\ job[u].prov = "file"
  /\ Lockable(ProcOf[u])
  /\ UNCHANGED <<conf, aws, rotating, file, env, failures>>
  /\ LET p == ProcOf[u]
         loaded == IF file.state = "whole" THEN file.data ELSE NoFile
         Changing(v) == [job[u] EXCEPT !.at = "truncate", !.val = v, !.data = [loaded EXCEPT ![key(u)] = v]]
     IN  /\ IF job[u].at = "set"
            THEN /\ writes < MaxWrites
                 /\ writes' = writes + 1
                 /\ lock' = [lock EXCEPT ![p] = u]
                 /\ Mark([job EXCEPT ![u] = Changing(writes')], cache, None)
            ELSE /\ UNCHANGED writes
                 /\ IF file.state = "torn"
                    THEN /\ UNCHANGED lock
                         /\ MarkFailed(u)
                    ELSE /\ lock' = [lock EXCEPT ![p] = u]
                         /\ Mark([job EXCEPT ![u] = Changing(0)], cache, None)
         /\ ledger' = IF Overlaps(p) THEN None ELSE ledger

\* os.WriteFile truncates the file when it opens it.
TruncateFile(u) ==
  /\ job[u].at = "truncate"
  /\ file' = [file EXCEPT !.state = "truncated"]
  /\ UNCHANGED <<conf, aws, rotating, env, lock, writes, failures, ledger>>
  /\ Mark([job EXCEPT ![u].at = "write"], cache, None)

\* ... and then writes it.  What another process has written meanwhile may show
\* past the end of a shorter text.
WriteFile(u) ==
  /\ job[u].at = "write"
  /\ UNCHANGED <<conf, aws, rotating, env, writes>>
  /\ lock' = [lock EXCEPT ![ProcOf[u]] = None]
  /\ \/ /\ file' \in {[data |-> job[u].data, state |-> s] :
                        s \in IF file.state = "truncated" THEN {"whole"} ELSE {"whole", "torn"}}
        /\ ledger' = IF ledger = None THEN None ELSE [ledger EXCEPT ![key(u)] = job[u].val]
        /\ IF job[u].val # 0 THEN Stored(u, job[u].val)
           ELSE Mark([job EXCEPT ![u].at = "invalidate", ![u].data = NoFile], cache, u)
        /\ UNCHANGED failures
     \/ /\ CanFail /\ Fail(TRUE)
        /\ file' = [data |-> NoFile, state |-> "torn"]
        /\ ledger' = None
        /\ MarkFailed(u)

-----------------------------------------------------------------------------
(* DeleteSecret, RotateSecret and RefreshCache.                            *)

\* AWS: a lost answer leaves the secret deleted and cached.
DeleteAWS(u) ==
  /\ job[u].at = "delete" /\ job[u].prov = "aws"
  /\ UNCHANGED <<conf, rotating, file, env, lock, writes, ledger>>
  /\ \E applied \in BOOLEAN, fails \in BOOLEAN :
       /\ fails => CanFail
       /\ applied => aws[key(u)] # 0
       /\ aws[key(u)] # 0 /\ ~fails => applied
       /\ Fail(fails)
       /\ aws' = IF applied THEN [aws EXCEPT ![key(u)] = 0] ELSE aws
       /\ IF applied /\ ~fails THEN Mark([job EXCEPT ![u].at = "invalidate"], cache, u) ELSE MarkFailed(u)

\* AWS accepts the request and rotates later; other providers refuse.
AskRotation(u) ==
  /\ job[u].at = "rotate"
  /\ IF job[u].prov = "aws" /\ aws[key(u)] # 0
     THEN /\ rotating' = rotating \cup {key(u)}
          /\ job' = [job EXCEPT ![u].at = "invalidate"]
     ELSE /\ job' = [job EXCEPT ![u] = Idle]
          /\ UNCHANGED rotating
  /\ UNCHANGED <<conf, aws, file, env, lock, cache, writes, failures, ledger>>

Rotated ==
  /\ writes < MaxWrites
  /\ \E k \in rotating :
       /\ rotating' = rotating \ {k}
       /\ writes' = writes + 1
       /\ aws' = IF aws[k] = 0 THEN aws ELSE [aws EXCEPT ![k] = writes']
  /\ UNCHANGED <<conf, file, env, lock, failures, ledger>>
  /\ Mark(job, cache, None)

\* The entry is removed after the provider answered.
Invalidate(u) ==
  /\ job[u].at = "invalidate"
  /\ cache' = [cache EXCEPT ![ProcOf[u]][key(u)] = NoEntry]
  /\ job' = [job EXCEPT ![u] = Idle]
  /\ UNCHANGED <<conf, stores, writes, failures, ledger>>

RefreshCache(u) ==
  /\ job[u].at = "refresh"
  /\ cache' = [cache EXCEPT ![ProcOf[u]] = [k \in Keys |-> NoEntry]]
  /\ job' = [job EXCEPT ![u] = Idle]
  /\ UNCHANGED <<conf, stores, writes, failures, ledger>>

-----------------------------------------------------------------------------
(* Time and processes.                                                     *)

Expire(p, k) ==
  /\ cache[p][k].fresh
  /\ cache' = [cache EXCEPT ![p][k] = [@ EXCEPT !.fresh = FALSE, !.excused = FALSE]]
  /\ UNCHANGED <<conf, stores, job, writes, failures, ledger>>

\* A process ends, with its command or in the middle of it, and starts again.
\* A write cut short leaves an empty file, which reads as no secrets, or half of
\* one, which cannot be decrypted.
Restart(p) ==
  LET cut == \E u \in Users : lock[p] = u /\ job[u].at = "write" IN
  /\ file' \in IF cut THEN {[data |-> NoFile, state |-> s] : s \in {"whole", "torn"}} ELSE {file}
  /\ lock' = [lock EXCEPT ![p] = None]
  /\ env' = [env EXCEPT ![p] = NoFile]
  /\ ledger' = IF cut THEN None ELSE ledger
  /\ UNCHANGED <<conf, aws, rotating, writes, failures>>
  /\ Mark([u \in Users |-> IF ProcOf[u] = p THEN Idle ELSE job[u]],
          [cache EXCEPT ![p] = [k \in Keys |-> NoEntry]], None)

-----------------------------------------------------------------------------

Init ==
  /\ conf \in Configurations
  /\ aws = [k \in Keys |-> 0] /\ rotating = {}
  /\ file = [data |-> NoFile, state |-> "whole"]
  /\ env = [p \in Procs |-> [k \in Keys |-> 0]]
  /\ lock = [p \in Procs |-> None]
  /\ cache = [p \in Procs |-> [k \in Keys |-> NoEntry]]
  /\ job = [u \in Users |-> Idle]
  /\ writes = 0 /\ failures = 0
  /\ ledger = NoFile

Next ==
  \/ \E u \in Users :
       \/ Start(u) \/ CheckCache(u) \/ ReadProvider(u) \/ CacheSecret(u)
       \/ CreateSecret(u) \/ UpdateSecret(u) \/ SetEnv(u)
       \/ LoadFile(u) \/ TruncateFile(u) \/ WriteFile(u)
       \/ DeleteAWS(u) \/ AskRotation(u) \/ Invalidate(u) \/ RefreshCache(u)
  \/ \E p \in Procs : Restart(p) \/ \E k \in Keys : Expire(p, k)
  \/ Rotated

Spec == Init /\ [][Next]_vars

-----------------------------------------------------------------------------
(* Properties.                                                             *)

\* Where a cached secret is not what the providers would answer, that is for
\* one of these reasons: its own process is in the middle of changing it; the
\* command that cached it overlapped a change or met a failing provider; a
\* provider of higher priority hides it; the change was another process's, or
\* AWS's, or reported as failed.  Between its own finished commands a manager is
\* coherent with its providers.
Coherent ==
  \A p \in Procs, k \in Keys :
    cache[p][k].fresh /\ ~cache[p][k].excused /\ cache[p][k].val # Lookup(p, k) =>
      \E u \in Users : /\ ProcOf[u] = p /\ job[u].at # "idle" /\ key(u) = k
                       /\ job[u].at = "invalidate" \/ (job[u].at = "cache" /\ job[u].op # "get")

\* Whatever the goroutines of one process do at the same time, the secrets file
\* holds every secret stored in it and none deleted from it, as long as no write
\* was cut short or overlapped another process's.
FileKept == ledger # None /\ file.state = "whole" => file.data = ledger
=============================================================================
