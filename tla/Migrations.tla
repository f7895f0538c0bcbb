------------------------------ MODULE Migrations ------------------------------
(* The migration runner of db/scripts/migrate.go.  ClickHouse commits each       *)
(* statement of a migration by itself, and a migration is recorded by one more   *)
(* statement after the last of them; runners may crash, fail or run at once.     *)
EXTENDS Integers, Sequences, FiniteSets

CONSTANTS
  Runners,   \* processes that may run at once
  Files,     \* the migrations in the order of their versions: the statements of
             \* each, as [kind, object]
  MaxRuns    \* bound: how often a runner is started

MigrationsAssumption ==
  Files \in Seq(Seq([kind : {"create", "drop", "add"}, object : STRING])) /\ MaxRuns \in Nat

VARIABLES
  runs,      \* per runner
  pc,        \* per runner: its next step
  applied,   \* per runner: the versions it was told are applied
  version,   \* per runner: the migration it is at
  statement, \* per runner: the statement of it that comes next
  objects,   \* what is in the database
  recorded,  \* the versions in schema_migrations
  executed   \* auxiliary: per version, the statements that were executed ever

vars == <<runs, pc, applied, version, statement, objects, recorded, executed>>

Versions == DOMAIN Files

-----------------------------------------------------------------------------

Goto(p, l) == pc' = [pc EXCEPT ![p] = l]

\* InitializeMigrationsTable needs the table only if there is none.
Start(p) ==
  /\ pc[p] = "idle" /\ runs[p] < MaxRuns
  /\ runs' = [runs EXCEPT ![p] = @ + 1]
  /\ Goto(p, "read")
  /\ UNCHANGED <<applied, version, statement, objects, recorded, executed>>

\* The versions are read in order; an error that ends the rows early is not
\* noticed, so later ones may be missing.
GetAppliedMigrations(p) ==
  /\ pc[p] = "read"
  /\ \E last \in 0 .. Len(Files) : applied' = [applied EXCEPT ![p] = {v \in recorded : v <= last}]
  /\ version' = [version EXCEPT ![p] = 1] /\ statement' = [statement EXCEPT ![p] = 1]
  /\ Goto(p, "next")
  /\ UNCHANGED <<runs, objects, recorded, executed>>

\* Migrations that are applied are skipped.
Migrate(p) ==
  /\ pc[p] = "next"
  /\ IF version[p] > Len(Files) THEN Goto(p, "idle") /\ UNCHANGED version
     ELSE IF version[p] \in applied[p]
     THEN version' = [version EXCEPT ![p] = @ + 1] /\ UNCHANGED pc
     ELSE Goto(p, "apply") /\ UNCHANGED version
  /\ UNCHANGED <<runs, applied, statement, objects, recorded, executed>>

\* What a statement makes of the objects: CREATE and ADD COLUMN say IF NOT EXISTS
\* and DROP says IF EXISTS; only ADD INDEX fails if there is one.
Fails(s)  == s.kind = "add" /\ s.object \in objects
Effect(s) == IF s.kind = "drop" THEN objects \ {s.object} ELSE objects \cup {s.object}

\* Mutated form: an error of a statement is only logged.
Execute_Tolerant(p, s) ==
  /\ \/ UNCHANGED <<objects, executed>>
     \/ ~Fails(s) /\ objects' = Effect(s) /\ executed' = [executed EXCEPT ![version[p]] = @ \cup {statement[p]}]
  /\ statement' = [statement EXCEPT ![p] = @ + 1] /\ UNCHANGED pc

\* A statement that fails, for this or another reason, ends the run.
Execute(p, s) ==
  \/ Goto(p, "idle") /\ UNCHANGED <<objects, executed, statement>>
  \/ /\ ~Fails(s)
     /\ objects' = Effect(s)
     /\ executed' = [executed EXCEPT ![version[p]] = @ \cup {statement[p]}]
     /\ statement' = [statement EXCEPT ![p] = @ + 1] /\ UNCHANGED pc

ApplyMigration(p) ==
  /\ pc[p] = "apply" /\ statement[p] <= Len(Files[version[p]])
  /\ Execute(p, Files[version[p]][statement[p]])
  /\ UNCHANGED <<runs, applied, version, recorded>>

Record(p) ==
  /\ pc[p] = "apply" /\ statement[p] > Len(Files[version[p]])
  /\ recorded' = recorded \cup {version[p]}
  /\ version' = [version EXCEPT ![p] = @ + 1] /\ statement' = [statement EXCEPT ![p] = 1]
  /\ Goto(p, "next")
  /\ UNCHANGED <<runs, applied, objects, executed>>

\* The process dies, or a call other than a migration's statement fails.
Crash(p) ==
  /\ pc[p] # "idle"
  /\ Goto(p, "idle")
  /\ UNCHANGED <<runs, applied, version, statement, objects, recorded, executed>>

Init ==
  /\ runs = [p \in Runners |-> 0] /\ pc = [p \in Runners |-> "idle"]
  /\ applied = [p \in Runners |-> {}]
  /\ version = [p \in Runners |-> 1] /\ statement = [p \in Runners |-> 1]
  /\ objects = {} /\ recorded = {} /\ executed = [v \in Versions |-> {}]

Run(p) ==
  \/ Start(p) \/ GetAppliedMigrations(p) \/ Migrate(p) \/ ApplyMigration(p) \/ Record(p) \/ Crash(p)

Next == \E p \in Runners : Run(p)

Spec == Init /\ [][Next]_vars

-----------------------------------------------------------------------------
(* Properties.                                                             *)

TypeOK ==
  /\ pc \in [Runners -> {"idle", "read", "next", "apply"}]
  /\ \A p \in Runners : applied[p] \subseteq recorded /\ version[p] \in 1 .. Len(Files) + 1
  /\ recorded \subseteq Versions

\* A migration is recorded only when each of its statements was executed, and no
\* statement of one is executed before all of the earlier migrations are
\* recorded, whatever runs overlap, crash or see fewer records than there are.
RecordedWasRun ==
  \A v \in Versions :
    /\ v \in recorded => executed[v] = DOMAIN Files[v]
    /\ executed[v] # {} => \A w \in 1 .. v - 1 : w \in recorded
=============================================================================
