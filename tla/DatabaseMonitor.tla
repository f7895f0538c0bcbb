---------------------------- MODULE DatabaseMonitor ----------------------------
(* The performance monitor of internal/monitoring/database.go: queries that       *)
(* callers wrap are listed while they run, and a goroutine merges the list with   *)
(* the process list of the server at every tick.  The counters and histograms     *)
(* are left out: nothing reads them here.                                         *)
EXTENDS Integers, FiniteSets

CONSTANTS
  Callers,   \* goroutines that wrap queries
  Ids,       \* ids of wrapped queries; two of the same nanosecond share theirs
  Processes, \* ids that the server gives to the queries of all its clients
  Tables,
  None

\* An id made here has the form query_<nanoseconds>, the server's have another.
MonitorAssumption == Processes \cap Ids = {} /\ None \notin Ids

VARIABLES
  query,          \* per caller: the id of the query it runs, or None
  processes,      \* what the server runs
  tables,         \* the tables the server has
  currentQueries, \* the ids of the listed queries
  tableSizeCache,
  loop,           \* the goroutine: "wait", then the next step of collectMetrics
  activeQueries,  \* the process list it was told
  stop,           \* stopCh was closed
  stopped         \* Stop has returned

vars == <<query, processes, tables, currentQueries, tableSizeCache, loop, activeQueries, stop, stopped>>

-----------------------------------------------------------------------------
(* Queries.                                                                *)

\* The id is made of the clock's nanoseconds.
registerActiveQuery(g) ==
  /\ query[g] = None
  /\ \E id \in Ids :
       /\ query' = [query EXCEPT ![g] = id]
       /\ currentQueries' = currentQueries \cup {id}
  /\ UNCHANGED <<processes, tables, tableSizeCache, loop, activeQueries, stop, stopped>>

\* Deferred: whether the query failed or not.
unregisterActiveQuery(g) ==
  /\ query[g] # None
  /\ currentQueries' = currentQueries \ {query[g]}
  /\ query' = [query EXCEPT ![g] = None]
  /\ UNCHANGED <<processes, tables, tableSizeCache, loop, activeQueries, stop, stopped>>

-----------------------------------------------------------------------------
(* The goroutine.                                                          *)

\* The select may see a tick although stopCh is closed.
Tick ==
  /\ loop = "wait"
  /\ loop' = "tables"
  /\ UNCHANGED <<query, processes, tables, currentQueries, tableSizeCache, activeQueries, stop, stopped>>

\* A query that fails leaves the cache as it was.
updateTableMetrics ==
  /\ loop = "tables"
  /\ \E sizes \in {tables, tableSizeCache} : tableSizeCache' = sizes
  /\ loop' = "list"
  /\ UNCHANGED <<query, processes, tables, currentQueries, activeQueries, stop, stopped>>

\* Mutated form: the wrapped queries are added before the lock is taken.
Listing_TooEarly == processes \cup currentQueries

\* The process list is read with no lock held.
Listing == processes

ListProcesses ==
  /\ loop = "list"
  /\ \/ activeQueries' = Listing /\ loop' = "merge"
     \/ loop' = "wait" /\ UNCHANGED activeQueries
  /\ UNCHANGED <<query, processes, tables, currentQueries, tableSizeCache, stop, stopped>>

\* What is listed now is kept, whether it is a wrapped query or a process that
\* an earlier process list has shown.
updateProcessList ==
  /\ loop = "merge"
  /\ currentQueries' = activeQueries \cup currentQueries
  /\ activeQueries' = {} /\ loop' = "wait"
  /\ UNCHANGED <<query, processes, tables, tableSizeCache, stop, stopped>>

Stop ==
  /\ ~stop /\ stop' = TRUE
  /\ UNCHANGED <<query, processes, tables, currentQueries, tableSizeCache, loop, activeQueries, stopped>>

\* The goroutine ends between two collections, and the wait group lets Stop return.
LoopEnds ==
  /\ stop /\ loop = "wait"
  /\ loop' = "ended" /\ stopped' = TRUE
  /\ UNCHANGED <<query, processes, tables, currentQueries, tableSizeCache, activeQueries, stop>>

-----------------------------------------------------------------------------

\* The server's queries come and go.
ServerRuns ==
  /\ processes' \in SUBSET Processes /\ tables' \in SUBSET Tables
  /\ UNCHANGED <<query, currentQueries, tableSizeCache, loop, activeQueries, stop, stopped>>

Init ==
  /\ query = [g \in Callers |-> None]
  /\ processes = {} /\ tables = {} /\ currentQueries = {} /\ tableSizeCache = {}
  /\ loop = "wait" /\ activeQueries = {} /\ stop = FALSE /\ stopped = FALSE

Next ==
  \/ \E g \in Callers : registerActiveQuery(g) \/ unregisterActiveQuery(g)
  \/ Tick \/ updateTableMetrics \/ ListProcesses \/ updateProcessList
  \/ Stop \/ LoopEnds \/ ServerRuns

Spec == Init /\ [][Next]_vars

-----------------------------------------------------------------------------
(* Properties.                                                             *)

TypeOK ==
  /\ query \in [Callers -> Ids \cup {None}]
  /\ currentQueries \subseteq Ids \cup Processes /\ tableSizeCache \subseteq Tables
  /\ stopped <=> loop = "ended"

\* A wrapped query that has ended is not listed as running, although the list is
\* replaced by one that was put together from the server's answer: the merge
\* keeps what is listed at that moment, not what was when the server was asked.
NothingEndedIsListed == currentQueries \cap Ids \subseteq {query[g] : g \in Callers}
=============================================================================
