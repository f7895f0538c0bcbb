------------------------------ MODULE MCProgress ------------------------------
(* Small instances of the parts of Progress for TLC.                             *)
EXTENDS Progress

CONSTANTS e1, e2, e3, t1, w1, c1, c2, c3

\* One tenant, and one stream, with one event more than a batch holds.
MCTenantOf == [e \in Events |-> t1]

\* The log stream with two records.
MCMaxRecords == [s \in Inlets |-> 2]

\* Two failures in a row trip the breaker, and as many trials are allowed, so it
\* can always decide.
MCReadyToTrip(counts) == counts.ConsecutiveFailures > 1

\* Of a part that is out of focus one initial state will do.
MCInit == ProgressInit /\ (focus = "process" \/ (program = "server" /\ waits))

MCSpec == MCInit /\ [][ProgressNext]_<<focus, partVars>> /\ ProgressFairness
=============================================================================
