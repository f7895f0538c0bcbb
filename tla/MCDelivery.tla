------------------------------- MODULE MCDelivery -------------------------------
(* Small instances of the parts of Delivery for TLC.                             *)
EXTENDS Delivery, TLC

CONSTANTS e1, e2, e3, e4, s1, s2

\* Two streams, the first with one event more than a batch holds.
MCStreamOf == [e \in Publications |-> IF e = e4 THEN s2 ELSE s1]

\* Two trace records, one metric, a restart.
MCMaxRecords == [s \in Inlets |-> IF s = "traces" THEN 2 ELSE 1]

\* Two events of one stream whose messages do not decode are interchangeable.
SymmetricEvents == Permutations({e2, e3})
=============================================================================
