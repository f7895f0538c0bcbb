----------------------------- MODULE MCIngestion -----------------------------
(* An instance of Ingestion for TLC.                                        *)
EXTENDS Ingestion

Item == [tenant |-> "t", empty |-> FALSE]

\* One request with two items.
MCOffers == {[path |-> "trace", kind |-> "traces", items |-> <<Item, Item>>, sound |-> TRUE]}

\* Every stream has a name and exists.
MCStreams == {[k \in Kinds |-> "named"]}
=============================================================================
