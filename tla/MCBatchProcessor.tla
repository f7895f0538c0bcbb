-------------------------- MODULE MCBatchProcessor --------------------------
(* An instance of BatchProcessor for TLC.                                  *)
EXTENDS BatchProcessor

CONSTANT s1

MCStreamOf == [e \in Events |-> s1]
=============================================================================
