-------------------------------- MODULE Delivery --------------------------------
(* What becomes of events, in three parts that share no state: the dead letter  *)
(* queue (whose names this module has as its own) and the two of Pipeline.       *)
(* Steps of two of them commute, so a behaviour runs one part, its focus, and    *)
(* leaves the others as they start.                                              *)
EXTENDS DeadLetterQueue, Pipeline

VARIABLE focus

DeliveryInit ==
  /\ focus \in {"dlq", "batch", "consumer"}
  /\ Init /\ Batch!Init /\ Consumer!Init

DeliveryNext ==
  \/ focus = "dlq"      /\ Next          /\ UNCHANGED <<focus, batchVars, consumerVars>>
  \/ focus = "batch"    /\ Batch!Next    /\ UNCHANGED <<focus, vars, consumerVars>>
  \/ focus = "consumer" /\ Consumer!Next /\ UNCHANGED <<focus, vars, batchVars>>

DeliverySpec == DeliveryInit /\ [][DeliveryNext]_<<focus, vars, batchVars, consumerVars>>

-----------------------------------------------------------------------------
(* Properties: those of the dead letter queue and of Pipeline, and this.    *)

\* The type invariants of all parts, and the bound of the local buffer.
TypesOK == TypeOK /\ LocalBounded /\ Batch!TypeOK /\ Consumer!TypeOK
=============================================================================
