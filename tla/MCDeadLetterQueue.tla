------------------------- MODULE MCDeadLetterQueue -------------------------
(* Instances of DeadLetterQueue for TLC; its configurations give every     *)
(* constant a set of model values or a number.                             *)
EXTENDS DeadLetterQueue
=============================================================================
