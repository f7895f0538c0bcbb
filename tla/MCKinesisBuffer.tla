--------------------------- MODULE MCKinesisBuffer ---------------------------
(* Instances of KinesisBuffer for TLC.                                     *)
EXTENDS KinesisBuffer, TLC

CONSTANTS e1, e2, e3, e4, t1, t2

\* Three events of one tenant, so that its buffer fills, and one of another.
MCTenantOf == [e \in Events |-> IF e = e4 THEN t2 ELSE t1]

\* Events of the same tenant are interchangeable.
SymmetricEvents == Permutations({e1, e2, e3})
=============================================================================
