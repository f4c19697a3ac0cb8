-------------------------- MODULE MCWindowTracking --------------------------
(* An application with two windows, and an ignored one with one.           *)
EXTENDS WindowTracking, TLC

CONSTANTS w1, w2, w3, editor, compiz

MCAppOf == [w \in WindowIds |-> IF w = w3 THEN compiz ELSE editor]

\* The two windows of the editor are interchangeable.
Symmetry == Permutations({w1, w2})
=============================================================================
