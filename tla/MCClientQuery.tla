--------------------------- MODULE MCClientQuery ---------------------------
(* One or two processes; the texts are the empty one and another.          *)
EXTENDS ClientQuery, TLC

CONSTANTS c1, c2, hello

Symmetry == Permutations(Clients)
=============================================================================
