-------------------------- MODULE MCApplicationList --------------------------
(* Two ordinary applications and an ignored one, two window ids.           *)
EXTENDS CommandUsage, TLC

CONSTANTS editor, browser, compiz, w1, w2

Symmetry == Permutations({editor, browser}) \cup Permutations({w1, w2})
=============================================================================
