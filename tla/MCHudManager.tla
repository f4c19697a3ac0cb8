----------------------------- MODULE MCHudManager -----------------------------
EXTENDS HudManager, TLC

CONSTANTS p1, p2, pAll, w1

MCWindowOf == (p1 :> w1) @@ (p2 :> w1) @@ (pAll :> All)
===============================================================================
