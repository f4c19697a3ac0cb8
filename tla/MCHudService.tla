---------------------------- MODULE MCHudService ----------------------------
(* Two clients.                                                            *)
EXTENDS HudService

CONSTANTS unity, cli
=============================================================================
