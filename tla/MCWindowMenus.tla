--------------------------- MODULE MCWindowMenus ---------------------------
(***************************************************************************)
(* One application; one window with a menubar and one without.             *)
(***************************************************************************)
EXTENDS WindowMenus

CONSTANTS editor, gtk, plain, q1, q2, document

MCAppOf == [w \in WindowIds |-> editor]

MCProperties ==
  [w \in WindowIds |-> IF w = gtk THEN {"bus", "menubar", "application"}
                                  ELSE {"bus", "application"}]
=============================================================================
