----------------------------- MODULE MCDBusMenu -----------------------------
(* All trees of up to MaxDBus menus, and all a tree can turn into while it *)
(* is shown and searched; the largest of them are stopped by the valve.     *)
EXTENDS DBusMenu
=============================================================================
