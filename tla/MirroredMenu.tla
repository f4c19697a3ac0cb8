----------------------------- MODULE MirroredMenu -----------------------------
(***************************************************************************)
(* What libhud and libqtgmenu promise of an application's menu between     *)
(* them: the menu that hud-service has goes through those the application  *)
(* publishes, from when it is listened to, one after the other.  None is   *)
(* left out, and none is shown that was never published.                   *)
(***************************************************************************)
EXTENDS Sequences

CONSTANT Contents   \* what there can be in a menu

VARIABLES
  published,  \* the menu of the application
  stage,      \* whether the service follows it: "unheard", "followed", "dropped"
  coming,     \* the menus the service has still to go through
  mirror      \* the menu of the service

mirrorVars == <<published, stage, coming, mirror>>

MirrorInit == published = <<>> /\ stage = "unheard" /\ coming = <<>> /\ mirror = <<>>

Publish ==
  /\ UNCHANGED <<stage, mirror>>
  /\ coming' = IF stage = "followed" THEN Append(coming, published') ELSE coming
  /\ published' \in Seq(Contents)

\* The service begins with the menu there is.
Listen ==
  /\ stage = "unheard" /\ stage' = "followed"
  /\ coming' = <<published>>
  /\ UNCHANGED <<published, mirror>>

Follow ==
  /\ UNCHANGED <<published, stage>>
  /\ coming # <<>>
  /\ mirror' = Head(coming) /\ coming' = Tail(coming)

\* The service gives the menu up, when the application has left or at a change that
\* it takes to be illegal, be it one that has come.
Drop ==
  /\ stage # "dropped" /\ stage' = "dropped"
  /\ coming' = <<>>
  /\ \/ mirror' = mirror
     \/ coming # <<>> /\ mirror' = Head(coming)
  /\ UNCHANGED published

MirrorNext == Publish \/ Listen \/ Follow \/ Drop

MirrorSpec == MirrorInit /\ [][MirrorNext]_mirrorVars
===============================================================================
