------------------------------ MODULE MCHudClient ------------------------------
EXTENDS HudClient

CONSTANTS grey, cut, tint   \* a disabled, a plain and a parameterised action

\* The base action of a dialog, and another, which takes no commands.
CONSTANTS start_action, other

MCParamActions == {start_action, other}
MCBaseActions == 
  {<<"hud", start_action>>, <<"hud", other>>, <<"app", start_action>>, NoBase}

MCMenus == {<<grey, cut>>, <<cut, tint>>}
================================================================================
