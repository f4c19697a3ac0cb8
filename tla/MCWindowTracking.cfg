SPECIFICATION FairSpec
CONSTANTS
  w1 = w1
  w2 = w2
  None = None
  AppIds = {editor, compiz}
  IgnoredIds = {compiz}
  w3 = w3
  WindowIds = {w1, w2, w3}
  OpenAtStart = {w1}
  AppOf <- MCAppOf
  MaxChanges = 3
  MaxCrashes = 1
  editor = editor
  compiz = compiz
INVARIANTS
  BusTypeOK
  QuietServiceKnowsTheOpenWindows
  QuietFocusIsTheActiveWindow
CHECK_DEADLOCK FALSE
PROPERTIES
  WindowsGetTracked
