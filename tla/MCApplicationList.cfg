SPECIFICATION USpec
CONSTANTS
  editor = editor
  browser = browser
  compiz = compiz
  w1 = w1
  w2 = w2
  None = None
  AppIds = {editor, browser, compiz}
  IgnoredIds = {compiz}
  WindowIds = {w1, w2}
  Month = 1
  MaxDays = 3
  MaxUses = 2
SYMMETRY Symmetry
INVARIANTS
  TypeOK
  FocusedApplicationIsListed
  WindowsMatchTheReports
  AppstackShowsFocusedApplication
  UsageIsTheMonths
