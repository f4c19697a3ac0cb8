SPECIFICATION FairSpec
CONSTANTS
  gtk = gtk
  plain = plain
  q1 = q1
  q2 = q2
  document = document
  Default = Default
  editor = editor
  Applications = {editor}
  AppOf <- MCAppOf
  AppMenu = AppMenu
  ActionMenu = ActionMenu
  None = None
  WindowIds = {gtk, plain}
  Properties <- MCProperties
  AddressWindows = {plain}
  Contexts = {Default, document}
  Queries = {q1}
  MaxMenus = 2
INVARIANTS
  TypeOK
  QueriesActOnTheFocusedWindow
  QuietLatestTokenIsCurrent
PROPERTY
  ChangedMenusGetSearched
