SPECIFICATION FairSpec
CONSTANTS
  gtk = gtk
  plain = plain
  q1 = q1
  q2 = q2
  document = document
  Default = Default
  editor = editor
  Applications = {editor}
  AppOf <- MCAppOf
  AppMenu = AppMenu
  ActionMenu = ActionMenu
  None = None
  WindowIds = {gtk}
  Properties <- MCProperties
  AddressWindows = {}
  Contexts = {Default}
  Queries = {q1, q2}
  MaxMenus = 0
PROPERTIES
  ChangedMenusGetSearched
