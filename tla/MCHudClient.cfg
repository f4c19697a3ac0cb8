SPECIFICATION FairSpec
CONSTANTS
  grey = grey
  cut = cut
  tint = tint
  Actions = {grey, cut, tint}
  Disabled = {grey}
  Parameterized = {tint}
  Menus <- MCMenus
  NoAction = NoAction
  MaxResults = 1
  MaxCommands = 2
  ProgramCommands = {"reset", "commit"}
  Commanded = {start_action}
  ParamActions <- MCParamActions
  BaseActions <- MCBaseActions
  NoBase = NoBase
  start_action = start_action
  other = other
INVARIANTS
  TypeOK
  ResultsAreTheTokens
  NullItemsComeFromOldRows
  CommandsKeepTheirOrder
PROPERTIES
  DialogsGetShown
CHECK_DEADLOCK FALSE
