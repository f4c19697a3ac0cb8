SPECIFICATION ImportSpec
CONSTANTS
  dOpen = dOpen
  dOpenAgain = dOpenAgain
  dOpenFile = dOpenFile
  dRecent = dRecent
  openId = openId
  openFileId = openFileId
  recentId = recentId
  open = open
  recent = recent
  Descriptions = {dOpen, dOpenAgain, dOpenFile, dRecent}
  Parametric = {dOpenFile}
  Ids = {openId, openFileId, recentId}
  IdOf <- MCIdOf
  Rank <- MCRank
  Names = {open, recent}
  NameOf <- MCNameOf
  RangeOf <- MCRangeOf
  MaxSignals = 2
  Max = 2
SYMMETRY Symmetry
CHECK_DEADLOCK FALSE
INVARIANTS
  TypeOK
  ChangedDescriptionsAreFound
  MirrorsThePublishedMenu
  ActionsHaveTheirStates
PROPERTY
  FollowsThePublisher
