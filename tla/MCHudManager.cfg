SPECIFICATION FairSpec
CONSTANTS
  p1 = p1
  p2 = p2
  pAll = pAll
  w1 = w1
  Publishers = {p1, p2, pAll}
  Windows = {w1}
  All = All
  WindowOf <- MCWindowOf
  None = None
  MaxLives = 3
  MaxAsks = 3
CHECK_DEADLOCK FALSE
INVARIANTS
  TypeOK
  NothingIsForgotten
  QuietServiceHasTheSources
PROPERTIES
  SourcesGetSent
