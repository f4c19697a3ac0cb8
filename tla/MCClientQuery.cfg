SPECIFICATION FairSpec
CONSTANTS
  c1 = c1
  c2 = c2
  hello = hello
  Empty = Empty
  NoProxy = NoProxy
  Clients = {c1, c2}
  Texts = {Empty, hello}
  MaxLives = 2
  MaxAsks = 2

INVARIANTS
  TypeOK
  OneQueryPerObject
  StrayProxiesAreShortLived
  QuietServiceHasTheText
PROPERTIES
  QueriesFollowTheObjects
CHECK_DEADLOCK FALSE
