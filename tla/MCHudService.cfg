SPECIFICATION FairSpec
CONSTANTS
  unity = unity
  cli = cli
  Senders = {unity, cli}
  MaxCalls = 4
INVARIANTS
  TypeOK
  LegacyQueriesAreOpenOrClosedElsewhere
  RunningTimersHaveAQuery
  QuietSendersGoneHaveNoQueries
PROPERTIES
  ClosedLegacyQueriesGoAway
CHECK_DEADLOCK FALSE
