SPECIFICATION FairSpec
CONSTANTS
  unity = unity
  cli = cli
  Senders = {unity, cli}
  MaxCalls = 3
PROPERTIES
  QueriesOfTheDeadAreClosed
CHECK_DEADLOCK FALSE
