SPECIFICATION SessionSpec
CONSTANTS
  Window = 2
  Limit = 2
  HeavyLimit = 2
  TightLimit = 1
  DayLimit = 3
  MaxDelay = 2
  RetryAfter <- MCRetryAfter
  LastCursor = 2
  MaxTries = 2
INVARIANTS
  SessionIsBounded
PROPERTIES
  RefusalsEnd
  WalksEnd
