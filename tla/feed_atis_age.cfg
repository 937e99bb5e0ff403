SPECIFICATION Spec
CONSTANTS
  Floor = 3
  SlowInterval = 12
  Backoff <- MCBackoffOf5s
  Timeout = 2
  StaleAfter = 9
  AtisFresh = 12
  AtisWait = 6
  MaxChanges = 1
  MaxAsks = 1
  None = None
INVARIANT AtisIsFresh
