SPECIFICATION FairSpec
CONSTANTS
  Floor = 2
  SlowInterval = 8
  Backoff <- MCBackoff
  Timeout = 1
  StaleAfter = 6
  AtisFresh = 8
  AtisWait = 4
  MaxChanges = 2
  MaxAsks = 1
  None = None
INVARIANTS TypeOK OnlyTheChosenIsShown AtisIsRecent
PROPERTIES FloorHolds FeedKeepsReading
