SPECIFICATION FairSpec
CONSTANTS
  Accounts = {"ann", "ben"}
  MaxTokens = 3
  MaxLogouts = 2
  MaxTroubles = 3
  None = None
INVARIANTS TypeOK StoredIsInUse FirstSyncIsBackedUp
PROPERTIES DeadTokenIsNoticed ChangesAreSynced
CHECK_DEADLOCK FALSE
