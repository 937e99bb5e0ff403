SPECIFICATION FairSpec
CONSTANTS
  Devices = {d1, d2}
  a = a
  f = f
  l = l
  NoParent = NoParent
  Rows <- Fleet
  TableOf <- MCTableOf
  ParentOf <- MCParentOf
  Synced = {a}
  MaxWrites = 2
  MaxFailures = 1
INVARIANTS TypeOK UnpushedIsPending
PROPERTIES NothingNewerIsLost BackendCatchesUp
