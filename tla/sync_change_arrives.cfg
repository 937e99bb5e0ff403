SPECIFICATION FairSpec
CONSTANTS
  Devices = {d1, d2}
  a = a
  f = f
  l = l
  NoParent = NoParent
  Rows <- AircraftOnly
  TableOf <- MCTableOf
  ParentOf <- MCParentOf
  Synced = {}
  MaxWrites = 2
  MaxFailures = 0
PROPERTY ChangesArrive
