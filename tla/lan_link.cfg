SPECIFICATION FairSpec
CONSTANTS
  firstAsk = firstAsk
  again = again
  other = other
  runways = runways
  noKey = noKey
  airport = airport
  Asks = {firstAsk, again, other}
  LaneOf <- MCLaneOf
  KeyOf <- MCKeyOf
  NoKey = noKey
  SubjectOf <- MCSubjectOf
  Refreshes = {}
  MaxInFlight <- OneSlot
  MaxPending <- OneSlot
  MaxTries = 2
  MaxTroubles = 2
INVARIANTS TypeOK EveryLookupHasAPlace
PROPERTIES BusyIsTheLate LookupsEnd
CHECK_DEADLOCK FALSE
