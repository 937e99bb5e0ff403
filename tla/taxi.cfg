SPECIFICATION FairSpec
CONSTANTS
  Flights = {"out", "back"}
  Airports = {"a", "b"}
  Dep <- MCDep
  Arr <- MCArr
  Clearances = {"hold", "stand", "cross"}
  ForHolding = {"hold"}
  ForStand = {"stand"}
  NoWay = {"cross"}
  MaxFailures = 2
  KeptNetworks = 1
  MaxNetwork = 3
  LengthOf <- MCLengthOf
  MaxEvents = 4
  MaxTroubles = 1
  None = None
INVARIANTS TypeOK AtMostOneAwaited LineIsOfItsClearance
PROPERTY LineIsDrawn
