SPECIFICATION Spec
CONSTANTS
  phone = phone
  phoneAgain = phoneAgain
  tablet = tablet
  Sockets = {phone, tablet}
  AddressOf <- MCAddressOf
  MaxSockets = 2
  MaxUnauthenticated = 1
  Homes = {"home"}
  Ports = {4848, 4849}
  Keys = {"none", "plan", "tracked"}
  FlightOf <- MCFlightOf
  Tracked = {}
  MaxSyncs = 1
  MaxTroubles = 1
  None = None
PROPERTY EveryDeviceIsTold
