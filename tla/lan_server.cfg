SPECIFICATION MCSpec
CONSTANTS
  phone = phone
  phoneAgain = phoneAgain
  tablet = tablet
  Sockets = {phone, phoneAgain, tablet}
  AddressOf <- MCAddressOf
  MaxSockets = 2
  MaxUnauthenticated = 1
  Homes = {"home"}
  Ports = {4848, 4849}
  Keys = {"none", "plan", "tracked"}
  FlightOf <- MCFlightOf
  Tracked = {"tracked"}
  MaxSyncs = 1
  MaxTroubles = 2
  None = None
INVARIANT TypeOK
PROPERTIES ChangeReachesAll ListensAsSet SlotsComeBack
