SPECIFICATION Spec
CONSTANTS
  LEVEL_SUSTAIN_SAMPLES = 1
  DESCENT_SUSTAIN_SAMPLES = 1
  GO_AROUND_AIRBORNE_SAMPLES = 1
  AIRBORNE_START_SAMPLES = 1
  Flights = {f1, f2}
  NoFlight = NoFlight
  Samples <- HopSamples
  Due = {TRUE}
  AutoFinish = {TRUE, FALSE}
  Refusable <- AllButCreate
  MaxTouchdowns = 1
  MaxRefusals = 1
  MaxPauses = 0
  MaxRestarts = 1
SYMMETRY FlightSymmetry
INVARIANT TrackedIsActive
PROPERTY LifecycleSpec
