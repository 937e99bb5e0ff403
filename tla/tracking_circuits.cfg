SPECIFICATION FairSpec
CONSTANTS
  LEVEL_SUSTAIN_SAMPLES = 1
  DESCENT_SUSTAIN_SAMPLES = 1
  GO_AROUND_AIRBORNE_SAMPLES = 1
  AIRBORNE_START_SAMPLES = 1
  Flights = {f1}
  NoFlight = NoFlight
  Samples <- CircuitSamples
  Due = {TRUE, FALSE}
  AutoFinish = {TRUE}
  Refusable = {"complete"}
  MaxTouchdowns = 2
  MaxRefusals = 1
  MaxPauses = 1
  MaxRestarts = 1
INVARIANTS TypeOK EveryTouchdownHasItsLanding ClimbIsRecorded
PROPERTIES ArrivalNeverGoesBack ShutdownCompletes
