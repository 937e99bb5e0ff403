SPECIFICATION FairSpec
CONSTANTS
  LEVEL_SUSTAIN_SAMPLES = 4
  DESCENT_SUSTAIN_SAMPLES = 5
  GO_AROUND_AIRBORNE_SAMPLES = 3
  AIRBORNE_START_SAMPLES = 4
  Samples <- MCSamples
INVARIANTS TypeOK StreaksAreRuns
PROPERTIES NoHastyTransition LandedStaysLanded ParkedShutsDown AirborneIsNoticed
