SPECIFICATION FairSpec
CONSTANTS
  ClockFreq = 7
  MaxFreq = 4
  PWM_MAX = 2
  LedcTimers = {0, 1}
  LedcChannels = {0, 1}
  OutPins = {"fan0", "fan1"}
  Oids = {1, 2}
  Cycles = {0, 1, 2, 3, 4, 6, 20}
  Duties = {0, 2, 3}
  MaxFailures = 2
INVARIANTS NothingLeaks DefaultsAfterShutdown
PROPERTIES DefaultsReached WavesSpec
