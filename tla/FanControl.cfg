SPECIFICATION FairSpec
CONSTANTS
  MinPeriod = 3
  MaxPeriod = 5
  NominalHalf = 4
  MinDelay = 1
  PulseTime = 2
  Active = 40
  Cooldown = 25
  CooldownTicks = 2
  TickWrap = 4
  MaxBehind = 2
INVARIANTS GateEnds OneLatePulse
PROPERTIES CooldownKept FanStops
