SPECIFICATION BoardSpec
CONSTANTS
  PlainPins = {"fan", "led"}
  Fan = "fan"
  Oids = {1, 2}
  Values = {0, 1, 5}
  MinPeriod = 2
  MaxPeriod = 2
  NominalHalf = 2
  MinDelay = 1
  PulseTime = 1
  Active = 40
  Cooldown = 25
  CooldownTicks = 1
  TickWrap = 2
  MaxBehind = 1
INVARIANTS ShadowAgrees DefaultsAfterShutdown FanHeld
PROPERTY InterlockSpec
