CONSTANTS
  Half = 11
  MinAlarmTicks = 2
  UserTimers = {u1, u2}
  u1 = u1
  u2 = u2
  UserDelays = {4}
  Period = 5
  KickTicks = 3
  WaitTicks = 4
  PassTicks = 2
  InstallTicks = 1
  MaxCount = 26
SPECIFICATION Spec
SYMMETRY UserSymmetry
INVARIANTS
  TypeOK
  MaskBalance
  WakeChain
  NoMissedAlarm
  NoLostWakeup
PROPERTIES
  EpochExact
  ServiceSpec
