CONSTANTS
  Half = 9
  MinAlarmTicks = 2
  UserTimers = {u1}
  u1 = u1
  UserDelays = {4}
  Period = 4
  KickTicks = 3
  WaitTicks = 4
  PassTicks = 1
  InstallTicks = 1
  MaxCount = 37
SPECIFICATION FairSpec
INVARIANT
  AlarmInOwnEpoch
PROPERTIES
  FlagServed
  DispatchGoesOn
