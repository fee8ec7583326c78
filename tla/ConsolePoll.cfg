CONSTANTS
  MessageMax = 2
  ReplyLen = 3
  Window = 2
  PeriodWaits = 4
  MaxCommands = 3
  Transports = {"uart"}
SPECIFICATION Spec
INVARIANTS
  RxPolledEveryWait
