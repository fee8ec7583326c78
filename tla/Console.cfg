CONSTANTS
  MessageMax = 2
  ReplyLen = 3
  Window = 3
  PeriodWaits = 4
  MaxCommands = 4
  Transports = {"uart", "usb"}
SPECIFICATION FairSpec
INVARIANTS NoOutputAsleep OutputFaithful RxBounded
PROPERTIES EveryCommandAnswered ReportDelivered WatchdogFed WorkShrinks
