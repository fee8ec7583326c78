SPECIFICATION Spec
CONSTANTS
  SeqCount = 4
  Chunks = 1
  BurstSize = 2
  MaxRun = 3
  MaxCalls = 5
  MaxStats = 1
  MaxRestarts = 1
  Links = {"clean", "lossy"}
INVARIANTS DictionaryWhole ReplyVouches SendsLagByOne StaysInStep
CHECK_DEADLOCK FALSE
