SPECIFICATION BusesSpec
CONSTANTS
  Oids = {o1, o2}
  Buses = {0, 1}
  Rates = {0, 1, 2}
  MaxRate = 1
  MaxDevices = 2
  Spidevs = {s1, s2, s3}
  SpiBuses = {0, 1, 2}
  Modes = {0, 3}
  SpiRates = {1}
  NumBuses = 2
  MaxSlots = 2
INVARIANTS RefusedForCause HandlesKept NothingHeld
