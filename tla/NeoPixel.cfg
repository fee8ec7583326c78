SPECIFICATION Spec
CONSTANTS
  Oids = {o1, o2}
  Colours = {0, 1}
  Foreign = 9
  MaxData = 2
  Room = 3
  Channels = 2
INVARIANTS SuccessShown UsesOnlyItsOwn 
PROPERTIES NoTornFrame
CHECK_DEADLOCK FALSE
