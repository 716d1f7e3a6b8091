\* Three slots for two elements; seven pushes wrap the indices twice.
CONSTANTS
  Size = 2
  Item = {a, b}
  None = None
  MaxPushes = 7
SPECIFICATION Spec
INVARIANTS TypeOK NoSlotRace
PROPERTY ImplementsFIFO
