\* Is is_empty what mpsc_queue.h says?
CONSTANTS
  Producer = {p1, p2}
  MaxPushes = 2
  SizeMod = 16
  Null = Null
SPECIFICATION Spec
PROPERTY EmptyMeansEmpty
CHECK_DEADLOCK FALSE
