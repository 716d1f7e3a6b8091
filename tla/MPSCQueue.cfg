\* Three producers, three pushes; the stub goes around several times.
\* The system stops after the destructor.
CONSTANTS
  Producer = {p1, p2, p3}
  MaxPushes = 3
  SizeMod = 16
  Null = Null
SPECIFICATION FairSpec
INVARIANTS TypeOK NoUseAfterFree DestroyFreesAll
PROPERTIES ImplementsFIFO EmptyUnlessInserting PopReturns
CHECK_DEADLOCK FALSE
