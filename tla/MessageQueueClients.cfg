\* Three consumers: one waits, one is woken, one steals its item.
CONSTANTS
  Consumer = {c1, c2, c3}
  MaxPushes = 5
SPECIFICATION FairClientsSpec
INVARIANTS ClientsTypeOK NoLostWakeup FIFO
PROPERTY Delivered
