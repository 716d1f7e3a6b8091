\* Two waiters, two notifiers, three tokens.  When the tokens are used up
\* the waiters sleep for ever.
CONSTANTS
  Waiter = {w1, w2}
  Notifier = {n1, n2}
  MaxTokens = 3
  EpochMod = 4
SPECIFICATION FairSpec
INVARIANTS TypeOK WaitersCounted NoLostWakeup
PROPERTY TokensTaken
CHECK_DEADLOCK FALSE
