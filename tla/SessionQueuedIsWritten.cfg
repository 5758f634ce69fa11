CONSTANTS
  Msgs = {m1}
  Threads = {t1}
  Budget <- MCBudget
  MaxConnects = 2
  MaxDisconnects = 1
  MaxSends = 2
  MaxFaults = 1
SPECIFICATION SessionSpec
CHECK_DEADLOCK FALSE
INVARIANT QueuedIsWritten
