CONSTANTS
  Msgs = {m1, m2}
  Threads = {t1, t2}
  Budget <- MCBudget
  MaxConnects = 2
  MaxDisconnects = 2
  MaxSends = 2
  MaxFaults = 2
SPECIFICATION FairSessionSpec
CHECK_DEADLOCK FALSE
INVARIANTS SessionTypeOK OneWriteOfQueued OpenIsRead StateIsTruthful
PROPERTIES IsOutbox AttemptsEnd QueueDrains
