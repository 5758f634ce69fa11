CONSTANTS
  Msgs = {m1}
  AppThreads = {a1}
  IoThreads = {i1, i2}
  Threads <- MCThreads
  Budget <- MCBudget
  MaxOpens = 2
  MaxCloses = 1
  MaxSends = 1
  MaxFaults = 2
SPECIFICATION FairMessengerSpec
CHECK_DEADLOCK FALSE
INVARIANTS MessengerTypeOK MessengerAgrees
PROPERTIES Recovers CloseIsAnswered
