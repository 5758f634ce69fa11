CONSTANTS
  Msgs = {m1}
  AppThreads = {a1}
  IoThreads = {i1}
  Threads <- MCThreads
  Budget <- MCBudget
  MaxOpens = 1
  MaxCloses = 1
  MaxSends = 1
  MaxFaults = 2
SPECIFICATION FairMessengerSpec
CHECK_DEADLOCK FALSE
PROPERTIES ErrorIsLeft
