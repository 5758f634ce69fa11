CONSTANTS
  Msgs = {m1}
  AppThreads = {a1, a2}
  IoThreads = {i1, i2}
  Threads <- MCThreads
  Budget <- MCBudget
  MaxOpens = 1
  MaxCloses = 1
  MaxSends = 1
  MaxFaults = 2
SPECIFICATION FairTeardownSpec
CHECK_DEADLOCK FALSE
INVARIANTS TeardownTypeOK NoneOutlives QuietThrowsNothing
PROPERTIES DestructorEnds
