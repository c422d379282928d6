SPECIFICATION FairSpec
CONSTANTS
  p1 = p1
  p2 = p2
  Free = Free
  Procs <- MCProcs
  Calls <- MCLiveCalls
  MaxGen = 2
INVARIANTS
  TypeOK
  
PROPERTIES
  EveryCallReturns
CHECK_DEADLOCK FALSE
