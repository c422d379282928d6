SPECIFICATION Spec
CONSTANTS
  p1 = p1
  p2 = p2
  Free = Free
  Procs <- MCProcs
  Calls <- MCCalls
  MaxGen = 3
INVARIANTS
  SingleFlight
  GrantPreserved
  CachedWasCommitted
  ExpiringOnlyAfterWait
CHECK_DEADLOCK FALSE
