SPECIFICATION Spec
CONSTANTS
  p1 = p1
  p2 = p2
  c1 = c1
  c2 = c2
  Procs <- MCProcs
  Codes <- OneCode
  NumReceipts = 1
  EtsyStates <- MCStates
  Calls <- MCCalls
  Margin = 3
  TaskLimit = 3
  MaxChange = 3
  MaxTime = 3
  MaxEdits = 2
  MaxFails = 1
INVARIANTS
  TypeOK
  RowFromEtsy
  EventsAtEtsy
  NeverBackInTime
  SyncKeepsTracking
  StatusKept
CHECK_DEADLOCK FALSE
