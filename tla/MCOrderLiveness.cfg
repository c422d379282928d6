SPECIFICATION FairSpec
CONSTANTS
  p1 = p1
  p2 = p2
  c1 = c1
  c2 = c2
  Procs <- MCProcs
  Codes <- OneCode
  NumReceipts = 2
  EtsyStates <- MCLiveStates
  Calls <- MCLiveCalls
  Margin = 2
  TaskLimit = 2
  MaxChange = 3
  MaxTime = 6
  MaxEdits = 1
  MaxFails = 1
PROPERTIES
  SyncsMissNothing
  EventuallyAgrees
CHECK_DEADLOCK FALSE
