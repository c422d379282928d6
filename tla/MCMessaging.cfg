SPECIFICATION Spec
CONSTANTS
  w1 = w1
  w2 = w2
  t1 = t1
  t2 = t2
  None = None
  Workers <- MCWorkers
  Threads <- MCThreads
  MaxRetries = 1
  MaxAsked = 1
  MaxFails = 1
INVARIANTS
  TypeOK
  OwnConversation
  ProfileFreed
  SentBound
SYMMETRY MCSymmetry
CHECK_DEADLOCK FALSE
