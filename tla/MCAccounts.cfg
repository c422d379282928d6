SPECIFICATION Spec
CONSTANTS
  w1 = w1
  w2 = w2
  a = a
  b = b
  NoPassword = NoPassword
  Workers <- MCWorkers
  Passwords <- MCPasswords
  Requests <- MCRequests
  VerifyRequired = TRUE
  MaxAttempts = 2
  LockTime = 1
  MaxTime = 2
  MaxMails = 2
  MaxWrong = 2
SYMMETRY Symmetry
INVARIANTS
  TypeOK
  EveryMissCounts
  MailedLinkWorks
PROPERTIES
  LockHolds
CHECK_DEADLOCK FALSE
