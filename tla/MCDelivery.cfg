SPECIFICATION Spec
CONSTANTS
  a = a
  b = b
  event1 = event1
  mail = mail
  c1 = c1
  c2 = c2
  None = None
  Clicks <- MCClicks
  Hooks <- MCHooks
  Mails <- MCMails
  Exempt <- Routed
  Keyed <- MCClicks
  Calls <- MCCalls
  MaxSends = 2
  MaxPosted = 2
SYMMETRY Symmetry
INVARIANTS
  TypeOK
  SuccessIsTrue
PROPERTIES
  Implements
CHECK_DEADLOCK FALSE
