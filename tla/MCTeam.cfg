SPECIFICATION Spec
CONSTANTS
  u1 = u1
  u2 = u2
  s1 = s1
  s2 = s2
  w1 = w1
  w2 = w2
  Users <- MCUsers
  Founder = u1
  Shops <- MCShops
  Workers <- MCWorkers
  Kinds <- MCKinds
  MaxRequests = 4
SYMMETRY Symmetry
INVARIANTS
  TypeOK
  OwnerRemains
  AccessAsGiven
  LinkOnce
CHECK_DEADLOCK FALSE
