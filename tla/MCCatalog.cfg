SPECIFICATION Spec
CONSTANTS
  b1 = b1
  l1 = l1
  l2 = l2
  s1 = s1
  s2 = s2
  Batches <- MCBatches
  Listings <- MCListings
  Syncs <- MCSyncs
  Manual = Manual
  MaxRetries = 1
  MaxDeaths = 1
  MaxRows = 2
SYMMETRY Symmetry
INVARIANTS
  TypeOK
  BatchSettled
  OneRowPerListing
CHECK_DEADLOCK FALSE
