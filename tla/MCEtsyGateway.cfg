SPECIFICATION GatewaySpec
CONSTANTS
  p1 = p1
  p2 = p2
  p3 = p3
  w1 = w1
  w2 = w2
  Requests <- MCProcs
  Workers <- MCWorkers
  WorkerOf <- MCWorkerOf
  Threshold = 2
  Cooldown = 1
  Capacity = 6
  Refill = 1
  Cost = 2
  MaxWait = 2
  LastStart = 1
  MaxTime = 4
INVARIANTS
  GatewayTypeOK
  BreakerSound
  RateBound
  WaitBounded
CHECK_DEADLOCK FALSE
