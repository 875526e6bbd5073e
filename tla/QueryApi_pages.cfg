SPECIFICATION ApiSpec
CONSTANTS
  c1 = c1  c2 = c2
  Clients = {c1, c2}
  reader = c1
  rate = 2
  burst = 4
  cost = 3
  Idle = 2
  Period = 1
  MaxTime = 4
  Times = {1, 2, 3}
  limit = 2
INVARIANTS WindowBound BucketsAreForgotten PagesAreStable
PROPERTY ImplementsTokenBucket
