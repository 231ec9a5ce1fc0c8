\* One call, one loss: the authentication of the station expires.
SPECIFICATION FairSpec
CONSTANTS
  Apps = {a1}
  Ev = Ev
  QueueLen = 2
  MaxCalls = 1
  MaxDrops = 1
  MaxFaults = 0
PROPERTIES ExpiryIsRetried
\* Once the bounds are used up nothing is left to happen.
CHECK_DEADLOCK FALSE
