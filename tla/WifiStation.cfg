\* One application, a queue that fills up, two losses and one failure.
SPECIFICATION FairSpec
CONSTANTS
  Apps = {a1}
  Ev = Ev
  QueueLen = 2
  MaxCalls = 2
  MaxDrops = 2
  MaxFaults = 1
INVARIANTS BitsTellLink StatusTellsAddress FlagsTellDriver
PROPERTIES TrueMeansMode CallReturns LossIsRetried
\* Once the bounds are used up nothing is left to happen.
CHECK_DEADLOCK FALSE
