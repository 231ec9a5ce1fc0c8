\* Nothing is lost and nobody else interferes.
SPECIFICATION Spec
CONSTANTS
  Table <- FewRows
  MaxRetry = 1
  StartVal = 134
  Offset = 110
  MaxVal = 300
  Lossy = FALSE
  QueueSize = 2
  MaxLate = 1
  MaxResets = 0
INVARIANTS EveryAccessCounts
\* The slave may wait for ever for a master that has ended.
CHECK_DEADLOCK FALSE
