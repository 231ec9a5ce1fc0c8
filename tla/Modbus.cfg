\* Two rounds reach both ends of the slave's loop.
SPECIFICATION FairSpec
CONSTANTS
  Table <- FewRows
  MaxRetry = 1
  StartVal = 134
  Offset = 110
  MaxVal = 300
  Lossy = TRUE
  QueueSize = 2
  MaxLate = 1
  MaxResets = 1
INVARIANTS InfoFollowsEvent CountsAccesses AlarmIsSound
PROPERTIES MasterEnds
\* The slave may wait for ever for a master that has ended.
CHECK_DEADLOCK FALSE
