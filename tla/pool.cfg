SPECIFICATION FairSpec
CONSTANTS
  Workers = {w1, w2, w3}
  MaxProcess = 2
  Total = 5
  Block = 2
  NoTask = NoTask
INVARIANTS TypeOK Balance NoIdleSleeper BoundKept
PROPERTIES EveryTaskRun Implements
CHECK_DEADLOCK FALSE
