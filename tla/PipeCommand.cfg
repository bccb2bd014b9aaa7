CONSTANTS
  Stages = 3
  Takes <- MCTakes
  PipeSize = 2
SPECIFICATION FairSpec
INVARIANTS
  Complete
PROPERTIES
  PipeReturns
CHECK_DEADLOCK FALSE
