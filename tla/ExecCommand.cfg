CONSTANTS
  Execs = 2
  Writes <- MCWrites
  Long <- MCLong
  PipeSize = 1
SPECIFICATION FairSpec
INVARIANTS
  OutputExact
  CrashNeedsLate
  OneAtATime
PROPERTIES
  EvalReturns
  CopiersEnd
CHECK_DEADLOCK FALSE
