CONSTANTS
  MaxEdits = 3
  MaxEvents = 2
  MaxErrors = 1
  MaxIdle = 3
  MaxLate = 1
  RunTime = 2
  Num = 1
  Den = 4
SPECIFICATION FairSpec
INVARIANTS
  NoChangeLost
  TimeAccounted
PROPERTIES
  ChangeIsRead
CHECK_DEADLOCK FALSE
