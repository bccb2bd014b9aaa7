CONSTANTS
  Conn = {c1, c2, c3}
  Stdout = Stdout
  NoRedirect = FALSE
SPECIFICATION FairSpec
INVARIANTS
  OutRestored
  Paired
  Drained
PROPERTIES
  StopEnds
CHECK_DEADLOCK FALSE
