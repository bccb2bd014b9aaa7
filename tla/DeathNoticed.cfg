CONSTANTS
  Conn = {c1, c2}
  Stdout = Stdout
  NoRedirect = FALSE
SPECIFICATION FairSpec
PROPERTIES
  DeathNoticed

CHECK_DEADLOCK FALSE
