CONSTANTS
  Path <- MCPath
  Folder = {"lib", "in"}
  Nowhere = "nowhere"
  Layouts <- MCLayouts
  Rounds = 2
SPECIFICATION FairSpec
INVARIANTS
  ReadsAll
  FirstSucceeds
  CrashNeedsTwo
PROPERTIES
  CompileEnds
CHECK_DEADLOCK FALSE
