CONSTANTS
  Path <- MCPath
  Folder = {"lib", "in"}
  Nowhere = "nowhere"
  Layouts <- MCLayouts
  Rounds = 2
SPECIFICATION Spec
INVARIANTS
  FilesRead
CHECK_DEADLOCK FALSE
