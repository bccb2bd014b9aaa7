CONSTANTS
  Node <- MCNode
  Top = Top
  Roots <- MCRoots
  Kind <- MCKind
  Children <- MCChildren
  Parent <- MCParent
  Depth <- MCDepth
  Params <- MCParams
  VarName <- MCVarName
  Stages <- MCStages
  Printed <- MCPrinted
  Atom <- MCAtom
  Blank <- MCBlank
  Missing <- MCMissing
  Var <- MCVar
  Unset = Unset
  InitVars <- MCInitVars
  OsEnv <- MCOsEnv
  Verbose = FALSE
  MaxRuns = 1
SPECIFICATION Spec
INVARIANTS
  OverwritesLocally
CHECK_DEADLOCK FALSE
