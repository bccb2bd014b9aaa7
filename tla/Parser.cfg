CONSTANTS
  Letters <- MCLetters
  Inputs <- MCInputs
  Join <- MCJoin
  Arg <- MCArg
  Named <- MCNamed
  Digits <- MCDigits
  Builtins <- MCBuiltins
  MaxDepth = 9
  MaxLen = 3
SPECIFICATION FairSpec
INVARIANTS
  TypeOK
  NestingAgrees
  ResolvedIfSound
  ParsesBack
PROPERTIES
  ParseEnds
CHECK_DEADLOCK FALSE
