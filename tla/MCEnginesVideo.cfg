CONSTANTS
  LaneCount = 2
  RegCount = 2
  ScalarCount = 1
  PredCount = 2
  Base = 2
  Ram = {0}
  Video = {1}
  Literals <- MCLiterals
  CodeLength = 2
  CallDepth = 1
  Instructions <- MCInstructions
SPECIFICATION LoadingSpec
INVARIANT PtxAgrees
CHECK_DEADLOCK FALSE
