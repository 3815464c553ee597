CONSTANTS
  NULL = NULL
  Node <- MCNode
  GC_NODE_INIT_THRESH = 128
  MaxStack = 20
  Half = 8
  Depth <- MCDepth
  Derivation <- MCDerivation
  Fun <- MCFun
  Code <- MCCode
  Instr <- MCInstr
  Val <- MCVal
  Literal <- MCLiteral
  Selected = {"clash"}
  Thresholds = {128}
ACTION_CONSTRAINT LeastFree
SPECIFICATION MCSpec
INVARIANT
  ResultCorrect
