CONSTANTS
  NULL = NULL
  Node <- MCNode
  GC_NODE_INIT_THRESH = 128
  MaxStack = 20
  Half = 8
  Depth <- MCDepth
  Derivation <- MCDerivation
  Fun <- MCFun
  Code <- MCCode
  Instr <- MCInstr
  Val <- MCVal
  Literal <- MCLiteral
  Selected = {"foldr", "lazy", "nats", "lte", "shared", "holds", "greets", "poly", "wraps", "rounds", "divzero", "divmin", "partial", "param", "easy", "join"}
  Thresholds = {1, 2, 3, 4, 5, 6, 8, 10, 128}
ACTION_CONSTRAINT LeastFree
SPECIFICATION ProgramsSpec
INVARIANTS
  NothingLiveFreed
  EvalKeepsStack
  HeapAcyclic
  ResultCorrect
  
  StaleMarksHideNothing
  UsesFit
  CompiledCodeFits
PROPERTIES
  OnlyRedexesOverwritten
  Halts
  
