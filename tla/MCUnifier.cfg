CONSTANTS
  Limit = 2
  MaxDepth = 8
  MaxAsked = 3
  Type <- MCType
  Solutions <- MCSolutions
SPECIFICATION FairSpec
INVARIANTS
  UInv
  SolutionsKept
  RefusalsJustified
  LimitMeansRing
PROPERTY
  UnifyEnds
