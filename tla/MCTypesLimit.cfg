CONSTANTS
  Limit = 100
  MaxDepth = 60
  Half = 8
  Source <- MCSource
  Candidates <- MCCandidates
  Selected = {"min"}
SPECIFICATION Spec
INVARIANT RefusedOnlyIfUntypable
