CONSTANTS
  Limit = 100
  MaxDepth = 60
  Half = 8
  Selected = {
    "foldr", "lazy", "nats", "lte", "shared", "holds", "strings", "greets", "wraps", "rounds",
    "divzero", "divmin", "partial", "param", "variable", "easy", "join",
    "poly", "compose", "plain", "bah", "even", "group",
    "bad_left", "bad_right", "bad_branches", "bad_nonsum", "bad_selfapp", "bad_loops",
    "bad_toomany", "bad_toofew", "bad_noconstr", "bad_noname", "bad_notype", "bad_twolists",
    "bad_concat", "bad_folds", "bad_group" }
  Source <- MCSource
  Candidates <- MCCandidates
SPECIFICATION Spec
INVARIANTS
  InferredTypesExact
  RefusedOnlyIfUntypable
  WellTypedDoNotGoWrong
  MatchesAnnotated
PROPERTY Decided
