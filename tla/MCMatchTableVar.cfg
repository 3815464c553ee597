CONSTANTS
  Tag = {0, 1, 2}
  ANY = ANY
  MaxBranches = 4
SPECIFICATION Spec
INVARIANT
  MissingMeansMissing
