SPECIFICATION Spec
CONSTANTS
  Voters = {v1, v2, v3, v4}
  Enough = 3
  MaxCasts = 5
SYMMETRY Symmetry
CHECK_DEADLOCK FALSE
INVARIANTS
  AlwaysPasses
  AckedIsCounted
  RulesKept
