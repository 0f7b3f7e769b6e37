SPECIFICATION Spec
CONSTANTS
  Slices <- MCSlices
  MaxProbes = 2
  Budget = 3
  PerFamily = 2
  Saturated = 1
  PerStratum = 1
  MaxRuns = 1
  r1 = r1
  r2 = r2
  Rounds = {r1, r2}
  Prefix <- MCPrefix
  Refuted <- MCRefuted
  Corpus <- MCCorpus
  Covered = TRUE
  RoundBudget = 0
  ShardSize = 1
  Workers = 1
  LeanMay <- MCLeanMay
  MaxInvocations = 3
  None = None
  Nothing = Nothing
SYMMETRY MCSymmetry
CONSTRAINT Bounded
INVARIANTS
  LanesAgree
  ProbesEarned
  VerdictsSpoken
PROPERTIES
  RoundKept
CHECK_DEADLOCK FALSE
