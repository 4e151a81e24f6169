SPECIFICATION Spec
CONSTANTS
  Node = {n1, n2, n3}
  MaxRound = 4
  MaxCrash = 0
  MaxCorrupt = 1
  Lossy = TRUE
SYMMETRY NodeSymmetry
INVARIANT ContiguousCommits
INVARIANT CommitSetsShrink
