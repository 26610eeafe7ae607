CONSTANTS
  Sessions = {s1, s2}
  NoSession = none
  Keys <- MCKeys
  Targets <- MCTargets
  Names <- MCNames
  Shas <- MCShas
  Commands <- ResubmitCommands
  MaxCommands = 2
  MaxTime = 0
SPECIFICATION Spec
SYMMETRY SessionSymmetry
INVARIANT NoPatchTwice
