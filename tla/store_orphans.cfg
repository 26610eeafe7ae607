CONSTANTS
  Sessions = {s1, s2}
  NoSession = none
  Keys <- MCKeys
  Targets <- MCTargets
  Names <- MCNames
  Shas <- MCShas
  Commands <- AllCommands
  MaxCommands = 2
  MaxTime = 0
SPECIFICATION Spec
SYMMETRY SessionSymmetry
INVARIANT PatchesRemovedToo
