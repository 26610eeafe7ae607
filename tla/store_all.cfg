CONSTANTS
  Sessions = {s1, s2}
  NoSession = none
  Keys <- MCKeys
  Targets <- MCTargets
  Names <- MCNames
  Shas <- MCShas
  Commands <- AllCommands
  MaxCommands = 4
  MaxTime = 1
SPECIFICATION Spec
SYMMETRY SessionSymmetry
INVARIANT TypeOK
INVARIANT OriginLogged
INVARIANT RemovalLogged
INVARIANT NoDanglingRows
INVARIANT RevisionsInOrder
 
INVARIANT PullIsWhole
PROPERTY RemovedByCreator
PROPERTY RevisionsOnlyShiftDown
