CONSTANTS
  Sessions = {s1, s2}
  NoSession = none
  Keys <- MCKeys
  Targets <- MCTargets
  Names <- MCNames
  Shas <- MCShas
  Commands <- EveryCommand
  MaxCommands = 3
  MaxTime = 0
SPECIFICATION FairSpec
INVARIANT TargetsUnique
 
PROPERTY WriterReleased
PROPERTY RefinesBook
