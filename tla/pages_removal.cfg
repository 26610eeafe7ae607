CONSTANTS
  Sessions = {s1}
  NoSession = none
  Keys <- MCKeys
  Targets <- MCTargets
  Names <- MCNames
  Shas <- MCShas
  Commands <- PageCommands
  MaxCommands = 3
  MaxTime = 0
  Repos <- MCRepos
  RepoOf <- MCRepoOf
  Requests <- MCRequests
  MaxRequests = 1
  MaxLost = 1
SPECIFICATION PageSpec
INVARIANT PageOutlivesRemoval
