CONSTANTS
  Olds <- MCOlds
  News <- MCNews
  NoName = ""
  CostMax = 65536
  CreationMax = 500000000
  Files <- MCFiles
  NoEntity = none
  none = none
SPECIFICATION ReviewSpec
INVARIANT EveryCommitOnce
INVARIANT IdenticalShownEqual
INVARIANT PairedWhenClose
INVARIANT FilesAccounted
INVARIANT SummaryTells
CHECK_DEADLOCK FALSE
