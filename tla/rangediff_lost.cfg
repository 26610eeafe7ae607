CONSTANTS
  Olds <- MCOlds
  News <- MCNews
  NoName = ""
  CostMax = 65536
  CreationMax = 500000000
SPECIFICATION Spec
CHECK_DEADLOCK FALSE
INVARIANT OldCommitsListed
