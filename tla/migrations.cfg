CONSTANTS
  Procs = {p1, p2}
  NoProc = none
  Starts = {0, 1, 4, 5, 6, 8, 9, 10, 16, 17, 18, 19, 20, 21, 22}
  Legacy <- MCLegacy
  Pushes <- MCPushes
  MaxPushes = 2
  MaxStops = 1
SPECIFICATION FairSpec
INVARIANT ServedCurrent
INVARIANT OwnRows
INVARIANT LegacyKept
PROPERTY NamesHold
PROPERTY UpgradeEnds
CHECK_DEADLOCK FALSE
