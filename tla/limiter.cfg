CONSTANTS
  Callers = {c1, c2}
  Nobody = nobody
  Max = 2
  Interval = 2
  MaxTime = 8
SPECIFICATION FairSpec
INVARIANT LimiterInv
INVARIANT AtMostTwice
INVARIANT RefusedOnlyWhenFull
PROPERTY ImplementsCap
PROPERTY Served
