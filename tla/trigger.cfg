CONSTANTS
  l1 = l1
  l2 = l2
  l3 = l3
  Launches = {l1, l2, l3}
  Interval = 2
  MaxClock = 3
  NoStamp = NoStamp
  Corrupt = Corrupt
SPECIFICATION Spec
SYMMETRY Symmetry
INVARIANTS
  FirstSweepNeverApplies
  OneSweepPerInterval
CHECK_DEADLOCK FALSE
