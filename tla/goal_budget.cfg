CONSTANTS
  g1 = g1
  g2 = g2
  l1 = l1
  l2 = l2
  Goals = {g1}
  Loops = {l1}
  MaxTurns = 2
  MaxWrites = 1
  None = None
SPECIFICATION FairSpec
INVARIANT GoalTurnsBounded
PROPERTY StopReachesLoop
