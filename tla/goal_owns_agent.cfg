CONSTANTS
  g1 = g1
  g2 = g2
  l1 = l1
  l2 = l2
  Goals = {g1}
  Loops = {l1, l2}
  MaxTurns = 1
  MaxWrites = 2
  None = None
SPECIFICATION Spec
PROPERTY GoalOwnsAgent
