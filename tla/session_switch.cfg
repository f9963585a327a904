CONSTANTS
  s1 = s1
  s2 = s2
  s3 = s3
  s4 = s4
  m1 = m1
  m2 = m2
  m3 = m3
  Sessions = {s1, s2, s3}
  Messages = {m1, m2}
  MaxWrites = 1
  MaxAwaits = 1
  None = None
SPECIFICATION Spec
SYMMETRY Symmetry
INVARIANTS
  TurnIsOnScreen
  PointerFollows
  ScreenIsOfSession
PROPERTY RewindCutsWhatItShows
