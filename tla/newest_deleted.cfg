CONSTANTS
  s1 = s1
  s2 = s2
  here = here
  Projects = {here}
  Sessions = {s1, s2}
  Home <- AtHome
  Verdict <- Alive
  Fresh = 1
  Cutoff = 1
  Absent = Absent
  Undatable = Undatable
  None = None
  Sweepers = {w1}
  Cwd = here
  KeepLast = 0
  Addressable <- HashNames
SPECIFICATION SpecHere
PROPERTY NewestNeverDeleted
VIEW Undated
CONSTRAINT FirstSession
