CONSTANTS
  s1 = s1
  s2 = s2
  s3 = s3
  live = live
  dead = dead
  unknown = unknown
  Projects = {live, dead, unknown}
  Sessions = {s1, s2, s3}
  Home <- Homes
  Verdict <- Verdicts
  Fresh = 2
  Cutoff = 2
  Absent = Absent
  Undatable = Undatable
  None = None
  Sweepers = {w1}
  KeepLast = 1
  Unstatable <- FirstHash
SPECIFICATION SpecHere
INVARIANTS
  OnlyUnprotectedPlanned
  PointerWindow
  LeaseWindow
  RetentionFloor
  UnreadProjectUntouched
  EveryCandidateReported
PROPERTIES
  Collects
  SweepEnds
CONSTRAINTS
  FirstSession
  DeadFirst
