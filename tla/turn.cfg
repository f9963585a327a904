SPECIFICATION Spec
CONSTANTS
  PersonalMcp = {"notes"}
  ProjectMcp = {"notes", "build"}
  OperatorSkills = {"review"}
  DocumentsOf <- MCDocumentsOf
  StartingDisks <- MCStartingDisks
  StartingStores = {{}, {"list"}}
  OldFormat = {"user"}
  Env <- Nothing
  TrustAll = FALSE
  Kernel = TRUE
  Search = TRUE
  Memory = TRUE
  Calls = {"apply_patch", "run_shell"}
  MaxEdits = 1
CHECK_DEADLOCK FALSE
INVARIANTS RepositoryTightensOnly NothingFromUntrusted HooksAreApproved LoadedIsCurrent
PROPERTY AutoApprovedIsConfined
