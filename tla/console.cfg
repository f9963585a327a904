SPECIFICATION Spec
CONSTANTS
  Launches <- MCLaunches
  BindingsFile <- MCBindingsFile
  Keys = {"ctrl-c", "ctrl-o", "ctrl-g", "escape", "return", "letter"}
  Modes <- MCModes
  LastSession = 2
INVARIANTS WaitsAreSeen ShellsConfined
PROPERTY KeysSpareTheAskedTurn
CHECK_DEADLOCK FALSE
