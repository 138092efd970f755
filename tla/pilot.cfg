CONSTANTS
  Projects <- MCProjects
  Archives <- MCArchives
  Natures = {"normal", "stubborn", "unkillable", "foreign"}
  Faults = {"tools", "download", "popen", "marker", "linger", "output", "baseline", "edit"}
  MaxSignals = 2
  MaxMembers = 5
  MaxExpanded = 3
SPECIFICATION Spec
INVARIANTS ResultIsClean NoSignalLost SignalReachesGroup 
PROPERTIES SignalEndsPilot
CHECK_DEADLOCK FALSE
