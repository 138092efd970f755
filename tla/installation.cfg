CONSTANTS
  Published <- MCPublished
  Algorithms <- MCAlgorithms
  Order <- MCOrder
  Artifacts <- MCArtifacts
  Exact <- MCExact
  Directories <- MCDirectories
  Installers = {"i1", "i2"}
  Preparers = {"k1", "k2"}
  Delegate = "i1"
  Helper = "k1"
  InstallFaults = {"io", "interrupt", "crash", "alter"}
  PrepareFaults = {"io", "crash"}
  PublicFaults = {"io", "interrupt", "occupied", "redirect", "curl", "digest", "timeout"}
  Chunks = 2
  PipeCapacity = 1
  Components = {"a", "A", "nul"}
  Unportable = {"nul"}
  Fold <- MCFold
  MaxDepth = 2
  MaxTotal = 5
  MaxEntries = 3
  LongestPath = 3
SPECIFICATION Spec
INVARIANTS ArchiveUnpacks InstalledIsDeclared  PreparedComplete 
PROPERTIES PublicEnds
CHECK_DEADLOCK FALSE
