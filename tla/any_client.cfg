CONSTANTS
  t1 = t1
  t2 = t2
  c1 = c1
  h1 = h1
  h2 = h2
  NoCapture = NoCapture
  NoHook = NoHook
  NoThread = NoThread
  Threads <- TwoThreads
  Captures <- OneCapture
  Hooks <- TwoHooks
  MaxRetained = 1
  StartInputs = {"valid", "null", "throws"}
  FinishInputs = {"returned", "failure", "null failure"}
SPECIFICATION Spec
SYMMETRY Sym
INVARIANTS TypeOK RetainedBound SnapshotAgrees
PROPERTIES EvidenceIsFinal
