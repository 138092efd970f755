CONSTANTS
  a = a
  b = b
  w1 = w1
  w2 = w2
  c1 = c1
  c2 = c2
  h1 = h1
  h2 = h2
  h3 = h3
  h4 = h4
  NoCapture = NoCapture
  NoHook = NoHook
  NoThread = NoThread
  Threads <- AllOfOne
  Callers <- OneCaller
  Workers <- TwoWorkers
  Captures <- OneCapture
  Hooks <- ThreeHooks
  MaxRetained = 1
  StartInputs = {"valid"}
  FinishInputs = {"returned","failure"}
  Faults = {}
SPECIFICATION SystemSpec
SYMMETRY Sym
INVARIANTS FailureNeverPasses
CHECK_DEADLOCK FALSE
