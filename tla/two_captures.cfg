CONSTANTS
  a = a
  b = b
  w1 = w1
  w2 = w2
  c1 = c1
  c2 = c2
  h1 = h1
  h2 = h2
  h3 = h3
  h4 = h4
  NoCapture = NoCapture
  NoHook = NoHook
  NoThread = NoThread
  Threads <- AllOfTwo
  Callers <- TwoCallers
  Workers <- OneWorker
  Captures <- TwoCaptures
  Hooks <- FourHooks
  MaxRetained = 3
  StartInputs = {"valid"}
  FinishInputs = {"failure"}
  Faults = {}
SPECIFICATION SystemSpec
SYMMETRY Sym
INVARIANTS NoCrossCapture ContextRestored OneOwner
CHECK_DEADLOCK FALSE
