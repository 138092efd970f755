CONSTANTS
  a = a
  b = b
  w1 = w1
  w2 = w2
  c1 = c1
  c2 = c2
  h1 = h1
  h2 = h2
  h3 = h3
  h4 = h4
  NoCapture = NoCapture
  NoHook = NoHook
  NoThread = NoThread
  Threads <- OneOfEach
  Callers <- OneCaller
  Workers <- OneWorker
  Captures <- OneCapture
  Hooks <- ThreeHooks
  MaxRetained = 1
  StartInputs = {"valid"}
  FinishInputs = {"returned"}
  Faults = {"vanish"}
SPECIFICATION FairSystemSpec
INVARIANTS LimitFailsClosed
PROPERTIES CallsReturn
CHECK_DEADLOCK FALSE
