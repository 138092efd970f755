CONSTANTS
  p = p
  q = q
  f1 = f1
  f2 = f2
  f3 = f3
  f4 = f4
  Absent = Absent
  Link = Link
  NoFile = NoFile
  Writers = {p}
  Files = {f1, f2, f3}
  Manifests = {"good", "shape", "moved", "lenient", "reshaped", "tight", "once", "twice", "thrice", "failed", "unknown", "diagnosed", "foreign", "later", "unpolicied", "claimed", "doubled", "zero", "wrapped", "lying", "overflow", "crowded", "loose", "long", "edge", "huge"}
  Quick = {"good", "moved", "huge"}
  Stored = {"good", "moved", "edge"}
  Document <- MCHuge
  Snapshots <- MCSnapshots
  AliasMaps <- MCAliasMaps
  Policies <- MCPolicies
  Layouts = {"separate", "folded", "same"}
  Faults = {"io", "crash"}
  Ceiling = 3
  IntLimit = 8
  MaxBytes = 2
  MaxDisplayed = 2
SPECIFICATION ReviewSpec
SYMMETRY Sym
INVARIANTS TypeOK ApprovedIsReviewed DecodedIsExact VerdictIsEquivalence AssertionsAgree ReviewIsSound
PROPERTIES CandidateNeverLost
CHECK_DEADLOCK FALSE
