CONSTANTS
  p = p
  q = q
  f1 = f1
  f2 = f2
  f3 = f3
  f4 = f4
  m1 = m1
  m2 = m2
  Absent = Absent
  Link = Link
  NoFile = NoFile
  Writers <- TwoWriters
  Files <- FourFiles
  Manifests <- TwoManifests
  Layouts = {"folded"}
  Faults = {}
SPECIFICATION Spec
SYMMETRY Sym
INVARIANTS ApprovedIsReviewed
