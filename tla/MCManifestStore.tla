--------------------------- MODULE MCManifestStore ---------------------------
(* Constants and symmetry for model-checking ManifestStore.                *)
EXTENDS ManifestStore, TLC

CONSTANTS p, q, f1, f2, f3, f4, m1, m2

TwoWriters   == {p, q}
FourFiles    == {f1, f2, f3, f4}
TwoManifests == {m1, m2}

Sym == Permutations(Files) \cup Permutations(Writers)
=============================================================================
