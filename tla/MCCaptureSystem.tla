--------------------------- MODULE MCCaptureSystem ---------------------------
(* Constants and symmetry for model-checking CaptureSystem.                *)
EXTENDS CaptureRefinement, TLC

CONSTANTS a, b, w1, w2, c1, c2, h1, h2, h3, h4

OneCaller  == {a}
TwoCallers == {a, b}
OneWorker  == {w1}
TwoWorkers == {w1, w2}
AllOfOne   == {a, w1, w2}
OneOfEach  == {a, w1}
AllOfTwo   == {a, b, w1}

OneCapture  == {c1}
TwoCaptures == {c1, c2}
ThreeHooks  == {h1, h2, h3}
FourHooks   == {h1, h2, h3, h4}

Sym == Permutations(Hooks) \cup Permutations(Captures)
         \cup Permutations(Callers) \cup Permutations(Workers)
=============================================================================
