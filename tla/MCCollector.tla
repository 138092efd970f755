----------------------------- MODULE MCCollector -----------------------------
(* Constants and symmetry for model-checking Collector under any client.   *)
EXTENDS Collector, TLC

CONSTANTS t1, t2, c1, h1, h2

TwoThreads == {t1, t2}
OneCapture == {c1}
TwoHooks   == {h1, h2}

Sym == Permutations(Threads) \cup Permutations(Hooks)
=============================================================================
