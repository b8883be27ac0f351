----------------------------- MODULE MCBilling -----------------------------
(* Two payments, periods of two days and one day of grace.                  *)
EXTENDS Billing, TLC

CONSTANTS first, second, h1, h2, w1, w2

MCAttempt == {first, second}
OneAttempt == {first}
OneHandler == {h1}
TwoHandlers == {h1, h2}
OneWorker == {w1}
TwoWorkers == {w1, w2}
Symmetry == Permutations({h1, h2}) \cup Permutations({w1, w2})
=============================================================================
