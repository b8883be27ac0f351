---------------------------- MODULE MCSmsCredits ----------------------------
(* Four requests on a balance of two: messages of one or two segments, and  *)
(* a package of three credits.                                              *)
EXTENDS SmsCredits, TLC

CONSTANTS r1, r2, r3, r4

Four == {r1, r2, r3, r4}
Symmetry == Permutations(Four)
MCSegments == {1, 2}
MCPackage == {3}
=============================================================================
