--------------------------- MODULE MCOfflineSales ---------------------------
(***************************************************************************)
(* Two confirmations for what may never happen; one for what must: of one  *)
(* sale that never arrives the counterexample is as long as any.           *)
(***************************************************************************)
EXTENDS OfflineSales

CONSTANTS k1, k2, none

TwoCheckouts == {k1, k2}
OneCheckout == {k1}
=============================================================================
