---------------------------- MODULE MCStockTakes ----------------------------
(* A session over rice and oil; any difference needs a review.              *)
EXTENDS StockTakes, TLC

CONSTANTS t1, t2, rice, oil, none

MCOrder == <<oil, rice>>
MCRow == {<<"session">>, <<"voucher">>} \cup ({"line", "stock"} \X {rice, oil})
MCOpening == (rice :> 1) @@ (oil :> 0)

Two == {t1, t2}
Symmetry == Permutations(Two)

\* The statuses a request may ask for: the screen does not offer POSTED, and
\* the endpoint accepts it.
Accepted == {"COUNTING", "REVIEW", "CANCELLED", "POSTED"}
=============================================================================
