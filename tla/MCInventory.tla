---------------------------- MODULE MCInventory ----------------------------
(* Three concurrent requests over two stock rows.  The documents are the   *)
(* ones that collide: sales locking the rows in both orders, a receipt, an *)
(* edit of a sale (reversal, then the new line) and a zero line.           *)
EXTENDS Inventory, TLC

CONSTANTS t1, t2, t3, rice, oil, none

MCTx == {t1, t2, t3}
MCRow == {rice, oil}

On(r, d) == [row |-> r, delta |-> d]

MCDocument ==
    { <<On(rice, -1), On(oil, -1)>>,
      <<On(oil, -1), On(rice, -1)>>,
      <<On(rice, 2)>>,
      <<On(rice, 1), On(rice, -2)>>,
      <<On(oil, -1), On(rice, 0)>> }

MCOpening == (rice :> 1) @@ (oil :> 2)
=============================================================================
