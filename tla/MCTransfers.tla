---------------------------- MODULE MCTransfers ----------------------------
(* A transfer of one unit of rice and two of oil.  The source has stock to *)
(* send it twice; the receipts cover both orders, parts and an excess.     *)
EXTENDS WarehouseTransfers, TLC

CONSTANTS t1, t2, t3, rice, oil, none

MCProduct == {rice, oil}
MCRow ==
    {Transfer, Voucher} \cup {Source(p) : p \in MCProduct} \cup {Received(p) : p \in MCProduct}
MCSent == (rice :> 1) @@ (oil :> 2)
MCOpening == (rice :> 3) @@ (oil :> 4)

Units(p, n) == [product |-> p, quantity |-> n]
MCReceipt ==
    { <<Units(rice, 1)>>, <<Units(oil, 1)>>, <<Units(oil, 3)>>,
      <<Units(rice, 1), Units(oil, 2)>>, <<Units(oil, 2), Units(rice, 1)>> }

Two == {t1, t2}
Three == {t1, t2, t3}
Symmetry == Permutations(Three)
=============================================================================
