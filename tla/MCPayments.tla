---------------------------- MODULE MCPayments ----------------------------
(* Three payments, two of them of one customer; both owed 5.  Amounts of 1  *)
(* and 2, each request about any of the payments.                           *)
EXTENDS CustomerPayments, TLC

CONSTANTS t1, t2, t3, cash, bkash, card, rahim, karim, none

MCSource == {cash, bkash, card}
TwoCustomers == [s \in MCSource |-> IF s = card THEN karim ELSE rahim]
MCRow ==
    PostingRows \cup ({"customer"} \X Buyer) \cup ({"payment"} \X MCSource)
MCAmount == {1, 2}

Two == {t1, t2}
Three == {t1, t2, t3}
Symmetry == Permutations(Three)
=============================================================================
