---------------------------- MODULE SalesReturns ----------------------------
(***************************************************************************)
(* SalesReturnsService: create, update (with other items) and remove of a  *)
(* return, each one transaction.  What may still be returned is computed   *)
(* from a read of the sale that nothing locks.                             *)
(***************************************************************************)
EXTENDS Sales

SaleReturned(t) == SaleOf[source[t]]
SeenReturn(t) == Sees(t, Returned(source[t]))

\* task[t].lines are the quantities of the lines that name the sale's item.
Units(t) == MapThenSumSet(LAMBDA i : task[t].lines[i], DOMAIN task[t].lines)

WithinSoldAnyway(t, others) ==
    \A i \in DOMAIN task[t].lines :
        task[t].lines[i] <= SeenItems(t, SaleReturned(t)).n

\* Each line alone is compared with what is left of the item.
WithinSold(t, others) ==
    \A i \in DOMAIN task[t].lines :
        task[t].lines[i] <= SeenItems(t, SaleReturned(t)).n - others

-----------------------------------------------------------------------------
(* create *)

ReadForReturn(t) ==
    /\ At(t, "return", "idle")
    /\ SeenReturn(t) = 0
    /\ SeenItems(t, SaleReturned(t)) # NoItems
    /\ WithinSold(t, SeenReturned(t, SaleReturned(t)))
    /\ ReadsToPost(t, SeenItems(t, SaleReturned(t)).by, Units(t), "take_back")

\* The stock movement, and the return of the item that was read.
TakeBack(t) ==
    /\ pc[t] = "take_back"
    /\ SeenItems(t, SaleReturned(t)).by = read[t]
    /\ Writes(t, Stock(Shop(t)) :> Moved(t, Shop(t), Units(t))
                    @@ Returned(source[t]) :> Units(t),
              "refund")

\* An update of the sale has replaced the item meanwhile.
ItemReplaced(t) ==
    /\ pc[t] = "take_back"
    /\ Lockable(t, Stock(Shop(t)))
    /\ SeenItems(t, SaleReturned(t)).by # read[t]
    /\ Throws(t, "failed")

Refund(t) ==
    /\ pc[t] = "refund"
    /\ Writes(t, Customer :> [SeenCustomer(t) EXCEPT !.spent = @ - Units(t)], "post")

FinishReturn(t) == At(t, "return", "commit") /\ Ends(t, << >>)

-----------------------------------------------------------------------------
(* update *)

\* The other returns of the sale are read with it.
ReadForReturnEdit(t) ==
    /\ At(t, "edit_return", "idle")
    /\ SeenReturn(t) # 0
    /\ Reads(t, [n |-> SeenReturn(t), by |-> SeenItems(t, SaleReturned(t)).by,
                 fits |-> WithinSold(t, SeenReturned(t, SaleReturned(t)) - SeenReturn(t))],
             "edit_return")

\* The old units leave the stock of the sale's store, whichever store took them
\* back, and total_spent has their refund back.
ReverseReturn(t) ==
    /\ pc[t] = "edit_return"
    /\ StockLeft(t, EditShop(t), -read[t].n)
    /\ Writes(t, Stock(EditShop(t)) :> Moved(t, EditShop(t), -read[t].n)
                    @@ Customer :> [SeenCustomer(t) EXCEPT !.spent = @ + read[t].n],
              "return_anew")

ReverseShort(t) == pc[t] = "edit_return" /\ Shortage(t, EditShop(t), -read[t].n)

\* The new units are checked, come in, replace the items, and are refunded.
ReturnAnew(t) ==
    /\ pc[t] = "return_anew"
    /\ read[t].fits
    /\ SeenReturn(t) # 0
    /\ Ends(t, Stock(EditShop(t)) :> Moved(t, EditShop(t), Units(t))
                 @@ Returned(source[t]) :> Units(t)
                 @@ Customer :> [SeenCustomer(t) EXCEPT !.spent = @ - Units(t)])

\* More than is left, or the return was removed meanwhile.
ReturnNotAnew(t) ==
    /\ pc[t] = "return_anew"
    /\ ~read[t].fits \/ SeenReturn(t) = 0
    /\ Throws(t, IF read[t].fits THEN "failed" ELSE "refused")

-----------------------------------------------------------------------------
(* remove *)

ReadForRemove(t) ==
    /\ At(t, "remove_return", "idle")
    /\ SeenReturn(t) # 0
    /\ Reads(t, [n |-> SeenReturn(t)], "remove_return")

\* In the return's own store again; deleteMany minds no return that is gone.
RemoveReturn(t) ==
    /\ pc[t] = "remove_return"
    /\ StockLeft(t, Shop(t), -read[t].n)
    /\ Ends(t, Stock(Shop(t)) :> Moved(t, Shop(t), -read[t].n) @@ Returned(source[t]) :> 0)

RemoveShort(t) == pc[t] = "remove_return" /\ Shortage(t, Shop(t), -read[t].n)

ReturnStep(t) ==
    \/ ReadForReturn(t) \/ TakeBack(t) \/ ItemReplaced(t) \/ Refund(t) \/ FinishReturn(t)
    \/ ReadForReturnEdit(t) \/ ReverseReturn(t) \/ ReverseShort(t)
    \/ ReturnAnew(t) \/ ReturnNotAnew(t)
    \/ ReadForRemove(t) \/ RemoveReturn(t) \/ RemoveShort(t)
=============================================================================
