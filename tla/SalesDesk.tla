----------------------------- MODULE SalesDesk -----------------------------
(***************************************************************************)
(* Sales, returns, sales orders, warranty claims and loyalty points, and   *)
(* what they promise together: they meet in the stock of a shelf and in    *)
(* the customer's total_spent and points.                                  *)
(***************************************************************************)
EXTENDS SalesReturns, SalesOrders, WarrantyClaims

DeskRows == LoyaltyRows \cup SaleRows \cup OrderRows \cup ClaimRows

SpentAtStart ==
    MapThenSumSet(LAMBDA s : Existing[s], Sale) - MapThenSumSet(LAMBDA r : Existing[r], Return)

DeskInitialRow(r) ==
    CASE r \in LoyaltyRows -> LoyaltyInitialRow(r, SpentAtStart)
      [] r \in SaleRows -> SaleInitialRow(r)
      [] r \in OrderRows -> OrderInitialRow(r)
      [] r \in ClaimRows -> NoClaim

DeskStep(t) == SaleStep(t) \/ ReturnStep(t) \/ OrderStep(t) \/ LoyaltyStep(t) \/ ClaimStep(t)

-----------------------------------------------------------------------------
(* The tables, as anyone outside a transaction reads them. *)

SoldBy(s) == committed[Items(s)].n
TakenBackBy(r) == committed[Returned(r)]
TotalOf(s) == IF committed[TotalAmount(s)] = NoSale THEN 0 ELSE committed[TotalAmount(s)]
LinesOf(o) == MapThenSumSet(LAMBDA by : committed[Lines(o, by)], Makers)
OrderOf(o) == committed[OrderRow(o)]

\* What a document has moved on each shelf, and in all.
PlacesOf(d) == [p \in Shelf |-> committed[Stock(p)][d]]
MovedInAll(d) == SumFunction(PlacesOf(d))

\* The shelf that a sale or return is made for, and the one that its edits find.
Edits == {"edit_sale", "edit_return"}
ShelvesOf(d) == IF Edited(d, Edits) THEN {ShelfOf[d], ShelfOnEdit[d]} ELSE {ShelfOf[d]}
OnItsShelves(d) == \A p \in Shelf \ ShelvesOf(d) : PlacesOf(d)[p] = 0

\* Whatever was created, edited, removed, refused or rolled back in whatever
\* order, a sale has moved its present items out of stock and a return its
\* present units in, unless two requests about that very document ran at the
\* same time: requests about other documents disturb nothing, although they
\* share its stock rows.  That is so in all: an edit finds the warehouse anew and
\* moves stock there, not where the document was made, and these two add up.  On
\* no other shelf, nor without an edit on any but its own, does it move a unit
\* (sales.service.ts:25, 394-454; sales-returns.service.ts:26, 213-283, 330-345).
StockFollowsDocuments ==
    /\ \A s \in Sale : Apart({s}) => MovedInAll(s) = -SoldBy(s) /\ OnItsShelves(s)
    /\ \A r \in Return : Apart({r}) => MovedInAll(r) = TakenBackBy(r) /\ OnItsShelves(r)

\* No more of a sale comes back than it sold, through any number of returns and
\* their edits, unless two requests about the sale or its returns ran at the
\* same time (sales-returns.service.ts:36-41, 250-263).
ReturnedAtMostSold ==
    \A s \in Sale :
        Apart({s} \cup ReturnsOf(s)) =>
            MapThenSumSet(TakenBackBy, ReturnsOf(s)) <= SoldBy(s)

RemovedReturn == \E t \in Tx : task[t].op = "remove_return" /\ pc[t] = "committed"
DeliveredOrder == \E t \in Tx : task[t].op = "order_status"

\* A customer's total_spent is the total of the sales less what was refunded,
\* unless requests about one document ran at the same time, an order was
\* delivered as well, or a return was removed, which gives back no spending
\* (sales.service.ts:189-194, 496-505; sales-returns.service.ts:81-87, 227-305).
SpendingIsExplained ==
    (/\ \A d \in Source : Apart({d})
     /\ ~RemovedReturn
     /\ ~DeliveredOrder)
        => Spent = OpeningSpent + MapThenSumSet(TotalOf, Sale) - MapThenSumSet(TakenBackBy, Return)

\* The lines of an order add up to its total: an edit replaces what there was,
\* whatever was edited, aborted or delivered before, unless requests about the
\* order ran at the same time (sales-orders.service.ts:180-200).
OrderIsOneEdit ==
    \A o \in Order : Apart({o}) => LinesOf(o) = OrderOf(o).total

\* Stock leaves for an order only as the order becomes DELIVERED, from another
\* status, unless requests about the order ran at the same time
\* (sales-orders.service.ts:69-95).
StockLeavesOnDelivery ==
    [][\A o \in Order :
          (MovedBy(o)' # MovedBy(o) /\ Apart({o})') =>
              OrderOf(o).status # "DELIVERED" /\ OrderOf(o)'.status = "DELIVERED"]_vars

\* The serial number of a unit under warranty is sold once, and claimed once,
\* until a claim opens it again: sales that race are kept apart by the unique
\* index (sales.service.ts:142-183, warranty-claims.service.ts:59-119).
SoldWith(x) == {t \in Tx : task[t].op = "sale" /\ task[t].serial = x /\ pc[t] = "committed"}
ClaimsOf(x) == {t \in Tx : committed[Claim(t)].serial = x}
SerialsAreSoldOnce ==
    \A x \in SerialNumber :
        ClaimsOf(x) = {} => Cardinality(SoldWith(x)) <= 1
=============================================================================
