------------------------------- MODULE Sales -------------------------------
(***************************************************************************)
(* SalesService: create and update of a sale, each one transaction.  A     *)
(* unit costs one; a sale has one item, and sells to the customer.         *)
(***************************************************************************)
EXTENDS Loyalty

CONSTANTS
    Sale,       \* the documents that are sales
    SaleOf,     \* SaleOf[r]: the sale that return r is of
    Existing,   \* Existing[d]: units of each document at the start, or 0
    ShelfOnEdit,   \* ShelfOnEdit[d]: the shelf that an edit of sale or return d finds
    SerialNumber,  \* serial numbers of units under warranty
    NoSerial

ASSUME SerialAssumption == NoSerial \notin SerialNumber

Return == DOMAIN SaleOf
ReturnsOf(s) == {r \in Return : SaleOf[r] = s}

Items(s) == <<"items", s>>       \* its SaleItems, and the request that made them
TotalAmount(s) == <<"total", s>>       \* Sale.total_amount
Returned(r) == <<"return", r>>   \* the units a SalesReturn takes back, or 0
Serial(x) == <<"serial", x>>     \* the ProductSerial

SaleRows ==
    {Items(s) : s \in Sale} \cup {TotalAmount(s) : s \in Sale}
        \cup {Returned(r) : r \in Return} \cup {Serial(x) : x \in SerialNumber}

NoItems == [by |-> NoTx, n |-> 0]
NoSale == -1
Unsold == [status |-> "none", sale |-> "none"]

SaleInitialRow(r) ==
    CASE r[1] = "items" -> [by |-> NoTx, n |-> Existing[r[2]]]
      [] r[1] = "total" -> IF Existing[r[2]] = 0 THEN NoSale ELSE Existing[r[2]]
      [] r[1] = "return" -> Existing[r[2]]
      [] r[1] = "serial" -> Unsold

\* What the documents had moved before the requests.
SaleMovedAtStart(p) ==
    [d \in Source |->
        IF d \in DOMAIN ShelfOf /\ ShelfOf[d] = p
        THEN CASE d \in Sale -> -Existing[d] [] d \in Return -> Existing[d] [] OTHER -> 0
        ELSE 0]

SeenItems(t, s) == Sees(t, Items(s))
SeenReturned(t, s) == MapThenSumSet(LAMBDA r : Sees(t, Returned(r)), ReturnsOf(s))

-----------------------------------------------------------------------------
(* create *)

\* The loyalty preview, from points as they are now.
PreviewSale(t) ==
    /\ At(t, "sale", "idle")
    /\ SeenItems(t, source[t]) = NoItems
    /\ MayRedeem(SeenCustomer(t).points, task[t].points)
    /\ LET redeemed == Redeemable(SeenCustomer(t).points, task[t].points, task[t].n)
       IN ReadsToPost(t, redeemed, task[t].n - redeemed.discount, "sell")

\* The sale, its item and the stock movement.
Sell(t) ==
    /\ pc[t] = "sell"
    /\ StockLeft(t, Shop(t), -task[t].n)
    /\ Writes(t, Items(source[t]) :> [by |-> t, n |-> task[t].n]
                    @@ TotalAmount(source[t]) :> amount[t]
                    @@ Stock(Shop(t)) :> Moved(t, Shop(t), -task[t].n),
              IF task[t].serial = NoSerial THEN "book" ELSE "serial")

SellShort(t) == pc[t] = "sell" /\ Shortage(t, Shop(t), -task[t].n)

\* The serial of the unit: one that is SOLD is refused, another is taken or made.
CheckSerial(t) ==
    /\ pc[t] = "serial"
    /\ LET serial == Sees(t, Serial(task[t].serial)) IN
       IF serial.status = "SOLD"
       THEN Throws(t, "refused")
       ELSE Reads(t, read[t] @@ ("known" :> (serial # Unsold)), "register")

SerialWritable(t) == TRUE

SerialRegistrable(t) == read[t].known \/ Sees(t, Serial(task[t].serial)) = Unsold

\* An update, or an insert that the unique index may refuse.
RegisterSerial(t) ==
    /\ pc[t] = "register"
    /\ SerialRegistrable(t)
    /\ Writes(t, Serial(task[t].serial) :> [status |-> "SOLD", sale |-> source[t]], "book")

SerialExists(t) ==
    /\ pc[t] = "register"
    /\ Lockable(t, Serial(task[t].serial))
    /\ ~SerialRegistrable(t)
    /\ Throws(t, "failed")

\* total_spent, and recordSaleLoyalty.
BookSale(t) ==
    /\ pc[t] = "book"
    /\ Writes(t, SaleBooked(t, amount[t], read[t].points), "post")

FinishSale(t) == At(t, "sale", "commit") /\ Ends(t, << >>)

-----------------------------------------------------------------------------
(* update, with other items and the same customer *)

ReadSale(t) ==
    /\ At(t, "edit_sale", "idle")
    /\ SeenItems(t, source[t]) # NoItems
    /\ Reads(t, [n |-> SeenItems(t, source[t]).n, total |-> Sees(t, TotalAmount(source[t]))], "edit_sale")

\* A sale keeps its store and no warehouse: whichever it was made from, an edit of
\* it, or of a return of it, moves stock in the warehouse that its store then has
\* by default.
EditShop(t) == ShelfOnEdit[source[t]]

ItemsNotTaken(t) == read[t].n

\* The old items go back to stock and are deleted, and the new ones leave it.
\* An item that was returned cannot be deleted.
ItemsChanged(t) == read[t].n - task[t].n

ReplaceItems(t) ==
    /\ pc[t] = "edit_sale"
    /\ \A r \in ReturnsOf(source[t]) : Sees(t, Returned(r)) = 0
    /\ StockLeft(t, EditShop(t), ItemsChanged(t))
    /\ Writes(t, Stock(EditShop(t)) :> Moved(t, EditShop(t), ItemsChanged(t))
                    @@ Items(source[t]) :> [by |-> t, n |-> task[t].n],
              "edit_total")

EditShort(t) == pc[t] = "edit_sale" /\ Shortage(t, EditShop(t), ItemsChanged(t))

ItemsHaveReturns(t) ==
    /\ pc[t] = "edit_sale"
    /\ Lockable(t, Stock(EditShop(t)))
    /\ \E r \in ReturnsOf(source[t]) : Sees(t, Returned(r)) # 0
    /\ Throws(t, "failed")

EditTotalInFull(t) ==
    /\ pc[t] = "edit_total"
    /\ Ends(t, TotalAmount(source[t]) :> task[t].n
                 @@ Customer :> [SeenCustomer(t) EXCEPT !.spent = @ + task[t].n])

\* total_spent changes by the difference from the total that was read.
EditTotal(t) ==
    /\ pc[t] = "edit_total"
    /\ Ends(t, TotalAmount(source[t]) :> task[t].n
                 @@ Customer :> [SeenCustomer(t) EXCEPT !.spent = @ + task[t].n - read[t].total])

SaleStep(t) ==
    \/ PreviewSale(t) \/ Sell(t) \/ SellShort(t) \/ CheckSerial(t) \/ RegisterSerial(t)
    \/ SerialExists(t) \/ BookSale(t) \/ FinishSale(t)
    \/ ReadSale(t) \/ ReplaceItems(t) \/ EditShort(t) \/ ItemsHaveReturns(t) \/ EditTotal(t)
=============================================================================
