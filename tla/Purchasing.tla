----------------------------- MODULE Purchasing -----------------------------
(***************************************************************************)
(* PurchaseOrdersService.updateStatus, PurchasesService.create, and        *)
(* PurchaseReturnsService.  A document's number is the count of the        *)
(* documents there are, plus one, and unique.  A unit costs one.           *)
(***************************************************************************)
EXTENDS Requests

CONSTANTS
    PurchaseOrder,  \* the documents that are purchase orders
    UnitsOrdered,   \* UnitsOrdered[o]: what o orders
    Purchase,       \* the documents that are purchases
    PurchaseOf,     \* PurchaseOf[r]: the purchase that return r is of
    AtStart,        \* AtStart[d]: units of a purchase or a return at the start, or 0
    MaxDocuments    \* bound: the numbers of purchases, and of their returns

PurchaseReturn == DOMAIN PurchaseOf
ReturnsFrom(p) == {r \in PurchaseReturn : PurchaseOf[r] = p}

OrderStatus(o) == <<"po", o>>
BoughtUnits(d) == <<"units", d>>          \* of a purchase or a return, or 0
Numbered(kind, n) == <<kind, n>>          \* the document that has number n
Supplier == <<"supplier">>               \* the purchase that made the supplier it names
DocumentNumber == 1 .. MaxDocuments
Nobody == "none"

PurchasingRows ==
    {Supplier} \cup {OrderStatus(o) : o \in PurchaseOrder}
        \cup {BoughtUnits(d) : d \in Purchase \cup PurchaseReturn}
        \cup {Numbered(kind, n) : kind \in {"PUR", "PRET"}, n \in DocumentNumber}

\* Documents there are at the start have numbers 1, 2... in some order.
NumberedAtStart(kind) ==
    LET d == {e \in IF kind = "PUR" THEN Purchase ELSE PurchaseReturn : AtStart[e] # 0}
    IN CHOOSE f \in [d -> 1 .. Cardinality(d)] : \A x, y \in d : f[x] = f[y] => x = y

PurchasingInitialRow(r) ==
    CASE r = Supplier -> Nobody
      [] r[1] = "po" -> "ORDERED"
      [] r[1] = "units" -> AtStart[r[2]]
      [] OTHER -> LET f == NumberedAtStart(r[1]) IN
                  IF r[2] \in Range(f) THEN CHOOSE d \in DOMAIN f : f[d] = r[2] ELSE Nobody

PurchasesMoved(p) ==
    [d \in Source |->
        IF d \in DOMAIN ShelfOf /\ ShelfOf[d] = p
        THEN CASE d \in Purchase -> AtStart[d] [] d \in PurchaseReturn -> -AtStart[d] [] OTHER -> 0
        ELSE 0]

SeenUnits(t) == Sees(t, BoughtUnits(source[t]))

\* The number its document will ask for.
NextNumber(t, kind) == Cardinality({n \in DocumentNumber : Sees(t, Numbered(kind, n)) # Nobody}) + 1

Free(t, row) == Sees(t, row) = Nobody

\* The unique index refuses an insert.
Duplicate(t, row) ==
    /\ Lockable(t, row)
    /\ ~Free(t, row)
    /\ Throws(t, "failed")

-----------------------------------------------------------------------------
(* Purchase orders *)

MayMoveUnlessCancelled(status) == status # "CANCELLED"

MayMove(status) == status \notin {"RECEIVED", "CANCELLED"}

ReadPurchaseOrder(t) ==
    /\ At(t, "po_status", "idle")
    /\ MayMove(Sees(t, OrderStatus(source[t])))
    /\ ReadsToPost(t, Nothing, UnitsOrdered[source[t]],
                   IF task[t].status = "RECEIVED" THEN "receive_goods" ELSE "set_po_status")

SetPurchaseOrderStatus(t) ==
    /\ pc[t] = "set_po_status"
    /\ Stores(t, OrderStatus(source[t]) :> task[t].status, "committed")

ReceiveGoods(t) ==
    /\ pc[t] = "receive_goods"
    /\ Writes(t, Stock(Shop(t)) :> Moved(t, Shop(t), amount[t]), "post")

FinishReceipt(t) ==
    /\ At(t, "po_status", "commit")
    /\ Ends(t, OrderStatus(source[t]) :> "RECEIVED")

-----------------------------------------------------------------------------
(* Purchases, of a supplier that is named *)

FindSupplier(t) ==
    /\ At(t, "purchase", "idle")
    /\ SeenUnits(t) = 0
    /\ ReadsToPost(t, Nothing, task[t].n, IF Free(t, Supplier) THEN "new_supplier" ELSE "count_purchases")

NewSupplier(t) ==
    /\ pc[t] = "new_supplier"
    /\ Free(t, Supplier)
    /\ Writes(t, Supplier :> source[t], "count_purchases")

SupplierExists(t) == pc[t] = "new_supplier" /\ Duplicate(t, Supplier)

CountPurchases(t) ==
    /\ pc[t] = "count_purchases"
    /\ Reads(t, Numbered("PUR", NextNumber(t, "PUR")), "buy")

\* The purchase, its items, and their movements.
Buy(t) ==
    /\ pc[t] = "buy"
    /\ Free(t, read[t])
    /\ Writes(t, read[t] :> source[t] @@ BoughtUnits(source[t]) :> task[t].n
                    @@ Stock(Shop(t)) :> Moved(t, Shop(t), task[t].n),
              "post")

PurchaseNumberTaken(t) == pc[t] = "buy" /\ Duplicate(t, read[t])

FinishPurchase(t) == pc[t] = "commit" /\ task[t].op \in {"purchase", "send_back"} /\ Ends(t, << >>)

-----------------------------------------------------------------------------
(* Returns to the supplier *)

SentBackBy(r) == committed[BoughtUnits(r)]

\* buildReturnItemData: what is left of the purchase, other returns apart.
Returnable(t) ==
    Sees(t, BoughtUnits(PurchaseOf[source[t]])) -
        MapThenSumSet(LAMBDA r : Sees(t, BoughtUnits(r)), ReturnsFrom(PurchaseOf[source[t]]) \ {source[t]})

ReadForSendingBack(t) ==
    /\ At(t, "send_back", "idle")
    /\ SeenUnits(t) = 0
    /\ task[t].n <= Returnable(t)
    /\ ReadsToPost(t, Numbered("PRET", NextNumber(t, "PRET")), task[t].n, "send_back")

SendBack(t) ==
    /\ pc[t] = "send_back"
    /\ StockLeft(t, Shop(t), -task[t].n)
    /\ Writes(t, Stock(Shop(t)) :> Moved(t, Shop(t), -task[t].n), "insert_return")

SendBackShort(t) == pc[t] = "send_back" /\ Shortage(t, Shop(t), -task[t].n)

InsertReturn(t) ==
    /\ pc[t] = "insert_return"
    /\ Free(t, read[t])
    /\ Writes(t, read[t] :> source[t] @@ BoughtUnits(source[t]) :> task[t].n, "post")

ReturnNumberTaken(t) == pc[t] = "insert_return" /\ Duplicate(t, read[t])

\* update with other items: nothing is posted.
ReadForSendingAnew(t) ==
    /\ At(t, "send_back_anew", "idle")
    /\ SeenUnits(t) # 0
    /\ Reads(t, [n |-> SeenUnits(t), fits |-> task[t].n <= Returnable(t)], "send_anew")

\* The old units come back; the new ones are checked and leave, and replace them.
SendAnew(t) ==
    /\ pc[t] = "send_anew"
    /\ read[t].fits
    /\ SeenUnits(t) # 0
    /\ StockLeft(t, Shop(t), read[t].n - task[t].n)
    /\ Ends(t, Stock(Shop(t)) :> Moved(t, Shop(t), read[t].n - task[t].n)
                 @@ BoughtUnits(source[t]) :> task[t].n)

SendNotAnew(t) ==
    /\ pc[t] = "send_anew"
    /\ Lockable(t, Stock(Shop(t)))
    /\ \/ ~read[t].fits
       \/ SeenUnits(t) = 0
       \/ ~StockLeft(t, Shop(t), read[t].n - task[t].n)
    /\ Throws(t, "refused")

\* remove: the voucher stays.
ReadForKeeping(t) ==
    /\ At(t, "remove_send_back", "idle")
    /\ SeenUnits(t) # 0
    /\ Reads(t, SeenUnits(t), "remove_send_back")

KeepUnits(t) ==
    /\ pc[t] = "remove_send_back"
    /\ SeenUnits(t) # 0
    /\ Ends(t, Stock(Shop(t)) :> Moved(t, Shop(t), read[t])
                 @@ BoughtUnits(source[t]) :> 0
                 @@ [r \in {q \in {Numbered("PRET", n) : n \in DocumentNumber} :
                              Sees(t, q) = source[t]} |-> Nobody])

RemovedAlready(t) ==
    /\ pc[t] = "remove_send_back"
    /\ Lockable(t, BoughtUnits(source[t]))
    /\ SeenUnits(t) = 0
    /\ Throws(t, "failed")

PurchasingStep(t) ==
    \/ ReadPurchaseOrder(t) \/ SetPurchaseOrderStatus(t) \/ ReceiveGoods(t) \/ FinishReceipt(t)
    \/ FindSupplier(t) \/ NewSupplier(t) \/ SupplierExists(t) \/ CountPurchases(t) \/ Buy(t)
    \/ PurchaseNumberTaken(t) \/ FinishPurchase(t)
    \/ ReadForSendingBack(t) \/ SendBack(t) \/ SendBackShort(t) \/ InsertReturn(t)
    \/ ReturnNumberTaken(t) \/ ReadForSendingAnew(t) \/ SendAnew(t) \/ SendNotAnew(t)
    \/ ReadForKeeping(t) \/ KeepUnits(t) \/ RemovedAlready(t)
=============================================================================
