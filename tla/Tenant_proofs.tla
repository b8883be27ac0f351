--------------------------- MODULE Tenant_proofs ---------------------------
(***************************************************************************)
(* Theorems about a tenant's requests, of all services at once.  A service *)
(* is answered for by what its steps write, and where they go on: its own  *)
(* properties then only have to be proved of its own steps.                *)
(***************************************************************************)
EXTENDS Tenant, ReadCommitted_proofs

-----------------------------------------------------------------------------
(* What a step of one request leaves alone.                                  *)

LEMMA NoRows ==
    /\ DOMAIN << >> = {}
    /\ \A T : InTables(<< >>, T)
  BY DEF InTables

LEMMA ReadsFrame ==
    ASSUME Shape, Locks, NEW t \in Tx, NEW v, NEW s, NEW n,
           Reads(t, v, s) \/ ReadsToPost(t, v, n, s), NEW T
    PROVE  /\ Frame(t, T) /\ Kept(t, T) /\ pc'[t] = s
           /\ UNCHANGED dbVars /\ read'[t] = v
  BY DEF Reads, ReadsToPost, Goto, Shape, Locks, Frame, Kept, dbVars, locals

LEMMA ReadsTo ==
    ASSUME Shape, NEW t \in Tx, NEW v, NEW s, Reads(t, v, s)
    PROVE  pc'[t] = s /\ read'[t] = v /\ UNCHANGED <<dbVars, source, task, amount>>
  BY DEF Reads, Goto, Shape, locals

LEMMA ThrowsFrame ==
    ASSUME Shape, Locks, NEW t \in Tx, NEW s, Throws(t, s), NEW T
    PROVE  /\ Frame(t, T) /\ pc'[t] = s
           /\ Dropped(t)
  BY DEF Throws, Fail, Forget, RollbackTx, Unlocked, NoWrites, Goto, Shape, Locks, Frame, Dropped,
    locals

LEMMA WritesFrame ==
    ASSUME Shape, Locks, NEW t \in Tx, NEW rows, NEW s, Writes(t, rows, s),
           NEW T, InTables(rows, T)
    PROVE  /\ Frame(t, T) /\ Kept(t, T) /\ pc'[t] = s
           /\ read' = read
           /\ committed' = committed
           /\ DOMAIN pending'[t] = DOMAIN pending[t] \cup DOMAIN rows
           /\ \A r \in DOMAIN rows : pending'[t][r] = rows[r]
           /\ \A r \in DOMAIN pending[t] : r \notin DOMAIN rows => pending'[t][r] = pending[t][r]
           /\ \A u \in Tx, r \in Row : u # t /\ r \in DOMAIN rows => r \notin DOMAIN pending[u]
  BY NoTxAssumption DEF Writes, WriteRows, Lockable, Goto, Shape, Locks, Frame, Kept, InTables, locals

LEMMA CommitsFrame ==
    ASSUME Shape, Locks, NEW t \in Tx, NEW rows, NEW s, CommitsTo(t, rows, s),
           NEW T, InTables(rows, T)
    PROVE  /\ Frame(t, T) /\ pc'[t] = s
           /\ Published(t, T)
           /\ \A r \in Row : committed'[r] = IF r \in DOMAIN rows THEN rows[r] ELSE Sees(t, r)
           /\ \A u \in Tx, r \in Row : u # t /\ r \in DOMAIN rows => r \notin DOMAIN pending[u]
<1>1. \A u \in Tx : u # t =>
         \A r \in DOMAIN pending[u] : r \in Row =>
            r \notin DOMAIN rows /\ r \notin DOMAIN pending[t]
  BY NoTxAssumption DEF CommitsTo, Lockable, Locks
<1>2. \A r \in Row : committed'[r] = IF r \in DOMAIN rows THEN rows[r] ELSE Sees(t, r) BY DEF CommitsTo
<1>3. Published(t, T) BY <1>2 DEF CommitsTo, NoWrites, Shape, Published, InTables
<1>4. \A u \in Tx : u # t =>
         \A r \in DOMAIN pending[u] : r \in Row => committed'[r] = committed[r]
  BY <1>1, <1>2 DEF Sees
<1>5. Shape' /\ Locks' /\ pc'[t] = s
  BY NoTxAssumption DEF CommitsTo, Unlocked, NoWrites, Forget, Goto, Shape, Locks, locals
<1>6. UNCHANGED <<task, source, amount>> BY DEF CommitsTo, locals
<1>7. \A u \in Tx : u # t => pc'[u] = pc[u] /\ read'[u] = read[u] /\ pending'[u] = pending[u]
  BY DEF CommitsTo, Forget, Goto, Shape
<1> QED BY <1>1, <1>2, <1>3, <1>4, <1>5, <1>6, <1>7 DEF Frame

LEMMA StoresFrame ==
    ASSUME Shape, Locks, NEW t \in Tx, NEW rows, NEW s, Stores(t, rows, s),
           NEW T, InTables(rows, T)
    PROVE  /\ Frame(t, T) /\ pc'[t] = s
           /\ Kept(t, T) /\ pending' = pending
           /\ \A r \in Row : committed'[r] = IF r \in DOMAIN rows THEN rows[r] ELSE committed[r]
           /\ \A u \in Tx, r \in Row : r \in DOMAIN rows => r \notin DOMAIN pending[u]
  BY NoTxAssumption DEF Stores, Autocommit, Forget, Goto, Shape, Locks, Frame, Kept, InTables, locals

LEMMA AutocommitFrame ==
    ASSUME Shape, Locks, NEW t \in Tx, NEW rows, NEW s, Autocommit(rows), Goto(t, s),
           UNCHANGED <<locals, task>>, DOMAIN read' = Tx, \A u \in Tx : u # t => read'[u] = read[u],
           NEW T, InTables(rows, T)
    PROVE  /\ Frame(t, T) /\ pc'[t] = s
           /\ Kept(t, T) /\ pending' = pending
           /\ \A r \in Row : committed'[r] = IF r \in DOMAIN rows THEN rows[r] ELSE committed[r]
           /\ \A u \in Tx, r \in Row : r \in DOMAIN rows => r \notin DOMAIN pending[u]
  BY NoTxAssumption DEF Autocommit, Goto, Shape, Locks, Frame, Kept, InTables, locals

-----------------------------------------------------------------------------
(* What the statements of each service write, and where they go on.          *)

LEMMA SaleFoot ==
    ASSUME Shape, Locks, NEW t \in Tx, SaleStep(t)
    PROVE  Foot(t, SaleTables, SaleOps, SaleWays)
<1> USE DEF Foot, From, Onwards, Done, SaleOps, SaleWays
<1>1. CASE PreviewSale(t) BY <1>1, ReadsFrame DEF PreviewSale, At
<1>2. CASE Sell(t)
  <2> DEFINE rows == Items(source[t]) :> [by |-> t, n |-> task[t].n]
                    @@ TotalAmount(source[t]) :> amount[t]
                    @@ Stock(Shop(t)) :> Moved(t, Shop(t), -task[t].n)
  <2>1. InTables(rows, SaleTables) BY DEF :>, @@, InTables, Items, TotalAmount, Stock, SaleTables
  <2>2. /\ Writes(t, rows, IF task[t].serial = NoSerial THEN "book" ELSE "serial")
        /\ pc[t] = "sell"
    BY <1>2 DEF Sell
  <2> HIDE DEF rows
  <2> QED BY <2>1, <2>2, WritesFrame
<1>3. CASE SellShort(t) BY <1>3, ThrowsFrame DEF SellShort, Shortage
<1>4. CASE CheckSerial(t) BY <1>4, ReadsFrame, ThrowsFrame DEF CheckSerial
<1>5. CASE RegisterSerial(t)
  <2> DEFINE rows == Serial(task[t].serial) :> [status |-> "SOLD", sale |-> source[t]]
  <2>1. InTables(rows, SaleTables) BY DEF :>, InTables, Serial, SaleTables
  <2>2. Writes(t, rows, "book") /\ pc[t] = "register" BY <1>5 DEF RegisterSerial
  <2> HIDE DEF rows
  <2> QED BY <2>1, <2>2, WritesFrame
<1>6. CASE SerialExists(t) BY <1>6, ThrowsFrame DEF SerialExists
<1>7. CASE BookSale(t)
  <2> DEFINE rows == SaleBooked(t, amount[t], read[t].points)
  <2>1. InTables(rows, SaleTables) BY DEF SaleBooked, :>, @@, InTables, Customer, Entry, SaleTables
  <2>2. Writes(t, rows, "post") /\ pc[t] = "book" BY <1>7 DEF BookSale
  <2> HIDE DEF rows
  <2> QED BY <2>1, <2>2, WritesFrame
<1>8. CASE FinishSale(t)
  <2>1. CommitsTo(t, << >>, "committed") BY <1>8 DEF FinishSale, Ends
  <2> QED BY <1>8, <2>1, NoRows, CommitsFrame DEF FinishSale, At
<1>9. CASE ReadSale(t) BY <1>9, ReadsFrame DEF ReadSale, At
<1>10. CASE ReplaceItems(t)
  <2> DEFINE rows == Stock(EditShop(t)) :> Moved(t, EditShop(t), ItemsChanged(t))
                    @@ Items(source[t]) :> [by |-> t, n |-> task[t].n]
  <2>1. InTables(rows, SaleTables) BY DEF :>, @@, InTables, Items, Stock, SaleTables
  <2>2. Writes(t, rows, "edit_total") /\ pc[t] = "edit_sale" BY <1>10 DEF ReplaceItems
  <2> HIDE DEF rows
  <2> QED BY <2>1, <2>2, WritesFrame
<1>11. CASE EditShort(t) BY <1>11, ThrowsFrame DEF EditShort, Shortage
<1>12. CASE ItemsHaveReturns(t) BY <1>12, ThrowsFrame DEF ItemsHaveReturns
<1>13. CASE EditTotal(t)
  <2> DEFINE rows == TotalAmount(source[t]) :> task[t].n
                    @@ Customer :> [SeenCustomer(t) EXCEPT !.spent = @ + task[t].n - read[t].total]
  <2>1. InTables(rows, SaleTables) BY DEF :>, @@, InTables, TotalAmount, Customer, SaleTables
  <2>2. CommitsTo(t, rows, "committed") /\ pc[t] = "edit_total" BY <1>13 DEF EditTotal, Ends
  <2> HIDE DEF rows
  <2> QED BY <2>1, <2>2, CommitsFrame
<1> QED BY <1>1, <1>2, <1>3, <1>4, <1>5, <1>6, <1>7, <1>8, <1>9, <1>10, <1>11, <1>12,
       <1>13 DEF SaleStep

LEMMA ReturnFoot ==
    ASSUME Shape, Locks, NEW t \in Tx, ReturnStep(t)
    PROVE  Foot(t, ReturnTables, ReturnOps, ReturnWays)
<1> USE DEF Foot, From, Onwards, Done, ReturnOps, ReturnWays
<1>1. CASE ReadForReturn(t) BY <1>1, ReadsFrame DEF ReadForReturn, At
<1>2. CASE TakeBack(t)
  <2> DEFINE rows == Stock(Shop(t)) :> Moved(t, Shop(t), Units(t))
                    @@ Returned(source[t]) :> Units(t)
  <2>1. InTables(rows, ReturnTables) BY DEF :>, @@, InTables, Returned, Stock, ReturnTables
  <2>2. Writes(t, rows, "refund") /\ pc[t] = "take_back" BY <1>2 DEF TakeBack
  <2> HIDE DEF rows
  <2> QED BY <2>1, <2>2, WritesFrame
<1>3. CASE ItemReplaced(t) BY <1>3, ThrowsFrame DEF ItemReplaced
<1>4. CASE Refund(t)
  <2> DEFINE rows == Customer :> [SeenCustomer(t) EXCEPT !.spent = @ - Units(t)]
  <2>1. InTables(rows, ReturnTables) BY DEF :>, InTables, Customer, ReturnTables
  <2>2. Writes(t, rows, "post") /\ pc[t] = "refund" BY <1>4 DEF Refund
  <2> HIDE DEF rows
  <2> QED BY <2>1, <2>2, WritesFrame
<1>5. CASE FinishReturn(t)
  <2>1. CommitsTo(t, << >>, "committed") BY <1>5 DEF FinishReturn, Ends
  <2> QED BY <1>5, <2>1, NoRows, CommitsFrame DEF FinishReturn, At
<1>6. CASE ReadForReturnEdit(t) BY <1>6, ReadsFrame DEF ReadForReturnEdit, At
<1>7. CASE ReverseReturn(t)
  <2> DEFINE rows == Stock(EditShop(t)) :> Moved(t, EditShop(t), -read[t].n)
                    @@ Customer :> [SeenCustomer(t) EXCEPT !.spent = @ + read[t].n]
  <2>1. InTables(rows, ReturnTables) BY DEF :>, @@, InTables, Stock, Customer, ReturnTables
  <2>2. Writes(t, rows, "return_anew") /\ pc[t] = "edit_return" BY <1>7 DEF ReverseReturn
  <2> HIDE DEF rows
  <2> QED BY <2>1, <2>2, WritesFrame
<1>8. CASE ReverseShort(t) BY <1>8, ThrowsFrame DEF ReverseShort, Shortage
<1>9. CASE ReturnAnew(t)
  <2> DEFINE rows == Stock(EditShop(t)) :> Moved(t, EditShop(t), Units(t))
                    @@ Returned(source[t]) :> Units(t)
                    @@ Customer :> [SeenCustomer(t) EXCEPT !.spent = @ - Units(t)]
  <2>1. InTables(rows, ReturnTables) BY DEF :>, @@, InTables, Returned, Stock, Customer, ReturnTables
  <2>2. CommitsTo(t, rows, "committed") /\ pc[t] = "return_anew" BY <1>9 DEF ReturnAnew, Ends
  <2> HIDE DEF rows
  <2> QED BY <2>1, <2>2, CommitsFrame
<1>10. CASE ReturnNotAnew(t) BY <1>10, ThrowsFrame DEF ReturnNotAnew
<1>11. CASE ReadForRemove(t) BY <1>11, ReadsFrame DEF ReadForRemove, At
<1>12. CASE RemoveReturn(t)
  <2> DEFINE rows == Stock(Shop(t)) :> Moved(t, Shop(t), -read[t].n) @@ Returned(source[t]) :> 0
  <2>1. InTables(rows, ReturnTables) BY DEF :>, @@, InTables, Returned, Stock, ReturnTables
  <2>2. CommitsTo(t, rows, "committed") /\ pc[t] = "remove_return" BY <1>12 DEF RemoveReturn, Ends
  <2> HIDE DEF rows
  <2> QED BY <2>1, <2>2, CommitsFrame
<1>13. CASE RemoveShort(t) BY <1>13, ThrowsFrame DEF RemoveShort, Shortage
<1> QED BY <1>1, <1>2, <1>3, <1>4, <1>5, <1>6, <1>7, <1>8, <1>9, <1>10, <1>11, <1>12,
       <1>13 DEF ReturnStep

LEMMA OrderFoot ==
    ASSUME Shape, Locks, NEW t \in Tx, LinesSought(t), OrderStep(t)
    PROVE  Foot(t, OrderTables, OrderOps, OrderWays) /\ LinesSought(t)'
<1> USE DEF Foot, From, Onwards, Done, OrderOps, OrderWays
<1>1. CASE ReadForOrderStatus(t)
  <2>1. Foot(t, OrderTables, OrderOps, OrderWays) BY <1>1, ReadsFrame DEF ReadForOrderStatus, At
  <2>2. LinesSought(t)' BY <1>1, ReadsTo DEF ReadForOrderStatus, At, LinesSought
  <2> QED BY <2>1, <2>2
<1>2. CASE DeliverLines(t)
  <2> DEFINE rows == Stock(Shop(t)) :> Moved(t, Shop(t), -read[t].n)
  <2>1. InTables(rows, OrderTables) BY DEF :>, InTables, Stock, OrderTables
  <2>2. Writes(t, rows, "spend") /\ pc[t] = "deliver" BY <1>2 DEF DeliverLines
  <2> HIDE DEF rows
  <2> QED BY <2>1, <2>2, WritesFrame DEF LinesSought
<1>3. CASE DeliverShort(t) BY <1>3, ThrowsFrame DEF DeliverShort, Shortage, LinesSought
<1>4. CASE SpendOnOrder(t)
  <2> DEFINE rows == Customer :> [SeenCustomer(t) EXCEPT !.spent = @ + read[t].total]
  <2>1. InTables(rows, OrderTables) BY DEF :>, InTables, Customer, OrderTables
  <2>2. Writes(t, rows, "set_status") /\ pc[t] = "spend" BY <1>4 DEF SpendOnOrder
  <2> HIDE DEF rows
  <2> QED BY <2>1, <2>2, WritesFrame DEF LinesSought
<1>5. CASE SetOrderStatus(t)
  <2> DEFINE rows == OrderRow(source[t]) :> [SeenOrder(t) EXCEPT !.status = task[t].status]
  <2>1. InTables(rows, OrderTables) BY DEF :>, InTables, OrderRow, OrderTables
  <2>2. CommitsTo(t, rows, "committed") /\ pc[t] = "set_status" BY <1>5 DEF SetOrderStatus, Ends
  <2> HIDE DEF rows
  <2> QED BY <2>1, <2>2, CommitsFrame DEF LinesSought
<1>6. CASE ReadForDeposit(t)
  <2>1. Foot(t, OrderTables, OrderOps, OrderWays) BY <1>6, ReadsFrame DEF ReadForDeposit, At
  <2>2. LinesSought(t)' BY <1>6, ReadsTo DEF ReadForDeposit, At, LinesSought
  <2> QED BY <2>1, <2>2
<1>7. CASE TakeDeposit(t)
  <2> DEFINE rows == Deposit(t) :> task[t].n
                    @@ OrderRow(source[t]) :> [SeenOrder(t) EXCEPT !.paid = read[t]]
  <2>1. InTables(rows, OrderTables) BY DEF :>, @@, InTables, OrderRow, Deposit, OrderTables
  <2>2. CommitsTo(t, rows, "committed") /\ pc[t] = "set_paid" BY <1>7 DEF TakeDeposit, Ends
  <2> HIDE DEF rows
  <2> QED BY <2>1, <2>2, CommitsFrame DEF LinesSought
<1>8. CASE ReadForOrderEdit(t)
  <2>1. Foot(t, OrderTables, OrderOps, OrderWays) BY <1>8, ReadsFrame DEF ReadForOrderEdit, At
  <2>2. LinesSought(t)' BY <1>8, ReadsTo DEF ReadForOrderEdit, At, LinesSought
  <2> QED BY <2>1, <2>2
<1>9. CASE FindLines(t)
  <2>1. Reads(t, LinesSeen(t), "delete_lines") /\ pc[t] = "find_lines" BY <1>9 DEF FindLines
  <2>2. ASSUME NEW r \in LinesSeen(t)
        PROVE  r[1] = "lines"
    <3>1. PICK by : r = Lines(source[t], by) BY DEF LinesSeen
    <3> QED BY <3>1 DEF Lines
  <2>3. LinesSought(t)' BY <2>1, <2>2, ReadsTo DEF LinesSought
  <2> QED BY <2>1, <2>3, ReadsFrame
<1>10. CASE DeleteLines(t)
  <2> DEFINE rows == [r \in read[t] |-> 0]
  <2>1. InTables(rows, OrderTables) BY <1>10 DEF DeleteLines, LinesSought, InTables, OrderTables
  <2>2. Writes(t, rows, "replace_lines") BY <1>10 DEF DeleteLines
  <2> HIDE DEF rows
  <2>9. pc[t] = "delete_lines" BY <1>10 DEF DeleteLines
  <2> QED BY <2>9, <2>1, <2>2, WritesFrame DEF LinesSought
<1>11. CASE ReplaceLines(t)
  <2> DEFINE rows == Lines(source[t], t) :> task[t].n
                    @@ OrderRow(source[t]) :> [SeenOrder(t) EXCEPT !.total = task[t].n, !.status = task[t].status]
  <2>1. InTables(rows, OrderTables) BY DEF :>, @@, InTables, OrderRow, Lines, OrderTables
  <2>2. CommitsTo(t, rows, "committed") /\ pc[t] = "replace_lines" BY <1>11 DEF ReplaceLines, Ends
  <2> HIDE DEF rows
  <2> QED BY <2>1, <2>2, CommitsFrame DEF LinesSought
<1>12. CASE ReadForOrderRemove(t) BY <1>12, ReadsFrame DEF ReadForOrderRemove, At, LinesSought
<1>13. CASE RemoveOrder(t)
  <2> DEFINE rows == [r \in {OrderRow(source[t])} \cup {Lines(source[t], by) : by \in Makers} \cup {Deposit(u) : u \in {v \in Tx : source[v] = source[t]}} |-> IF r = OrderRow(source[t]) THEN NoOrder ELSE 0]
  <2>1. InTables(rows, OrderTables) BY DEF InTables, OrderRow, Lines, Deposit, OrderTables
  <2>2. CommitsTo(t, rows, "committed") /\ pc[t] = "remove_order" BY <1>13 DEF RemoveOrder, Ends
  <2> HIDE DEF rows
  <2> QED BY <2>1, <2>2, CommitsFrame DEF LinesSought
<1>14. CASE OrderGone(t) BY <1>14, ThrowsFrame DEF OrderGone, LinesSought
<1> QED BY <1>1, <1>2, <1>3, <1>4, <1>5, <1>6, <1>7, <1>8, <1>9, <1>10, <1>11, <1>12,
       <1>13, <1>14 DEF OrderStep

LEMMA LoyaltyFoot ==
    ASSUME Shape, Locks, NEW t \in Tx, LoyaltyStep(t)
    PROVE  Foot(t, LoyaltyTables, LoyaltyOps, LoyaltyWays)
<1> USE DEF Foot, From, Onwards, Done, LoyaltyOps, LoyaltyWays
<1>1. CASE EarnPoints(t)
  <2> DEFINE rows == PointsMoved(t, Earned(task[t].n))
  <2>1. InTables(rows, LoyaltyTables) BY DEF PointsMoved, :>, @@, InTables, Customer, Entry, LoyaltyTables
  <2>2. CommitsTo(t, rows, "committed") /\ At(t, "earn_points", "idle") BY <1>1 DEF EarnPoints, Ends
  <2> HIDE DEF rows
  <2> QED BY <2>1, <2>2, CommitsFrame DEF At
<1>2. CASE CheckRedeem(t) BY <1>2, ReadsFrame DEF CheckRedeem, At
<1>3. CASE CheckAdjust(t) BY <1>3, ReadsFrame DEF CheckAdjust, At
<1>4. CASE MovePoints(t)
  <2> DEFINE rows == PointsMoved(t, read[t])
  <2>1. InTables(rows, LoyaltyTables) BY DEF PointsMoved, :>, @@, InTables, Customer, Entry, LoyaltyTables
  <2>2. CommitsTo(t, rows, "committed") /\ pc[t] = "move_points" BY <1>4 DEF MovePoints, Ends
  <2> HIDE DEF rows
  <2> QED BY <2>1, <2>2, CommitsFrame
<1>5. CASE CheckOnlineOrder(t) BY <1>5, ReadsFrame DEF CheckOnlineOrder, At
<1>6. CASE PlaceOnlineOrder(t)
  <2> DEFINE rows == PointsMoved(t, Earned(task[t].n - read[t].discount) - read[t].points)
  <2>1. InTables(rows, LoyaltyTables) BY DEF PointsMoved, :>, @@, InTables, Customer, Entry, LoyaltyTables
  <2>2. CommitsTo(t, rows, "committed") /\ pc[t] = "order_online" BY <1>6 DEF PlaceOnlineOrder, Ends
  <2> HIDE DEF rows
  <2> QED BY <2>1, <2>2, CommitsFrame
<1> QED BY <1>1, <1>2, <1>3, <1>4, <1>5, <1>6 DEF LoyaltyStep

LEMMA ClaimFoot ==
    ASSUME Shape, Locks, NEW t \in Tx, ClaimStep(t)
    PROVE  Foot(t, ClaimTables, ClaimOps, ClaimWays)
<1> USE DEF Foot, From, Onwards, Done, ClaimOps, ClaimWays
<1>1. CASE ReadForClaim(t) BY <1>1, ReadsFrame DEF ReadForClaim, At
<1>2. CASE MakeClaim(t)
  <2> DEFINE rows == Claim(t) :> [status |-> "SUBMITTED", serial |-> task[t].serial, sale |-> read[t]]
                    @@ Serial(task[t].serial) :> [SeenSerial(t) EXCEPT !.status = "CLAIMED"]
  <2>1. InTables(rows, ClaimTables) BY DEF :>, @@, InTables, Claim, Serial, ClaimTables
  <2>2. CommitsTo(t, rows, "committed") /\ pc[t] = "claim" BY <1>2 DEF MakeClaim, Ends
  <2> HIDE DEF rows
  <2> QED BY <2>1, <2>2, CommitsFrame
<1>3. CASE SetClaimStatus(t)
  <2>1. PICK u \in Tx : Ends(t, Claim(u) :> [Sees(t, Claim(u)) EXCEPT !.status = task[t].status])
    BY <1>3 DEF SetClaimStatus
  <2> DEFINE rows == Claim(u) :> [Sees(t, Claim(u)) EXCEPT !.status = task[t].status]
  <2>2. InTables(rows, ClaimTables) BY DEF :>, InTables, Claim, ClaimTables
  <2>3. CommitsTo(t, rows, "committed") BY <2>1 DEF Ends
  <2> HIDE DEF rows
  <2>9. At(t, "claim_status", "idle") BY <1>3 DEF SetClaimStatus
  <2> QED BY <2>9, <2>2, <2>3, CommitsFrame DEF At
<1> QED BY <1>1, <1>2, <1>3 DEF ClaimStep

LEMMA PurchasingFoot ==
    ASSUME Shape, Locks, NEW t \in Tx, NumbersSought(t), PurchasingStep(t)
    PROVE  Foot(t, PurchasingTables, PurchasingOps, PurchasingWays) /\ NumbersSought(t)'
<1> USE DEF Foot, From, Onwards, Done, PurchasingOps, PurchasingWays
<1>1. CASE ReadPurchaseOrder(t) BY <1>1, ReadsFrame DEF ReadPurchaseOrder, At, NumbersSought
<1>2. CASE SetPurchaseOrderStatus(t)
  <2> DEFINE rows == OrderStatus(source[t]) :> task[t].status
  <2>1. InTables(rows, PurchasingTables) BY DEF :>, InTables, OrderStatus, PurchasingTables
  <2>2. Stores(t, rows, "committed") /\ pc[t] = "set_po_status" BY <1>2 DEF SetPurchaseOrderStatus
  <2> HIDE DEF rows
  <2> QED BY <2>1, <2>2, StoresFrame DEF NumbersSought
<1>3. CASE ReceiveGoods(t)
  <2> DEFINE rows == Stock(Shop(t)) :> Moved(t, Shop(t), amount[t])
  <2>1. InTables(rows, PurchasingTables) BY DEF :>, InTables, Stock, PurchasingTables
  <2>2. Writes(t, rows, "post") /\ pc[t] = "receive_goods" BY <1>3 DEF ReceiveGoods
  <2> HIDE DEF rows
  <2> QED BY <2>1, <2>2, WritesFrame DEF NumbersSought
<1>4. CASE FinishReceipt(t)
  <2> DEFINE rows == OrderStatus(source[t]) :> "RECEIVED"
  <2>1. InTables(rows, PurchasingTables) BY DEF :>, InTables, OrderStatus, PurchasingTables
  <2>2. CommitsTo(t, rows, "committed") /\ At(t, "po_status", "commit") BY <1>4 DEF FinishReceipt, Ends
  <2> HIDE DEF rows
  <2> QED BY <2>1, <2>2, CommitsFrame DEF At, NumbersSought
<1>5. CASE FindSupplier(t) BY <1>5, ReadsFrame DEF FindSupplier, At, NumbersSought
<1>6. CASE NewSupplier(t)
  <2> DEFINE rows == Supplier :> source[t]
  <2>1. InTables(rows, PurchasingTables) BY DEF :>, InTables, Supplier, PurchasingTables
  <2>2. Writes(t, rows, "count_purchases") /\ pc[t] = "new_supplier" BY <1>6 DEF NewSupplier
  <2> HIDE DEF rows
  <2> QED BY <2>1, <2>2, WritesFrame DEF NumbersSought
<1>7. CASE SupplierExists(t) BY <1>7, ThrowsFrame DEF SupplierExists, Duplicate, NumbersSought
<1>8. CASE CountPurchases(t)
  <2>1. Foot(t, PurchasingTables, PurchasingOps, PurchasingWays) BY <1>8, ReadsFrame DEF CountPurchases
  <2>2. NumbersSought(t)' BY <1>8, ReadsTo DEF CountPurchases, NumbersSought, Numbered
  <2> QED BY <2>1, <2>2
<1>9. CASE Buy(t)
  <2> DEFINE rows == read[t] :> source[t] @@ BoughtUnits(source[t]) :> task[t].n
                    @@ Stock(Shop(t)) :> Moved(t, Shop(t), task[t].n)
  <2>1. read[t][1] \in {"PUR", "PRET"} BY <1>9 DEF Buy, NumbersSought
  <2>2. InTables(rows, PurchasingTables) BY <2>1 DEF :>, @@, InTables, Stock, BoughtUnits, PurchasingTables
  <2>3. Writes(t, rows, "post") BY <1>9 DEF Buy
  <2> HIDE DEF rows
  <2>9. pc[t] = "buy" BY <1>9 DEF Buy
  <2> QED BY <2>9, <2>2, <2>3, WritesFrame DEF NumbersSought
<1>10. CASE PurchaseNumberTaken(t) BY <1>10, ThrowsFrame DEF PurchaseNumberTaken, Duplicate, NumbersSought
<1>11. CASE FinishPurchase(t)
  <2>1. CommitsTo(t, << >>, "committed") BY <1>11 DEF FinishPurchase, Ends
  <2> QED BY <1>11, <2>1, NoRows, CommitsFrame DEF FinishPurchase, NumbersSought
<1>12. CASE ReadForSendingBack(t) BY <1>12, ReadsFrame DEF ReadForSendingBack, At, NumbersSought, Numbered
<1>13. CASE SendBack(t)
  <2> DEFINE rows == Stock(Shop(t)) :> Moved(t, Shop(t), -task[t].n)
  <2>1. InTables(rows, PurchasingTables) BY DEF :>, InTables, Stock, PurchasingTables
  <2>2. Writes(t, rows, "insert_return") /\ pc[t] = "send_back" BY <1>13 DEF SendBack
  <2> HIDE DEF rows
  <2> QED BY <2>1, <2>2, WritesFrame DEF NumbersSought
<1>14. CASE SendBackShort(t) BY <1>14, ThrowsFrame DEF SendBackShort, Shortage, NumbersSought
<1>15. CASE InsertReturn(t)
  <2> DEFINE rows == read[t] :> source[t] @@ BoughtUnits(source[t]) :> task[t].n
  <2>1. read[t][1] \in {"PUR", "PRET"} BY <1>15 DEF InsertReturn, NumbersSought
  <2>2. InTables(rows, PurchasingTables) BY <2>1 DEF :>, @@, InTables, BoughtUnits, PurchasingTables
  <2>3. Writes(t, rows, "post") BY <1>15 DEF InsertReturn
  <2> HIDE DEF rows
  <2>9. pc[t] = "insert_return" BY <1>15 DEF InsertReturn
  <2> QED BY <2>9, <2>2, <2>3, WritesFrame DEF NumbersSought
<1>16. CASE ReturnNumberTaken(t) BY <1>16, ThrowsFrame DEF ReturnNumberTaken, Duplicate, NumbersSought
<1>17. CASE ReadForSendingAnew(t)
  <2>1. Foot(t, PurchasingTables, PurchasingOps, PurchasingWays)
    BY <1>17, ReadsFrame DEF ReadForSendingAnew, At
  <2>2. NumbersSought(t)' BY <1>17, ReadsTo DEF ReadForSendingAnew, At, NumbersSought
  <2> QED BY <2>1, <2>2
<1>18. CASE SendAnew(t)
  <2> DEFINE rows == Stock(Shop(t)) :> Moved(t, Shop(t), read[t].n - task[t].n)
                    @@ BoughtUnits(source[t]) :> task[t].n
  <2>1. InTables(rows, PurchasingTables) BY DEF :>, @@, InTables, BoughtUnits, Stock, PurchasingTables
  <2>2. CommitsTo(t, rows, "committed") /\ pc[t] = "send_anew" BY <1>18 DEF SendAnew, Ends
  <2> HIDE DEF rows
  <2> QED BY <2>1, <2>2, CommitsFrame DEF NumbersSought
<1>19. CASE SendNotAnew(t) BY <1>19, ThrowsFrame DEF SendNotAnew, NumbersSought
<1>20. CASE ReadForKeeping(t) BY <1>20, ReadsFrame DEF ReadForKeeping, At, NumbersSought
<1>21. CASE KeepUnits(t)
  <2> DEFINE rows == Stock(Shop(t)) :> Moved(t, Shop(t), read[t])
                    @@ BoughtUnits(source[t]) :> 0
                    @@ [r \in {q \in {Numbered("PRET", n) : n \in DocumentNumber} : Sees(t, q) = source[t]} |-> Nobody]
  <2>1. InTables(rows, PurchasingTables)
    BY DEF :>, @@, InTables, BoughtUnits, Numbered, Stock, PurchasingTables
  <2>2. CommitsTo(t, rows, "committed") /\ pc[t] = "remove_send_back" BY <1>21 DEF KeepUnits, Ends
  <2> HIDE DEF rows
  <2> QED BY <2>1, <2>2, CommitsFrame DEF NumbersSought
<1>9a. CASE RemovedAlready(t) BY <1>9a, ThrowsFrame DEF RemovedAlready, NumbersSought
<1> QED BY <1>1, <1>2, <1>3, <1>4, <1>5, <1>6, <1>7, <1>8, <1>9, <1>10, <1>11, <1>12,
       <1>13, <1>14, <1>15, <1>16, <1>17, <1>18, <1>19, <1>20, <1>21, <1>9a DEF PurchasingStep

LEMMA ProductionFoot ==
    ASSUME Shape, Locks, NEW t \in Tx, ProductionStep(t)
    PROVE  Foot(t, ProductionTables, ProductionOps, ProductionWays)
<1> USE DEF Foot, From, Onwards, Done, ProductionOps, ProductionWays
<1>1. CASE ReadForStart(t) BY <1>1, ReadsFrame DEF ReadForStart, At
<1>2. CASE CheckComponents(t) BY <1>2, ReadsFrame, ThrowsFrame DEF CheckComponents
<1>3. CASE ReadForCancel(t) BY <1>3, ReadsFrame DEF ReadForCancel, At
<1>4. CASE SetJob(t)
  <2> DEFINE rows == JobStatus(source[t]) :> read[t]
  <2>1. InTables(rows, ProductionTables) BY DEF :>, InTables, JobStatus, ProductionTables
  <2>2. Stores(t, rows, "committed") /\ pc[t] = "set_job" BY <1>4 DEF SetJob
  <2> HIDE DEF rows
  <2> QED BY <2>1, <2>2, StoresFrame
<1>5. CASE ReadForCompletion(t) BY <1>5, ReadsFrame DEF ReadForCompletion, At
<1>6. CASE Consume(t)
  <2> DEFINE rows == Stock(ComponentShelf) :> Moved(t, ComponentShelf, -Consumed[source[t]])
  <2>1. InTables(rows, ProductionTables) BY DEF :>, InTables, Stock, ProductionTables
  <2>2. Writes(t, rows, "yield") /\ pc[t] = "consume" BY <1>6 DEF Consume
  <2> HIDE DEF rows
  <2> QED BY <2>1, <2>2, WritesFrame
<1>7. CASE ConsumeShort(t) BY <1>7, ThrowsFrame DEF ConsumeShort, Shortage
<1>8. CASE Yield(t)
  <2> DEFINE rows == Stock(Shop(t)) :> Moved(t, Shop(t), Output[source[t]])
                    @@ JobStatus(source[t]) :> "COMPLETED"
  <2>1. InTables(rows, ProductionTables) BY DEF :>, @@, InTables, JobStatus, Stock, ProductionTables
  <2>2. CommitsTo(t, rows, "committed") /\ pc[t] = "yield" BY <1>8 DEF Yield, Ends
  <2> HIDE DEF rows
  <2> QED BY <2>1, <2>2, CommitsFrame
<1> QED BY <1>1, <1>2, <1>3, <1>4, <1>5, <1>6, <1>7, <1>8 DEF ProductionStep

LEMMA LoanFoot ==
    ASSUME Shape, Locks, NEW t \in Tx, LoanStep(t)
    PROVE  Foot(t, LoanTables, LoanOps, LoanWays)
<1> USE DEF Foot, From, Onwards, Done, LoanOps, LoanWays
<1>1. CASE Lend(t) BY <1>1, ReadsFrame DEF Lend, At
<1>2. CASE InsertLoan(t)
  <2> DEFINE rows == LoanRow(source[t]) :> NewLoan(task[t].n)
  <2>1. InTables(rows, LoanTables) BY DEF :>, InTables, LoanRow, LoanTables
  <2>2. Writes(t, rows, "post") /\ pc[t] = "lend" BY <1>2 DEF InsertLoan
  <2> HIDE DEF rows
  <2> QED BY <2>1, <2>2, WritesFrame
<1>3. CASE FindLoan(t) BY <1>3, ReadsFrame DEF FindLoan
<1>4. CASE EditLoan(t)
  <2> DEFINE rows == LoanRow(source[t]) :> [status |-> task[t].status, principal |-> task[t].n]
  <2>1. InTables(rows, LoanTables) BY DEF :>, InTables, LoanRow, LoanTables
  <2>2. Stores(t, rows, "committed") /\ pc[t] = "edit_loan" BY <1>4 DEF EditLoan
  <2> HIDE DEF rows
  <2> QED BY <2>1, <2>2, StoresFrame
<1>5. CASE DeleteLoan(t)
  <2> DEFINE rows == LoanRow(source[t]) :> NoLoan
                    @@ [r \in {Repaid(p) : p \in PaymentsOf(source[t])} |-> 0]
  <2>1. InTables(rows, LoanTables) BY DEF :>, @@, InTables, LoanRow, Repaid, LoanTables
  <2>2. Stores(t, rows, "committed") /\ pc[t] = "delete_loan" BY <1>5 DEF DeleteLoan
  <2> HIDE DEF rows
  <2> QED BY <2>1, <2>2, StoresFrame
<1>6. CASE LoanGone(t) BY <1>6, ThrowsFrame DEF LoanGone
<1>7. CASE ReadForRepayment(t) BY <1>7, ReadsFrame DEF ReadForRepayment, At
<1>8. CASE CheckOutstanding(t) BY <1>8, ReadsFrame, ThrowsFrame DEF CheckOutstanding
<1>9. CASE Repay(t)
  <2> DEFINE rows == Repaid(source[t]) :> task[t].n
                    @@ IF read[t] THEN LoanRow(LoanFor(t)) :> [SeenLoan(t) EXCEPT !.status = "CLOSED"] ELSE << >>
  <2>1. InTables(rows, LoanTables) BY DEF :>, @@, InTables, LoanRow, Repaid, LoanTables
  <2>2. Writes(t, rows, "post") /\ pc[t] = "repay" BY <1>9 DEF Repay
  <2> HIDE DEF rows
  <2> QED BY <2>1, <2>2, WritesFrame
<1>10. CASE FinishLoan(t)
  <2>1. CommitsTo(t, << >>, "committed") BY <1>10 DEF FinishLoan, Ends
  <2> QED BY <1>10, <2>1, NoRows, CommitsFrame DEF FinishLoan
<1>11. CASE ReadForUnpaying(t) BY <1>11, ReadsFrame DEF ReadForUnpaying, At
<1>12. CASE DeletePayment(t)
  <2> DEFINE rows == Repaid(source[t]) :> 0
  <2>1. InTables(rows, LoanTables) BY DEF :>, InTables, Repaid, LoanTables
  <2>2. Stores(t, rows, "reopen") /\ pc[t] = "unpay" BY <1>12 DEF DeletePayment
  <2> HIDE DEF rows
  <2> QED BY <2>1, <2>2, StoresFrame
<1>13. CASE PaymentGone(t) BY <1>13, ThrowsFrame DEF PaymentGone
<1>14. CASE Reopen(t)
  <2> DEFINE rows == LoanRow(LoanFor(t)) :> [SeenLoan(t) EXCEPT !.status = "ACTIVE"]
  <2>1. InTables(rows, LoanTables) BY DEF :>, InTables, LoanRow, LoanTables
  <2>2. Stores(t, rows, "committed") /\ pc[t] = "reopen" BY <1>14 DEF Reopen
  <2> HIDE DEF rows
  <2> QED BY <2>1, <2>2, StoresFrame
<1> QED BY <1>1, <1>2, <1>3, <1>4, <1>5, <1>6, <1>7, <1>8, <1>9, <1>10, <1>11, <1>12,
       <1>13, <1>14 DEF LoanStep

LEMMA SupplierPaymentFoot ==
    ASSUME Shape, Locks, NEW t \in Tx, PaymentFound(t), SupplierPaymentStep(t)
    PROVE  Foot(t, SupplierPaymentTables, SupplierPaymentOps, SupplierPaymentWays) /\ PaymentFound(t)'
<1> USE DEF Foot, From, Onwards, Done, SupplierPaymentOps, SupplierPaymentWays
<1>1. CASE ReadForPayment(t)
  <2>1. Foot(t, SupplierPaymentTables, SupplierPaymentOps, SupplierPaymentWays)
    BY <1>1, ReadsFrame DEF ReadForPayment, At
  <2>2. PaymentFound(t)' BY <1>1, ReadsTo DEF ReadForPayment, At, PaymentFound
  <2> QED BY <2>1, <2>2
<1>2. CASE NumberPayment(t)
  <2>1. Foot(t, SupplierPaymentTables, SupplierPaymentOps, SupplierPaymentWays)
    BY <1>2, ReadsFrame DEF NumberPayment
  <2>2. PaymentFound(t)' BY <1>2, ReadsTo DEF NumberPayment, PaymentFound
  <2> QED BY <2>1, <2>2
<1>3. CASE PaySupplier(t)
  <2> DEFINE rows == PaymentRow(source[t]) :> [type |-> task[t].type, n |-> task[t].n, serial |-> read[t].serial]
  <2>1. InTables(rows, SupplierPaymentTables) BY DEF :>, InTables, PaymentRow, SupplierPaymentTables
  <2>2. Writes(t, rows, "set_due") /\ pc[t] = "pay_supplier" BY <1>3 DEF PaySupplier
  <2> HIDE DEF rows
  <2> QED BY <2>1, <2>2, WritesFrame DEF PaymentFound
<1>4. CASE SerialTaken(t) BY <1>4, ThrowsFrame DEF SerialTaken, PaymentFound
<1>5. CASE SetDue(t)
  <2> DEFINE rows == Due :> read[t].due
  <2>1. InTables(rows, SupplierPaymentTables) BY DEF :>, InTables, Due, SupplierPaymentTables
  <2>2. CommitsTo(t, rows, "committed") /\ pc[t] = "set_due" BY <1>5 DEF SetDue, Ends
  <2> HIDE DEF rows
  <2> QED BY <2>1, <2>2, CommitsFrame DEF PaymentFound
<1>6. CASE FindPayment(t)
  <2>1. Foot(t, SupplierPaymentTables, SupplierPaymentOps, SupplierPaymentWays)
    BY <1>6, ReadsFrame DEF FindPayment
  <2>2. PaymentFound(t)' BY <1>6, ReadsTo DEF FindPayment, PaymentFound
  <2> QED BY <2>1, <2>2
<1>7. CASE ReadDue(t) BY <1>7, ReadsFrame DEF ReadDue, PaymentFound
<1>8. CASE EditPayment(t)
  <2> DEFINE rows == PaymentRow(source[t]) :> [SeenPayment(t) EXCEPT !.type = task[t].type, !.n = task[t].n]
  <2>1. InTables(rows, SupplierPaymentTables) BY DEF :>, InTables, PaymentRow, SupplierPaymentTables
  <2>2. Writes(t, rows, "set_due") /\ pc[t] = "edit_payment" BY <1>8 DEF EditPayment
  <2> HIDE DEF rows
  <2> QED BY <2>1, <2>2, WritesFrame DEF PaymentFound
<1>9. CASE DropPayment(t)
  <2> DEFINE rows == PaymentRow(source[t]) :> NoPayment
  <2>1. InTables(rows, SupplierPaymentTables) BY DEF :>, InTables, PaymentRow, SupplierPaymentTables
  <2>2. Writes(t, rows, "set_due") /\ pc[t] = "delete_payment" BY <1>9 DEF DropPayment
  <2> HIDE DEF rows
  <2> QED BY <2>1, <2>2, WritesFrame DEF PaymentFound
<1>10. CASE NoSuchPayment(t) BY <1>10, ThrowsFrame DEF NoSuchPayment, PaymentFound
<1> QED BY <1>1, <1>2, <1>3, <1>4, <1>5, <1>6, <1>7, <1>8, <1>9, <1>10 DEF SupplierPaymentStep

LEMMA FundFoot ==
    ASSUME Shape, Locks, NEW t \in Tx, FundStep(t)
    PROVE  Foot(t, FundTables, FundOps, FundWays)
<1> USE DEF Foot, From, Onwards, Done, FundOps, FundWays
<1>1. CASE Initiate(t)
  <2> DEFINE rows == FundRow(source[t]) :> [NoFund EXCEPT !.status = "INITIATED"]
  <2>1. InTables(rows, FundTables) BY DEF :>, InTables, FundRow, FundTables
  <2>2. Writes(t, rows, "fund_number") /\ At(t, "send_funds", "idle") BY <1>1 DEF Initiate
  <2> HIDE DEF rows
  <2> QED BY <2>1, <2>2, WritesFrame DEF At
<1>2. CASE ReadForReceipt(t) BY <1>2, ReadsFrame DEF ReadForReceipt, At
<1>3. CASE ReadFundNumber(t) BY <1>3, ReadsFrame DEF ReadFundNumber
<1>4. CASE IncrementFundSequence(t)
  <2> DEFINE rows == FundSequence :> Sees(t, FundSequence) + 1
  <2>1. InTables(rows, FundTables) BY DEF :>, InTables, FundSequence, FundTables
  <2>2. Writes(t, rows, "fund_voucher") /\ pc[t] = "fund_increment" BY <1>4 DEF IncrementFundSequence
  <2> HIDE DEF rows
  <2> QED BY <2>1, <2>2, WritesFrame
<1>5. CASE InsertFundVoucher(t)
  <2> DEFINE rows == FundVoucher(read[t]) :> [fund |-> source[t], kind |-> task[t].op]
  <2>1. InTables(rows, FundTables) BY DEF :>, InTables, FundVoucher, FundTables
  <2>2. Writes(t, rows, "fund_status") /\ pc[t] = "fund_voucher" BY <1>5 DEF InsertFundVoucher
  <2> HIDE DEF rows
  <2> QED BY <2>1, <2>2, WritesFrame
<1>6. CASE FundNumberTaken(t) BY <1>6, ThrowsFrame DEF FundNumberTaken
<1>7. CASE SetFundStatus(t)
  <2> DEFINE rows == FundRow(source[t]) :> IF task[t].op = "send_funds" THEN [SeenFund(t) EXCEPT !.status = "IN_TRANSIT", !.sent = read[t]] ELSE [SeenFund(t) EXCEPT !.status = "RECEIVED", !.arrived = read[t]]
  <2>1. InTables(rows, FundTables) BY DEF :>, InTables, FundRow, FundTables
  <2>2. CommitsTo(t, rows, "committed") /\ pc[t] = "fund_status" BY <1>7 DEF SetFundStatus, Ends
  <2> HIDE DEF rows
  <2> QED BY <2>1, <2>2, CommitsFrame
<1> QED BY <1>1, <1>2, <1>3, <1>4, <1>5, <1>6, <1>7 DEF FundStep

LEMMA TillFoot ==
    ASSUME Shape, Locks, NEW t \in Tx, TillStep(t)
    PROVE  Foot(t, TillTables, TillOps, TillWays)
<1> USE DEF Foot, From, Onwards, Done, TillOps, TillWays
<1>1. CASE CheckUser(t) BY <1>1, ReadsFrame DEF CheckUser, At
<1>2. CASE CheckCounter(t) BY <1>2, ReadsFrame, ThrowsFrame DEF CheckCounter
<1>3. CASE OpenSession(t)
  <2> DEFINE rows == SessionRow(source[t]) :> "OPEN"
  <2>1. InTables(rows, TillTables) BY DEF :>, InTables, SessionRow, TillTables
  <2>2. Stores(t, rows, "committed") /\ pc[t] = "open_session" BY <1>3 DEF OpenSession
  <2> HIDE DEF rows
  <2> QED BY <2>1, <2>2, StoresFrame
<1>4. CASE ReadForClose(t) BY <1>4, ReadsFrame DEF ReadForClose, At
<1>5. CASE CloseSession(t)
  <2> DEFINE rows == SessionRow(source[t]) :> "CLOSED"
  <2>1. InTables(rows, TillTables) BY DEF :>, InTables, SessionRow, TillTables
  <2>2. Stores(t, rows, "committed") /\ pc[t] = "close_session" BY <1>5 DEF CloseSession
  <2> HIDE DEF rows
  <2> QED BY <2>1, <2>2, StoresFrame
<1>6. CASE ReadForCash(t) BY <1>6, ReadsFrame DEF ReadForCash, At
<1>7. CASE AddCash(t)
  <2> DEFINE rows == Cash(t) :> task[t].n
  <2>1. InTables(rows, TillTables) BY DEF :>, InTables, Cash, TillTables
  <2>2. Stores(t, rows, "committed") /\ pc[t] = "cash" BY <1>7 DEF AddCash
  <2> HIDE DEF rows
  <2> QED BY <2>1, <2>2, StoresFrame
<1> QED BY <1>1, <1>2, <1>3, <1>4, <1>5, <1>6, <1>7 DEF TillStep

LEMMA CommissionFoot ==
    ASSUME Shape, Locks, NEW t \in Tx, CommissionStep(t)
    PROVE  Foot(t, CommissionTables, CommissionOps, CommissionWays)
<1> USE DEF Foot, From, Onwards, Done, CommissionOps, CommissionWays
<1>1. CASE ReadForEarning(t) BY <1>1, ReadsFrame DEF ReadForEarning, At
<1>2. CASE EarnCommission(t)
  <2> DEFINE rows == SignupRow(source[t]) :> "EARNED"
  <2>1. InTables(rows, CommissionTables) BY DEF :>, InTables, SignupRow, CommissionTables
  <2>2. Stores(t, rows, "committed") /\ pc[t] = "earn_commission" BY <1>2 DEF EarnCommission
  <2> HIDE DEF rows
  <2> QED BY <2>1, <2>2, StoresFrame
<1>3. CASE ReadEarned(t) BY <1>3, ReadsFrame DEF ReadEarned, At
<1>4. CASE PayCommissions(t)
  <2> DEFINE rows == RefereePayment(t) :> read[t]
                    @@ [r \in {SignupRow(x) : x \in read[t]} |-> "PAID"]
  <2>1. InTables(rows, CommissionTables)
    BY DEF :>, @@, InTables, SignupRow, RefereePayment, CommissionTables
  <2>2. CommitsTo(t, rows, "committed") /\ pc[t] = "pay_commissions" BY <1>4 DEF PayCommissions, Ends
  <2> HIDE DEF rows
  <2> QED BY <2>1, <2>2, CommitsFrame
<1> QED BY <1>1, <1>2, <1>3, <1>4 DEF CommissionStep

LEMMA JournalFoot ==
    ASSUME Shape, Locks, NEW t \in Tx, JournalStep(t)
    PROVE  Foot(t, JournalTables, JournalOps, JournalWays)
<1> USE DEF Foot, From, Onwards, Done, JournalOps, JournalWays
<1>1. CASE Journalize(t) BY <1>1, ReadsFrame DEF Journalize, At
<1>2. CASE TakeNumber(t)
  <2> DEFINE rows == Sequence :> Sees(t, Sequence) + 1
  <2>1. InTables(rows, JournalTables) BY DEF :>, InTables, Sequence, JournalTables
  <2>2. Writes(t, rows, "new_voucher") /\ pc[t] = "take_number" BY <1>2 DEF TakeNumber
  <2> HIDE DEF rows
  <2> QED BY <2>1, <2>2, WritesFrame
<1>3. CASE Conflicts(t) BY <1>3, ReadsFrame, ThrowsFrame DEF Conflicts
<1>4. CASE NewVoucher(t)
  <2> DEFINE rows == Number(read[t].sequence) :> [source |-> source[t], amount |-> task[t].n]
  <2>1. InTables(rows, JournalTables) BY DEF :>, InTables, Number, JournalTables
  <2>2. /\ CommitsTo(t, rows, IF source[t] \in Recurring THEN "advance" ELSE "committed")
        /\ pc[t] = "new_voucher"
    BY <1>4 DEF NewVoucher
  <2> HIDE DEF rows
  <2> QED BY <2>1, <2>2, CommitsFrame
<1>5. CASE FindVoucher(t)
  <2>1. PICK n : Reads(t, n, task[t].op) BY <1>5 DEF FindVoucher
  <2>9. pc[t] = "idle" /\ task[t].op \in {"edit_journal", "delete_journal"} BY <1>5 DEF FindVoucher
  <2> QED BY <2>9, <2>1, ReadsFrame
<1>6. CASE EditVoucher(t)
  <2> DEFINE rows == Number(read[t]) :> [source |-> source[t], amount |-> task[t].n]
  <2>1. InTables(rows, JournalTables) BY DEF :>, InTables, Number, JournalTables
  <2>2. CommitsTo(t, rows, "committed") /\ pc[t] = "edit_journal" BY <1>6 DEF EditVoucher, Ends
  <2> HIDE DEF rows
  <2> QED BY <2>1, <2>2, CommitsFrame
<1>7. CASE DropVoucher(t)
  <2> DEFINE rows == Number(read[t]) :> NoVoucher
  <2>1. InTables(rows, JournalTables) BY DEF :>, InTables, Number, JournalTables
  <2>2. CommitsTo(t, rows, "committed") /\ pc[t] = "delete_journal" BY <1>7 DEF DropVoucher, Ends
  <2> HIDE DEF rows
  <2> QED BY <2>1, <2>2, CommitsFrame
<1>8. CASE VoucherGone(t) BY <1>8, ThrowsFrame DEF VoucherGone
<1>9. CASE FindDue(t) BY <1>9, ReadsFrame DEF FindDue, At
<1>10. CASE ReadTemplate(t) BY <1>10, ReadsFrame, ThrowsFrame DEF ReadTemplate, At
<1>11. CASE Advance(t)
  <2> DEFINE rows == NextDue(source[t]) :> FollowingDate(t)
  <2>1. InTables(rows, JournalTables) BY DEF :>, InTables, NextDue, JournalTables
  <2>2. Stores(t, rows, "committed") /\ pc[t] = "advance" BY <1>11 DEF Advance
  <2> HIDE DEF rows
  <2> QED BY <2>1, <2>2, StoresFrame
<1>12. CASE TemplateGone(t) BY <1>12, ThrowsFrame DEF TemplateGone
<1>13. CASE DeleteTemplate(t)
  <2> DEFINE rows == NextDue(source[t]) :> Deleted
  <2>1. InTables(rows, JournalTables) BY DEF :>, InTables, NextDue, JournalTables
  <2>2. Stores(t, rows, "committed") /\ At(t, "delete_recurring", "idle") BY <1>13 DEF DeleteTemplate
  <2> HIDE DEF rows
  <2> QED BY <2>1, <2>2, StoresFrame DEF At
<1> QED BY <1>1, <1>2, <1>3, <1>4, <1>5, <1>6, <1>7, <1>8, <1>9, <1>10, <1>11, <1>12,
       <1>13 DEF JournalStep

LEMMA LeaveFoot ==
    ASSUME Shape, Locks, NEW t \in Tx, LeaveStep(t)
    PROVE  Foot(t, LeaveTables, LeaveOps, LeaveWays)
<1> USE DEF Foot, From, Onwards, Done, LeaveOps, LeaveWays
<1>1. CASE ReadForReview(t) BY <1>1, ReadsFrame DEF ReadForReview, At
<1>2. CASE TakeDays(t)
  <2> DEFINE rows == UsedDays :> Sees(t, UsedDays) + LeaveDays[source[t]]
  <2>1. InTables(rows, LeaveTables) BY DEF :>, InTables, UsedDays, LeaveTables
  <2>2. Stores(t, rows, "set_leave") /\ pc[t] = "take_days" BY <1>2 DEF TakeDays
  <2> HIDE DEF rows
  <2> QED BY <2>1, <2>2, StoresFrame
<1>3. CASE ReadForLeaveCancel(t) BY <1>3, ReadsFrame DEF ReadForLeaveCancel, At
<1>4. CASE GiveBackDays(t)
  <2> DEFINE rows == UsedDays :> Sees(t, UsedDays) - LeaveDays[source[t]]
  <2>1. InTables(rows, LeaveTables) BY DEF :>, InTables, UsedDays, LeaveTables
  <2>2. Stores(t, rows, "set_leave") /\ pc[t] = "give_back_days" BY <1>4 DEF GiveBackDays
  <2> HIDE DEF rows
  <2> QED BY <2>1, <2>2, StoresFrame
<1>5. CASE SetLeave(t)
  <2> DEFINE rows == LeaveRow(source[t]) :> task[t].status
  <2>1. InTables(rows, LeaveTables) BY DEF :>, InTables, LeaveRow, LeaveTables
  <2>2. Stores(t, rows, "committed") /\ pc[t] = "set_leave" BY <1>5 DEF SetLeave
  <2> HIDE DEF rows
  <2> QED BY <2>1, <2>2, StoresFrame
<1> QED BY <1>1, <1>2, <1>3, <1>4, <1>5 DEF LeaveStep

LEMMA DepreciationFoot ==
    ASSUME Shape, Locks, NEW t \in Tx, DepreciationStep(t)
    PROVE  Foot(t, DepreciationTables, DepreciationOps, DepreciationWays)
<1> USE DEF Foot, From, Onwards, Done, DepreciationOps, DepreciationWays
<1>1. CASE FindAssets(t) BY <1>1, ReadsFrame DEF FindAssets, At
<1>2. CASE NextAsset(t)
  <2> DEFINE skipped(a) == Sees(t, ChargeEntry(a, source[t])) # 0 \/ ChargeOf(t, a) <= 0
             statement(a) == IF skipped(a) THEN "next_asset" ELSE "enter"
  <2>1. PICK a, v : Reads(t, v, statement(a)) BY <1>2 DEF NextAsset
  <2>2. pc[t] = "next_asset" BY <1>2 DEF NextAsset
  <2> HIDE DEF skipped
  <2> QED BY <2>1, <2>2, ReadsFrame
<1>3. CASE EnterCharge(t)
  <2> DEFINE rows == TheEntry(t) :> TheCharge(t)
  <2>1. InTables(rows, DepreciationTables) BY DEF TheEntry, :>, InTables, ChargeEntry, DepreciationTables
  <2>2. Stores(t, rows, "accumulate") /\ pc[t] = "enter" BY <1>3 DEF EnterCharge
  <2> HIDE DEF rows
  <2> QED BY <2>1, <2>2, StoresFrame
<1>4. CASE ChargeEntered(t) BY <1>4, ThrowsFrame DEF ChargeEntered
<1>5. CASE Accumulate(t)
  <2> DEFINE rows == Accumulated(TheAsset(t)) :> Sees(t, Accumulated(TheAsset(t))) + TheCharge(t)
  <2>1. InTables(rows, DepreciationTables) BY DEF :>, InTables, Accumulated, DepreciationTables
  <2>2. Stores(t, rows, "next_asset") /\ pc[t] = "accumulate" BY <1>5 DEF Accumulate
  <2> HIDE DEF rows
  <2> QED BY <2>1, <2>2, StoresFrame
<1>6. CASE FinishDepreciation(t)
  <2>1. Stores(t, << >>, "committed") BY <1>6 DEF FinishDepreciation
  <2> QED BY <1>6, <2>1, NoRows, StoresFrame DEF FinishDepreciation
<1> QED BY <1>1, <1>2, <1>3, <1>4, <1>5, <1>6 DEF DepreciationStep

LEMMA CampaignFoot ==
    ASSUME Shape, Locks, NEW t \in Tx, CampaignStep(t)
    PROVE  Foot(t, CampaignTables, CampaignOps, CampaignWays)
<1> USE DEF Foot, From, Onwards, Done, CampaignOps, CampaignWays
<1>1. CASE ReadForSending(t) BY <1>1, ReadsFrame DEF ReadForSending, At
<1>2. CASE SetSending(t)
  <2> DEFINE rows == CampaignRow(source[t]) :> [SeenCampaign(t) EXCEPT !.status = "SENDING"]
  <2>1. InTables(rows, CampaignTables) BY DEF :>, InTables, CampaignRow, CampaignTables
  <2>2. Stores(t, rows, "add_recipients") /\ pc[t] = "set_sending" BY <1>2 DEF SetSending
  <2> HIDE DEF rows
  <2> QED BY <2>1, <2>2, StoresFrame
<1>3. CASE AddRecipients(t)
  <2> DEFINE rows == [r \in RecipientsOf(t) |-> IF Sees(t, r) = "none" THEN "PENDING" ELSE Sees(t, r)]
  <2>1. InTables(rows, CampaignTables) BY DEF InTables, RecipientsOf, Recipient, CampaignTables
  <2>2. Stores(t, rows, "dispatch") /\ pc[t] = "add_recipients" BY <1>3 DEF AddRecipients
  <2> HIDE DEF rows
  <2> QED BY <2>1, <2>2, StoresFrame
<1>4. CASE Message(t)
  <2>1. PICK x \in read[t].left, sent \in BOOLEAN :
           Autocommit(IF sent THEN Messages(source[t], x) :> Sees(t, Messages(source[t], x)) + 1
                      ELSE << >>)
    BY <1>4 DEF Message
  <2> DEFINE rows == IF sent THEN Messages(source[t], x) :> Sees(t, Messages(source[t], x)) + 1
                     ELSE << >>
  <2>2. InTables(rows, CampaignTables) BY DEF :>, InTables, Messages, CampaignTables
  <2>3. Autocommit(rows) BY <2>1
  <2>4. \A u \in Tx : u # t => read'[u] = read[u] BY <1>4 DEF Message, Shape
  <2>5. DOMAIN read' = Tx /\ Goto(t, "record_recipient") /\ UNCHANGED <<locals, task>>
    BY <1>4 DEF Message, Shape
  <2> HIDE DEF rows
  <2>9. pc[t] = "dispatch" BY <1>4 DEF Message
  <2> QED BY <2>9, <2>2, <2>3, <2>4, <2>5, AutocommitFrame
<1>5. CASE RecordRecipient(t)
  <2>1. PICK x \in DOMAIN read[t].sent, status \in {"FAILED", "SENT"} :
           Autocommit(IF SeenCampaign(t) = NoCampaign THEN << >>
                      ELSE Recipient(source[t], x) :> status)
    BY <1>5 DEF RecordRecipient
  <2> DEFINE rows == IF SeenCampaign(t) = NoCampaign THEN << >> ELSE Recipient(source[t], x) :> status
  <2>2. InTables(rows, CampaignTables) BY DEF :>, InTables, Recipient, CampaignTables
  <2>3. Autocommit(rows) BY <2>1
  <2>4. \A u \in Tx : u # t => read'[u] = read[u] BY <1>5 DEF RecordRecipient, Shape
  <2>5. DOMAIN read' = Tx /\ Goto(t, "dispatch") /\ UNCHANGED <<locals, task>>
    BY <1>5 DEF RecordRecipient, Shape
  <2> HIDE DEF rows
  <2>9. pc[t] = "record_recipient" BY <1>5 DEF RecordRecipient
  <2> QED BY <2>9, <2>2, <2>3, <2>4, <2>5, AutocommitFrame
<1>6. CASE CompleteCampaign(t)
  <2> DEFINE rows == CampaignRow(source[t]) :> [status |-> "COMPLETED", delivered |-> read[t].delivered]
  <2>1. InTables(rows, CampaignTables) BY DEF :>, InTables, CampaignRow, CampaignTables
  <2>2. Stores(t, rows, "committed") /\ pc[t] = "dispatch" BY <1>6 DEF CompleteCampaign
  <2> HIDE DEF rows
  <2> QED BY <2>1, <2>2, StoresFrame
<1>7. CASE ReadForSchedule(t) BY <1>7, ReadsFrame DEF ReadForSchedule, At
<1>8. CASE Schedule(t)
  <2> DEFINE rows == CampaignRow(source[t]) :> [SeenCampaign(t) EXCEPT !.status = task[t].status]
  <2>1. InTables(rows, CampaignTables) BY DEF :>, InTables, CampaignRow, CampaignTables
  <2>2. Stores(t, rows, "committed") /\ pc[t] = "schedule" BY <1>8 DEF Schedule
  <2> HIDE DEF rows
  <2> QED BY <2>1, <2>2, StoresFrame
<1>9. CASE ReadForRemoval(t) BY <1>9, ReadsFrame DEF ReadForRemoval, At
<1>10. CASE RemoveCampaign(t)
  <2> DEFINE rows == CampaignRow(source[t]) :> NoCampaign @@ [r \in RecipientsOf(t) |-> "none"]
  <2>1. InTables(rows, CampaignTables)
    BY DEF :>, @@, InTables, CampaignRow, RecipientsOf, Recipient, CampaignTables
  <2>2. Stores(t, rows, "committed") /\ pc[t] = "remove_campaign" BY <1>10 DEF RemoveCampaign
  <2> HIDE DEF rows
  <2> QED BY <2>1, <2>2, StoresFrame
<1>11. CASE CampaignGone(t) BY <1>11, ThrowsFrame DEF CampaignGone
<1> QED BY <1>1, <1>2, <1>3, <1>4, <1>5, <1>6, <1>7, <1>8, <1>9, <1>10, <1>11 DEF CampaignStep

-----------------------------------------------------------------------------
(* The statements of posting, and the end of a request that is cut short.    *)

LEMMA WriteRowFrame ==
    ASSUME Shape, Locks, NEW t \in Tx, NEW r, NEW v, NEW s, WriteRow(t, r, v), Goto(t, s),
           UNCHANGED <<source, task, read, amount>>, NEW T, r[1] \in T
    PROVE  /\ Frame(t, T) /\ Kept(t, T) /\ pc'[t] = s /\ committed' = committed
           /\ \A q \in DOMAIN pending[t] : q # r => pending'[t][q] = pending[t][q]
<1>1. /\ DOMAIN pending'[t] = DOMAIN pending[t] \cup {r}
      /\ \A q \in DOMAIN pending[t] : q # r => pending'[t][q] = pending[t][q]
  BY DEF WriteRow, Put, Shape
<1>2. Shape' /\ Locks' BY <1>1, NoTxAssumption DEF WriteRow, Lockable, Goto, Shape, Locks
<1>3. Kept(t, T) BY <1>1 DEF Kept, WriteRow
<1> QED BY <1>1, <1>2, <1>3 DEF WriteRow, Goto, Shape, Frame

LEMMA WriteRowsFrame ==
    ASSUME Shape, Locks, NEW t \in Tx, NEW rows, NEW s, WriteRows(t, rows), Goto(t, s),
           UNCHANGED <<source, task, read, amount>>, NEW T, InTables(rows, T)
    PROVE  /\ Frame(t, T) /\ Kept(t, T) /\ pc'[t] = s /\ committed' = committed
  BY NoTxAssumption DEF WriteRows, Lockable, Goto, Shape, Locks, Frame, Kept, InTables

LEMMA FailFrame ==
    ASSUME Shape, Locks, NEW t \in Tx, NEW s, Fail(t, s), UNCHANGED <<task, read>>, NEW T
    PROVE  Frame(t, T) /\ Dropped(t) /\ pc'[t] = s
  BY DEF Fail, RollbackTx, Unlocked, NoWrites, Goto, Shape, Locks, Frame, Dropped, locals

LEMMA PostedIsItsOwn ==
    ASSUME Shape, Locks, NoVoid, NEW t \in Tx, Posts(t)
    PROVE  PostsItsOwn(t)
<1>1. ASSUME NEW r, NEW v, WriteRow(t, r, v), \A n : Number(n) # r
      PROVE  PostsItsOwn(t)
  BY <1>1 DEF WriteRow, Put, Shape, PostsItsOwn
<1>2. CASE TakeEvent(t)
  <2>1. CASE UNCHANGED dbVars BY <2>1 DEF PostsItsOwn, dbVars
  <2>2. CASE ~UNCHANGED dbVars
    <3> DEFINE event == [SeenEvent(t) EXCEPT !.status = "pending",
                                             !.id = IF @ = NoTx THEN t ELSE @]
    <3>1. WriteRow(t, Event(source[t]), event) BY <1>2, <2>2 DEF TakeEvent
    <3>2. \A n : Number(n) # Event(source[t]) BY DEF Number, Event
    <3> HIDE DEF event
    <3> QED BY <1>1, <3>1, <3>2
  <2> QED BY <2>1, <2>2
<1>3. CASE SkipPosting(t)
  <2> DEFINE event == [SeenEvent(t) EXCEPT !.status = "skipped"]
  <2>1. WriteRow(t, Event(source[t]), event) BY <1>3 DEF SkipPosting
  <2>2. \A n : Number(n) # Event(source[t]) BY DEF Number, Event
  <2> HIDE DEF event
  <2> QED BY <1>1, <2>1, <2>2
<1>4. CASE ReadNumber(t) BY <1>4 DEF ReadNumber, PostsItsOwn, dbVars
<1>5. CASE IncrementSequence(t)
  <2>1. WriteRow(t, Sequence, Sees(t, Sequence) + 1) /\ \A n : Number(n) # Sequence
    BY <1>5 DEF IncrementSequence, Number, Sequence
  <2> QED BY <1>1, <2>1
<1>6. CASE InsertVoucher(t)
  <2> DEFINE rows == [r \in {Number(number[t]), Event(source[t])} |->
                         IF r = Event(source[t])
                         THEN [SeenEvent(t) EXCEPT !.status = "posted", !.voucher = number[t]]
                         ELSE [source |-> source[t], amount |-> amount[t]]]
  <2>1. WriteRows(t, rows) /\ Sees(t, Number(number[t])) = NoVoucher BY <1>6 DEF InsertVoucher, NumberFree
  <2>2. \A m, n : Number(n) # Event(source[t]) /\ (Number(m) = Number(n) => m = n) BY DEF Number, Event
  <2>3. /\ DOMAIN rows = {Number(number[t]), Event(source[t])}
        /\ rows[Number(number[t])].source = source[t]
    BY <2>2
  <2> HIDE DEF rows
  <2>4. /\ DOMAIN pending'[t] = DOMAIN pending[t] \cup DOMAIN rows
        /\ \A r \in DOMAIN rows : pending'[t][r] = rows[r]
        /\ \A r \in DOMAIN pending[t] : r \notin DOMAIN rows => pending'[t][r] = pending[t][r]
    BY <2>1 DEF WriteRows, Shape
  <2> QED BY <2>1, <2>2, <2>3, <2>4 DEF PostsItsOwn
<1>7. CASE NumberTaken(t) BY <1>7 DEF NumberTaken, Fail, RollbackTx, NoWrites, Shape, PostsItsOwn
<1> QED BY <1>2, <1>3, <1>4, <1>5, <1>6, <1>7 DEF Posts, PostingStep, FindPosted, DeletePosted,
  DeletedMeanwhile, UpdateForRetry, NoVoid

LEMMA PostsFoot ==
    ASSUME Shape, Locks, NoVoid, NEW t \in Tx, Posts(t)
    PROVE  PostingFoot(t)
<1> USE DEF Posting, PostingTables, PostingFoot
<1>0. UNCHANGED <<task, read>> /\ PostsItsOwn(t) BY PostedIsItsOwn DEF Posts
<1>1. CASE TakeEvent(t)
  <2>1. CASE UNCHANGED dbVars /\ Goto(t, "commit")
    BY <1>0, <1>1, <2>1 DEF TakeEvent, Goto, Shape, Locks, Frame, Kept, dbVars, locals
  <2>2. CASE ~(UNCHANGED dbVars /\ Goto(t, "commit"))
    <3> DEFINE event == [SeenEvent(t) EXCEPT !.status = "pending",
                                             !.id = IF @ = NoTx THEN t ELSE @]
    <3>1. /\ WriteRow(t, Event(source[t]), event)
          /\ Goto(t, "rule") /\ UNCHANGED <<source, amount>> /\ pc[t] = "post"
      BY <1>1, <2>2 DEF TakeEvent, locals
    <3> HIDE DEF event
    <3> QED BY <1>0, <3>1, WriteRowFrame DEF Event
  <2> QED BY <2>1, <2>2
<1>2. CASE SkipPosting(t)
  <2> DEFINE event == [SeenEvent(t) EXCEPT !.status = "skipped"]
  <2>1. /\ WriteRow(t, Event(source[t]), event)
        /\ Goto(t, "commit") /\ UNCHANGED <<source, amount>> /\ pc[t] = "rule"
    BY <1>2 DEF SkipPosting, locals
  <2> HIDE DEF event
  <2> QED BY <1>0, <2>1, WriteRowFrame DEF Event
<1>3. CASE ReadNumber(t) BY <1>0, <1>3 DEF ReadNumber, Goto, Shape, Locks, Frame, Kept, dbVars
<1>4. CASE IncrementSequence(t)
  <2>1. /\ WriteRow(t, Sequence, Sees(t, Sequence) + 1)
        /\ Goto(t, "voucher") /\ UNCHANGED <<source, amount>> /\ pc[t] = "increment"
    BY <1>4 DEF IncrementSequence, locals
  <2> QED BY <1>0, <2>1, WriteRowFrame DEF Sequence
<1>5. CASE InsertVoucher(t)
  <2> DEFINE rows == [r \in {Number(number[t]), Event(source[t])} |->
                         IF r = Event(source[t])
                         THEN [SeenEvent(t) EXCEPT !.status = "posted", !.voucher = number[t]]
                         ELSE [source |-> source[t], amount |-> amount[t]]]
  <2>1. /\ WriteRows(t, rows)
        /\ Goto(t, "commit") /\ UNCHANGED <<source, amount>> /\ pc[t] = "voucher"
    BY <1>5 DEF InsertVoucher, locals
  <2>2. InTables(rows, PostingTables) BY DEF InTables, Number, Event
  <2> HIDE DEF rows
  <2> QED BY <1>0, <2>1, <2>2, WriteRowsFrame
<1>6. CASE NumberTaken(t)
  <2>1. Fail(t, "number_taken") /\ pc[t] = "voucher" BY <1>6 DEF NumberTaken
  <2> QED BY <1>0, <2>1, FailFrame DEF Fail, RollbackTx
<1> QED BY <1>1, <1>2, <1>3, <1>4, <1>5, <1>6 DEF Posts, PostingStep, FindPosted, DeletePosted,
  DeletedMeanwhile, UpdateForRetry, NoVoid

LEMMA AbortFoot ==
    ASSUME Shape, Locks, NEW t \in Tx, Abort(t), NEW T
    PROVE  Running(t) /\ pc'[t] = "failed" /\ Frame(t, T) /\ Dropped(t)
  BY ThrowsFrame DEF Abort

-----------------------------------------------------------------------------
(* Where requests are: what every proof below starts from.                   *)

LEMMA BaseInit == Init => Base
  BY DEF Init, RequestsInit, DbInit, PostingInit, NoWrites, Base, Shape, Locks, OnItsWay, Routed,
    NumbersSought, LinesSought, PaymentFound, SaleWays, ReturnWays, OrderWays, LoyaltyWays, ClaimWays,
    PurchasingWays, ProductionWays, LoanWays, SupplierPaymentWays, FundWays, TillWays, CommissionWays,
    JournalWays, LeaveWays, DepreciationWays, CampaignWays

LEMMA Starts ==
    ASSUME Init
    PROVE  /\ \A r \in Row : committed[r] = InitialRow(r)
           /\ \A t \in Tx : pc[t] = "idle" /\ DOMAIN pending[t] = {} /\ source[t] = task[t].on
           /\ task \in Workload /\ source \in [Tx -> Source]
  BY DEF Init, RequestsInit, DbInit, PostingInit, NoWrites

LEMMA ServeFootprint ==
    ASSUME Base, NEW t \in Tx, DeskStep(t) \/ BackOfficeStep(t) \/ Posts(t) \/ Abort(t)
    PROVE  Footprint(t)
<1>0. Shape /\ Locks /\ NoVoid /\ NumbersSought(t) /\ LinesSought(t) /\ PaymentFound(t)
  BY DEF Base, OnItsWay, NoVoid
<1>1. CASE DeskStep(t)
  BY <1>0, <1>1, SaleFoot, ReturnFoot, OrderFoot, LoyaltyFoot, ClaimFoot DEF DeskStep, Footprint
<1>2. CASE BackOfficeStep(t)
  BY <1>0, <1>2, PurchasingFoot, ProductionFoot, LoanFoot, SupplierPaymentFoot, FundFoot, TillFoot,
    CommissionFoot, JournalFoot, LeaveFoot, DepreciationFoot, CampaignFoot DEF BackOfficeStep,
    Footprint
<1>3. CASE Posts(t) BY <1>0, <1>3, PostsFoot DEF Footprint
<1>4. CASE Abort(t) BY <1>0, <1>4, AbortFoot DEF Footprint
<1> QED BY <1>1, <1>2, <1>3, <1>4

LEMMA BaseByOne ==
    ASSUME Base, NEW t \in Tx, NEW T, Frame(t, T), OnItsWay(t)'
    PROVE  Base'
<1>1. ASSUME NEW u \in Tx, u # t
      PROVE  OnItsWay(u)'
  BY <1>1 DEF Base, Frame, OnItsWay, Routed, NumbersSought, LinesSought, PaymentFound
<1> QED BY <1>1 DEF Base, Frame

LEMMA StaysOnItsWay ==
    ASSUME NEW t \in Tx, OnItsWay(t), Footprint(t)
    PROVE  OnItsWay(t)'
<1> USE DEF OnItsWay, Routed, NumbersSought, LinesSought, PaymentFound, Frame, From,
         Onwards, Done, SaleOps, ReturnOps, OrderOps, LoyaltyOps, ClaimOps, PurchasingOps,
         ProductionOps, LoanOps, SupplierPaymentOps, FundOps, TillOps, CommissionOps,
         JournalOps, LeaveOps, DepreciationOps, CampaignOps, SaleWays, ReturnWays,
         OrderWays, LoyaltyWays, ClaimWays, PurchasingWays, ProductionWays, LoanWays,
         SupplierPaymentWays, FundWays, TillWays, CommissionWays, JournalWays, LeaveWays,
         DepreciationWays, CampaignWays
<1>1. CASE Foot(t, SaleTables, SaleOps, SaleWays) BY <1>1 DEF Foot
<1>2. CASE Foot(t, ReturnTables, ReturnOps, ReturnWays) BY <1>2 DEF Foot
<1>3. CASE Foot(t, OrderTables, OrderOps, OrderWays) /\ LinesSought(t)' BY <1>3 DEF Foot
<1>4. CASE Foot(t, LoyaltyTables, LoyaltyOps, LoyaltyWays) BY <1>4 DEF Foot
<1>5. CASE Foot(t, ClaimTables, ClaimOps, ClaimWays) BY <1>5 DEF Foot
<1>6. CASE Foot(t, PurchasingTables, PurchasingOps, PurchasingWays) /\ NumbersSought(t)' BY <1>6 DEF Foot
<1>7. CASE Foot(t, ProductionTables, ProductionOps, ProductionWays) BY <1>7 DEF Foot
<1>8. CASE Foot(t, LoanTables, LoanOps, LoanWays) BY <1>8 DEF Foot
<1>9. CASE Foot(t, SupplierPaymentTables, SupplierPaymentOps, SupplierPaymentWays) /\ PaymentFound(t)'
  BY <1>9 DEF Foot
<1>10. CASE Foot(t, FundTables, FundOps, FundWays) BY <1>10 DEF Foot
<1>11. CASE Foot(t, TillTables, TillOps, TillWays) BY <1>11 DEF Foot
<1>12. CASE Foot(t, CommissionTables, CommissionOps, CommissionWays) BY <1>12 DEF Foot
<1>13. CASE Foot(t, JournalTables, JournalOps, JournalWays) BY <1>13 DEF Foot
<1>14. CASE Foot(t, LeaveTables, LeaveOps, LeaveWays) BY <1>14 DEF Foot
<1>15. CASE Foot(t, DepreciationTables, DepreciationOps, DepreciationWays) BY <1>15 DEF Foot
<1>16. CASE Foot(t, CampaignTables, CampaignOps, CampaignWays) BY <1>16 DEF Foot
<1>17. CASE PostingFoot(t) BY <1>17 DEF PostingFoot, Posting
<1>18. CASE pc'[t] = "failed" /\ Frame(t, {}) BY <1>18
<1> QED BY <1>1, <1>2, <1>3, <1>4, <1>5, <1>6, <1>7, <1>8, <1>9, <1>10, <1>11, <1>12,
     <1>13, <1>14, <1>15, <1>16, <1>17, <1>18
     DEF Footprint

LEMMA BaseServe ==
    ASSUME Base, NEW t \in Tx, Footprint(t)
    PROVE  Base'
<1>1. OnItsWay(t)' BY StaysOnItsWay DEF Base
<1>2. \E T : Frame(t, T) BY DEF Footprint, Foot, PostingFoot
<1> QED BY <1>1, <1>2, BaseByOne

-----------------------------------------------------------------------------
(* Requests that meet, and steps that spare a table.                         *)

LEMMA Meets ==
    ASSUME Watch, NEW t \in Tx, NEW u \in Tx, t # u, Running(u), pc'[t] # pc[t],
           UNCHANGED source, NEW S, source[t] \in S, source[u] \in S
    PROVE  ~Apart(S)'
<1>1. {u, t} \in overlapped' BY DEF Watch
<1> QED BY <1>1 DEF Apart

LEMMA ApartBefore ==
    ASSUME Watch, UNCHANGED source, NEW S, Apart(S)'
    PROVE  Apart(S)
  BY DEF Watch, Apart

LEMMA FrameSpares ==
    ASSUME NEW t \in Tx, NEW T, NEW Own, Frame(t, T), Own \cap T = {}
    PROVE  Spares(t, Own)
  BY DEF Frame, Kept, Published, Dropped, Spares

\* Which services a step can be of.
LEMMA Services ==
    ASSUME NEW t \in Tx, Footprint(t)
    PROVE  /\ Elsewhere(t, {})
           /\ TillStep(t) \/ Elsewhere(t, {"cash"})
           /\ CommissionStep(t) \/ Elsewhere(t, {"pay_commissions"})
           /\ FundStep(t) \/ Elsewhere(t, {"fund_status"})
           /\ SupplierPaymentStep(t) \/ Elsewhere(t, {"set_due"})
           /\ OrderStep(t) \/ Elsewhere(t, {"deliver"})
           /\ LoanStep(t) \/ Elsewhere(t, {"repay"})
           /\ JournalStep(t) \/ Elsewhere(t, {"advance"})
           /\ SaleStep(t) \/ ClaimStep(t) \/ Elsewhere(t, {"sell", "claim"})
           /\ SaleStep(t) \/ ReturnStep(t) \/ OrderStep(t) \/ LoyaltyStep(t)
                 \/ Elsewhere(t, {"sell", "take_back", "deliver", "move_points"})
           /\ SaleStep(t) \/ ReturnStep(t) \/ OrderStep(t) \/ PurchasingStep(t) \/ ProductionStep(t)
                 \/ Elsewhere(t, {"sell", "take_back", "deliver", "buy", "consume"})
  BY DEF Footprint, Elsewhere, IsService, SaleWays, ReturnWays, OrderWays, LoyaltyWays, ClaimWays,
    PurchasingWays, ProductionWays, LoanWays, SupplierPaymentWays, FundWays, TillWays, CommissionWays,
    JournalWays, LeaveWays, DepreciationWays, CampaignWays

\* What tells the services apart.
LEMMA ServicesApart ==
    ASSUME NEW T, NEW O, NEW W, IsService(T, O, W)
    PROVE  /\ W \cap (Posting \cup Done \cup {"idle", "commit"}) = {}
           /\ {"cash"} \cap W = {} => T \cap TillTables = {} /\ W \cap TillWays = {}
           /\ {"pay_commissions"} \cap W = {} => T \cap CommissionTables = {} /\ W \cap CommissionWays = {}
           /\ {"fund_status"} \cap W = {} => T \cap FundTables = {} /\ W \cap FundWays = {}
           /\ {"set_due"} \cap W = {} => T \cap SupplierPaymentTables = {} /\ W \cap SupplierPaymentWays = {}
           /\ {"deliver"} \cap W = {} => T \cap ItemTables = {} /\ W \cap OrderWays = {}
           /\ {"repay"} \cap W = {} => T \cap LoanTables = {} /\ W \cap LoanWays = {}
           /\ {"advance"} \cap W = {} =>
                 T \cap DueTables = {} /\ O \cap DueOps = {} /\ W \cap JournalWays = {}
           /\ {"sell", "claim"} \cap W = {} =>
                 T \cap SerialTables = {} /\ O \cap SaleOps = {} /\ W \cap SerialWays = {}
           /\ {"sell", "take_back", "deliver", "move_points"} \cap W = {} =>
                 /\ T \cap PointsTables = {} /\ O \cap (SaleOps \cup LoyaltyOps) = {}
                 /\ W \cap (Asking \cup {"edit_sale", "edit_total"}) = {}
           /\ {"sell", "take_back", "deliver", "buy", "consume"} \cap W = {} =>
                 /\ T \cap StockTables = {} /\ O \cap StockOps = {}
                 /\ W \cap (SaleWays \cup ReturnWays \cup OrderWays \cup PurchasingWays \cup ProductionWays) = {}
<1> USE DEF Posting, Done, ItemTables, DueTables, DueOps, SerialTables, SerialWays, PointsTables,
         Asking, Selling, StockTables, StockOps, SaleTables, ReturnTables, OrderTables, LoyaltyTables, ClaimTables, PurchasingTables,
         ProductionTables, LoanTables, SupplierPaymentTables, FundTables, TillTables,
         CommissionTables, JournalTables, LeaveTables, DepreciationTables, CampaignTables,
         SaleOps, ReturnOps, OrderOps, LoyaltyOps, ClaimOps, PurchasingOps, ProductionOps,
         LoanOps, SupplierPaymentOps, FundOps, TillOps, CommissionOps, JournalOps, LeaveOps,
         DepreciationOps, CampaignOps,
         SaleWays, ReturnWays, OrderWays, LoyaltyWays, ClaimWays, PurchasingWays, ProductionWays,
         LoanWays, SupplierPaymentWays, FundWays, TillWays, CommissionWays, JournalWays,
         LeaveWays, DepreciationWays, CampaignWays
<1>1. CASE T = SaleTables /\ O = SaleOps /\ W = SaleWays BY <1>1
<1>2. CASE T = ReturnTables /\ O = ReturnOps /\ W = ReturnWays BY <1>2
<1>3. CASE T = OrderTables /\ O = OrderOps /\ W = OrderWays BY <1>3
<1>4. CASE T = LoyaltyTables /\ O = LoyaltyOps /\ W = LoyaltyWays BY <1>4
<1>5. CASE T = ClaimTables /\ O = ClaimOps /\ W = ClaimWays BY <1>5
<1>6. CASE T = PurchasingTables /\ O = PurchasingOps /\ W = PurchasingWays BY <1>6
<1>7. CASE T = ProductionTables /\ O = ProductionOps /\ W = ProductionWays BY <1>7
<1>8. CASE T = LoanTables /\ O = LoanOps /\ W = LoanWays BY <1>8
<1>9. CASE T = SupplierPaymentTables /\ O = SupplierPaymentOps /\ W = SupplierPaymentWays BY <1>9
<1>10. CASE T = FundTables /\ O = FundOps /\ W = FundWays BY <1>10
<1>11. CASE T = TillTables /\ O = TillOps /\ W = TillWays BY <1>11
<1>12. CASE T = CommissionTables /\ O = CommissionOps /\ W = CommissionWays BY <1>12
<1>13. CASE T = JournalTables /\ O = JournalOps /\ W = JournalWays BY <1>13
<1>14. CASE T = LeaveTables /\ O = LeaveOps /\ W = LeaveWays BY <1>14
<1>15. CASE T = DepreciationTables /\ O = DepreciationOps /\ W = DepreciationWays BY <1>15
<1>16. CASE T = CampaignTables /\ O = CampaignOps /\ W = CampaignWays BY <1>16
<1> QED BY <1>1, <1>2, <1>3, <1>4, <1>5, <1>6, <1>7, <1>8, <1>9, <1>10, <1>11, <1>12, <1>13, <1>14,
     <1>15, <1>16 DEF IsService

LEMMA ServicesOwn ==
    /\ Owned({"cash"}, TillTables, TillWays)
    /\ Owned({"pay_commissions"}, CommissionTables, CommissionWays)
    /\ Owned({"fund_status"}, FundTables, FundWays)
    /\ Owned({"set_due"}, SupplierPaymentTables, SupplierPaymentWays)
    /\ Owned({"deliver"}, ItemTables, OrderWays)
    /\ Owned({"repay"}, LoanTables, LoanWays)
    /\ Owned({"sell", "claim"}, SerialTables, SerialWays)
    /\ Owned({"sell", "take_back", "deliver", "move_points"}, PointsTables,
              Asking \cup {"edit_sale", "edit_total"})
  BY ServicesApart DEF Owned, PostingTables, Posting, Done, ItemTables, SerialTables, SerialWays,
    PointsTables, Asking, Selling, TillTables, TillWays, CommissionTables, CommissionWays, FundTables,
    FundWays, SupplierPaymentTables, SupplierPaymentWays, OrderWays, LoanTables, LoanWays

\* A request runs the statements of the service it asked for.
LEMMA ServiceRouted ==
    ASSUME NEW t, OnItsWay(t), NEW T, NEW O, NEW W, IsService(T, O, W)
    PROVE  Routed(t, O, W)
  BY DEF OnItsWay, IsService

\* A step elsewhere writes none of a service's own tables, and goes on to none of its
\* statements; it is at one of them only to be cut short.
LEMMA SparedElsewhere ==
    ASSUME NEW t \in Tx, NEW ways, Elsewhere(t, ways), NEW Own, NEW Ways, Owned(ways, Own, Ways)
    PROVE  /\ \E T : Frame(t, T)
           /\ Spares(t, Own)
           /\ pc'[t] \notin Ways
           /\ pc[t] \notin Ways \/ (Dropped(t) /\ pc'[t] = "failed")
<1>1. ASSUME NEW T, NEW O, NEW W, Foot(t, T, O, W), Own \cap T = {}, W \cap Ways = {}
      PROVE  Frame(t, T) /\ Spares(t, Own) /\ pc'[t] \notin Ways /\ pc[t] \notin Ways
  BY <1>1, FrameSpares DEF Owned, Foot, From, Onwards, Posting
<1>2. CASE PostingFoot(t) BY <1>2, FrameSpares DEF Owned, PostingFoot, Posting, Done
<1>3. CASE pc'[t] = "failed" /\ Frame(t, {}) /\ Dropped(t) BY <1>3, FrameSpares DEF Owned, Done
<1> QED BY <1>1, <1>2, <1>3 DEF Elsewhere, Owned

\* A request that is done does nothing more.
LEMMA DoneIsDone ==
    ASSUME NEW t \in Tx, Footprint(t)
    PROVE  pc[t] \notin Done
<1> SUFFICES ASSUME pc[t] \in Done PROVE FALSE OBVIOUS
<1>1. Running(t) \/ \E T, O, W : IsService(T, O, W) /\ Foot(t, T, O, W)
  BY Services DEF Footprint, PostingFoot, Posting, Running, Done, IsService
<1> QED BY <1>1, ServicesApart DEF Foot, From, Running, Done

LEMMA ServeOnce ==
    ASSUME Base, Next
    PROVE  \E t \in Tx : Footprint(t) /\ Watch
  BY ServeFootprint DEF Next, Serve

LEMMA BaseNext ==
    ASSUME Base, [Next]_vars
    PROVE  Base'
<1>1. CASE UNCHANGED vars
  BY <1>1 DEF vars, dbVars, postingVars, Base, Shape, Locks, OnItsWay, Routed, NumbersSought,
    LinesSought, PaymentFound
<1>2. CASE Next BY <1>2, ServeOnce, BaseServe
<1> QED BY <1>1, <1>2

-----------------------------------------------------------------------------
(* What the tables hold at the start.                                        *)

\* Rows are told apart by their table.
LEMMA Tables ==
    /\ \A r \in PostingRows : r[1] \in {"sequence", "event", "number"}
    /\ \A r \in StockRows : r[1] = "stock"
    /\ \A r \in LoyaltyRows : r[1] \in {"customer", "entry"}
    /\ \A r \in SaleRows : r[1] \in {"items", "total", "return", "serial"}
    /\ \A r \in OrderRows : r[1] \in {"order", "deposit", "lines"}
    /\ \A r \in ClaimRows : r[1] = "claim"
    /\ \A r \in PurchasingRows : r[1] \in {"supplier", "po", "units", "PUR", "PRET"}
    /\ \A r \in ProductionRows : r[1] = "job"
    /\ \A r \in LoanRows : r[1] \in {"loan", "repaid"}
    /\ \A r \in SupplierPaymentRows : r[1] \in {"due", "payment"}
    /\ \A r \in FundRows : r[1] \in {"fund_sequence", "fund", "fund_voucher"}
    /\ \A r \in TillRows : r[1] \in {"session", "cash"}
    /\ \A r \in CommissionRows : r[1] \in {"signup", "referee_payment"}
    /\ \A r \in JournalRows : r[1] = "next_due"
    /\ \A r \in LeaveRows : r[1] \in {"used_days", "leave"}
    /\ \A r \in DepreciationRows : r[1] \in {"accumulated", "entry"}
    /\ \A r \in CampaignRows : r[1] \in {"campaign", "recipient", "messages"}
<1>1. \A r \in PostingRows : r[1] \in {"sequence", "event", "number"}
  BY DEF PostingRows, Sequence, Event, Number
<1>2. \A r \in StockRows : r[1] = "stock" BY DEF StockRows, Stock
<1>3. \A r \in LoyaltyRows : r[1] \in {"customer", "entry"} BY DEF LoyaltyRows, Customer, Entry
<1>4. \A r \in SaleRows : r[1] \in {"items", "total", "return", "serial"}
  BY DEF SaleRows, Items, TotalAmount, Returned, Serial
<1>5. \A r \in OrderRows : r[1] \in {"order", "deposit", "lines"} BY DEF OrderRows, OrderRow, Deposit, Lines
<1>6. \A r \in ClaimRows : r[1] = "claim" BY DEF ClaimRows, Claim
<1>7. \A r \in PurchasingRows : r[1] \in {"supplier", "po", "units", "PUR", "PRET"}
  BY DEF PurchasingRows, Supplier, OrderStatus, BoughtUnits, Numbered
<1>8. \A r \in ProductionRows : r[1] = "job" BY DEF ProductionRows, JobStatus
<1>9. \A r \in LoanRows : r[1] \in {"loan", "repaid"} BY DEF LoanRows, LoanRow, Repaid
<1>10. \A r \in SupplierPaymentRows : r[1] \in {"due", "payment"}
  BY DEF SupplierPaymentRows, Due, PaymentRow
<1>11. \A r \in FundRows : r[1] \in {"fund_sequence", "fund", "fund_voucher"}
  BY DEF FundRows, FundSequence, FundRow, FundVoucher
<1>12. \A r \in TillRows : r[1] \in {"session", "cash"} BY DEF TillRows, SessionRow, Cash
<1>13. \A r \in CommissionRows : r[1] \in {"signup", "referee_payment"}
  BY DEF CommissionRows, SignupRow, RefereePayment
<1>14. \A r \in JournalRows : r[1] = "next_due" BY DEF JournalRows, NextDue
<1>15. \A r \in LeaveRows : r[1] \in {"used_days", "leave"} BY DEF LeaveRows, UsedDays, LeaveRow
<1>16. \A r \in DepreciationRows : r[1] \in {"accumulated", "entry"}
  BY DEF DepreciationRows, Accumulated, ChargeEntry
<1>17. \A r \in CampaignRows : r[1] \in {"campaign", "recipient", "messages"}
  BY DEF CampaignRows, CampaignRow, Recipient, Messages
<1> QED BY <1>1, <1>2, <1>3, <1>4, <1>5, <1>6, <1>7, <1>8, <1>9, <1>10, <1>11, <1>12, <1>13,
     <1>14, <1>15, <1>16, <1>17

\* A row of the tables of one service starts as that service says.
LEMMA StartOfRows ==
    /\ \A r \in SaleRows : InitialRow(r) = SaleInitialRow(r)
    /\ \A r \in OrderRows : InitialRow(r) = OrderInitialRow(r)
    /\ \A r \in ClaimRows : InitialRow(r) = NoClaim
    /\ \A r \in PurchasingRows : InitialRow(r) = PurchasingInitialRow(r)
    /\ \A r \in ProductionRows : InitialRow(r) = "DRAFT"
    /\ \A r \in LoanRows : InitialRow(r) = LoanInitialRow(r)
    /\ \A r \in SupplierPaymentRows : InitialRow(r) = SupplierPaymentInitialRow(r)
    /\ \A r \in FundRows : InitialRow(r) = FundInitialRow(r)
    /\ \A r \in TillRows : InitialRow(r) = TillInitialRow(r)
    /\ \A r \in CommissionRows : InitialRow(r) = CommissionInitialRow(r)
    /\ \A r \in JournalRows : InitialRow(r) = JournalInitialRow(r)
<1>1. \A r \in SaleRows : InitialRow(r) = SaleInitialRow(r)
  BY Tables DEF InitialRow, DeskRows, BackOfficeRows, DeskInitialRow
<1>2. \A r \in OrderRows : InitialRow(r) = OrderInitialRow(r)
  BY Tables DEF InitialRow, DeskRows, BackOfficeRows, DeskInitialRow
<1>3. \A r \in ClaimRows : InitialRow(r) = NoClaim
  BY Tables DEF InitialRow, DeskRows, BackOfficeRows, DeskInitialRow
<1>4. \A r \in PurchasingRows : InitialRow(r) = PurchasingInitialRow(r)
  BY Tables DEF InitialRow, DeskRows, BackOfficeRows, BackOfficeInitialRow
<1>5. \A r \in ProductionRows : InitialRow(r) = "DRAFT"
  BY Tables DEF InitialRow, DeskRows, BackOfficeRows, BackOfficeInitialRow
<1>6. \A r \in LoanRows : InitialRow(r) = LoanInitialRow(r)
  BY Tables DEF InitialRow, DeskRows, BackOfficeRows, BackOfficeInitialRow
<1>7. \A r \in SupplierPaymentRows : InitialRow(r) = SupplierPaymentInitialRow(r)
  BY Tables DEF InitialRow, DeskRows, BackOfficeRows, BackOfficeInitialRow
<1>8. \A r \in FundRows : InitialRow(r) = FundInitialRow(r)
  BY Tables DEF InitialRow, DeskRows, BackOfficeRows, BackOfficeInitialRow
<1>9. \A r \in TillRows : InitialRow(r) = TillInitialRow(r)
  BY Tables DEF InitialRow, DeskRows, BackOfficeRows, BackOfficeInitialRow
<1>10. \A r \in CommissionRows : InitialRow(r) = CommissionInitialRow(r)
  BY Tables DEF InitialRow, DeskRows, BackOfficeRows, BackOfficeInitialRow
<1>11. \A r \in JournalRows : InitialRow(r) = JournalInitialRow(r)
  BY Tables DEF InitialRow, DeskRows, BackOfficeRows, BackOfficeInitialRow
<1> QED BY <1>1, <1>2, <1>3, <1>4, <1>5, <1>6, <1>7, <1>8, <1>9, <1>10, <1>11

-----------------------------------------------------------------------------
(* Cashier sessions.                                                         *)

\* Nobody else touches the tills.
LEMMA TillElsewhere ==
    ASSUME NEW t \in Tx, Footprint(t), ~TillStep(t)
    PROVE  /\ \E T : Frame(t, T)
           /\ Spares(t, TillTables)
           /\ pc'[t] \notin TillWays
  BY Services, ServicesOwn, SparedElsewhere

LEMMA SessionsAreRows == \A s \in Session : SessionRow(s) \in Row
  BY RowAssumption DEF TenantRows, BackOfficeRows, TillRows

\* A step that opens no session, and after which nothing is checked.
LEMMA TillsStayQuiet ==
    ASSUME TillInv, NEW t \in Tx, Watch, NEW T, Frame(t, T), TillsAreClean',
           \A s \in Session : committed'[SessionRow(s)] = "OPEN" => committed[SessionRow(s)] = "OPEN",
           pc'[t] \notin {"check_counter", "open_session"}
    PROVE  TillInv'
<1>1. UNCHANGED source BY DEF Frame
<1>2. OpenedInTurn' BY <1>1, ApartBefore DEF TillInv, OpenedInTurn, Checked, SameUser, SameCounter, Frame
<1>3. SessionsAreKeptApart' BY <1>1, ApartBefore DEF TillInv, SessionsAreKeptApart, SameUser, SameCounter
<1> QED BY <1>2, <1>3 DEF TillInv

LEMMA TillElsewhereStep ==
    ASSUME TillInv, NEW t \in Tx, Footprint(t), ~TillStep(t), Watch
    PROVE  TillInv'
<1>1. PICK T : Frame(t, T) BY TillElsewhere
<1>2. Spares(t, TillTables) /\ pc'[t] \notin {"check_counter", "open_session"} BY TillElsewhere DEF TillWays
<1>3. TillsAreClean' BY <1>1, <1>2 DEF TillInv, TillsAreClean, Spares, Frame
<1>4. ASSUME NEW s \in Session
      PROVE  committed'[SessionRow(s)] = committed[SessionRow(s)]
  <2>1. SessionRow(s)[1] \in TillTables BY DEF SessionRow, TillTables
  <2> QED BY <1>2, <2>1, SessionsAreRows DEF TillInv, TillsAreClean, Spares, Sees
<1> QED BY <1>1, <1>2, <1>3, <1>4, TillsStayQuiet

LEMMA TillOwnStep ==
    ASSUME Base, TillInv, NEW t \in Tx, TillStep(t), Watch
    PROVE  TillInv'
<1>0. Shape /\ Locks /\ TillsAreClean /\ Foot(t, TillTables, TillOps, TillWays)
  BY TillFoot DEF Base, TillInv
<1>1. Frame(t, TillTables) BY <1>0 DEF Foot
<1>2. ASSUME NEW s \in Session
      PROVE  Sees(t, SessionRow(s)) = committed[SessionRow(s)]
  BY <1>0 DEF TillsAreClean, Sees, SessionRow, TillTables
\* A read, or an exception.
<1>3. ASSUME UNCHANGED committed, DOMAIN pending'[t] \subseteq DOMAIN pending[t],
             \A u \in Session : (source[t] # u /\ Apart({source[t], u})) => Checked(t, u)'
      PROVE  TillInv'
  <2>1. TillsAreClean' BY <1>0, <1>1, <1>3 DEF TillsAreClean, Frame
  <2>2. OpenedInTurn'
    BY <1>1, <1>3, ApartBefore DEF TillInv, OpenedInTurn, Checked, SameUser, SameCounter, Frame
  <2>3. SessionsAreKeptApart'
    BY <1>1, <1>3, ApartBefore DEF TillInv, SessionsAreKeptApart, SameUser, SameCounter, Frame
  <2> QED BY <2>1, <2>2, <2>3 DEF TillInv
<1>4. CASE CheckUser(t)
  <2> DEFINE next == IF SessionAt[source[t]].counter = NoCounter THEN "open_session" ELSE "check_counter"
  <2>1. Reads(t, Nothing, next) BY <1>4 DEF CheckUser
  <2>2. pc'[t] = next /\ UNCHANGED <<dbVars, source, task>> BY <1>0, <2>1, ReadsTo
  <2>3. \A u \in Session : committed[SessionRow(u)] = "OPEN" => ~SameUser(u, source[t])
    BY <1>2, <1>4 DEF CheckUser, OpenSeen
  <2>4. \A u \in Session : Checked(t, u)' BY <2>2, <2>3 DEF Checked, SameUser, SameCounter, dbVars
  <2> QED BY <1>3, <2>2, <2>4 DEF dbVars
<1>5. CASE CheckCounter(t)
  <2>1. CASE CounterFree(t)
    <3>1. Reads(t, Nothing, "open_session") /\ pc[t] = "check_counter" BY <1>5, <2>1 DEF CheckCounter
    <3>2. pc'[t] = "open_session" /\ UNCHANGED <<dbVars, source, task>> BY <1>0, <3>1, ReadsTo
    <3>3. \A u \in Session : committed[SessionRow(u)] = "OPEN" => ~SameCounter(u, source[t])
      BY <1>2, <2>1 DEF CounterFree, OpenSeen
    <3>4. \A u \in Session :
             (source[t] # u /\ Apart({source[t], u})) => Checked(t, u)'
      BY <3>1, <3>2, <3>3 DEF TillInv, OpenedInTurn, Checked, SameUser, SameCounter, dbVars
    <3> QED BY <1>3, <3>2, <3>4 DEF dbVars
  <2>2. CASE ~CounterFree(t)
    <3>1. Throws(t, "refused") BY <1>5, <2>2 DEF CheckCounter
    <3>2. pc'[t] = "refused" /\ Dropped(t) /\ committed' = committed
      BY <1>0, <3>1, ThrowsFrame DEF Throws, Fail, RollbackTx
    <3> QED BY <1>3, <3>2 DEF Dropped, Checked
  <2> QED BY <2>1, <2>2
<1>6. CASE OpenSession(t)
  <2> DEFINE row == SessionRow(source[t])
             rows == row :> "OPEN"
  <2>1. Stores(t, rows, "committed") /\ pc[t] = "open_session" BY <1>6 DEF OpenSession
  <2>2. DOMAIN rows = {row} /\ rows[row] = "OPEN" /\ InTables(rows, TillTables)
    BY DEF :>, InTables, SessionRow, TillTables
  <2> HIDE DEF rows
  <2>3. /\ pc'[t] = "committed" /\ pending' = pending
        /\ \A r \in Row : committed'[r] = IF r = row THEN "OPEN" ELSE committed[r]
    BY <1>0, <2>1, <2>2, StoresFrame
  <2>4. TillsAreClean' BY <1>0, <2>3 DEF TillsAreClean
  <2>5. \A u \in Session : u # source[t] => committed'[SessionRow(u)] = committed[SessionRow(u)]
    BY <2>3, SessionsAreRows DEF SessionRow
  <2>6. UNCHANGED source /\ Watch /\ pc'[t] # pc[t] BY <1>1, <2>1, <2>3 DEF Frame
  <2>7. ASSUME NEW v \in Tx, NEW u \in Session, source[v] # u, Apart({source[v], u})'
        PROVE  Checked(v, u)'
    <3>1. CASE v = t BY <2>3, <3>1 DEF Checked
    <3>2. CASE v # t /\ u # source[t]
      BY <1>1, <2>5, <2>6, <2>7, <3>2, ApartBefore DEF TillInv, OpenedInTurn, Checked, SameUser,
        SameCounter, Frame
    <3>3. CASE v # t /\ u = source[t]
      <4>1. ~Running(v) BY <2>6, <2>7, <3>3, Meets
      <4>2. pc'[v] = pc[v] BY <1>1, <3>3 DEF Frame
      <4> QED BY <4>1, <4>2 DEF Running, Done, Checked
    <3> QED BY <3>1, <3>2, <3>3
  <2>8. OpenedInTurn' BY <2>6, <2>7 DEF OpenedInTurn
  <2>9. ASSUME NEW s \in Session, NEW u \in Session, s # u, Apart({s, u}),
               SameUser(s, u) \/ SameCounter(s, u), s = source[t]
        PROVE  committed[SessionRow(u)] # "OPEN"
    BY <2>1, <2>9 DEF TillInv, OpenedInTurn, Checked
  <2>10. SessionsAreKeptApart'
    <3> SUFFICES ASSUME NEW s \in Session, NEW u \in Session, s # u, Apart({s, u})',
                        SameUser(s, u) \/ SameCounter(s, u)
                 PROVE  ~(committed'[SessionRow(s)] = "OPEN" /\ committed'[SessionRow(u)] = "OPEN")
      BY DEF SessionsAreKeptApart, SameUser, SameCounter
    <3>1. Apart({s, u}) BY <2>6, ApartBefore
    <3>2. Apart({u, s}) /\ (SameUser(u, s) \/ SameCounter(u, s))
      <4>1. {s, u} = {u, s} OBVIOUS
      <4> QED BY <3>1, <4>1 DEF SameUser, SameCounter
    <3>3. CASE s = source[t] BY <2>5, <2>9, <3>1, <3>3
    <3>4. CASE u = source[t] BY <2>5, <2>9, <3>2, <3>4
    <3>5. CASE s # source[t] /\ u # source[t] BY <2>5, <3>1, <3>5 DEF TillInv, SessionsAreKeptApart
    <3> QED BY <3>3, <3>4, <3>5
  <2> QED BY <2>4, <2>8, <2>10 DEF TillInv
<1>7. CASE ReadForClose(t)
  <2>1. pc'[t] = "close_session" /\ UNCHANGED <<dbVars, source, task>>
    BY <1>0, <1>7, ReadsTo DEF ReadForClose
  <2> QED BY <1>3, <2>1 DEF dbVars, Checked
<1>8. CASE CloseSession(t)
  <2> DEFINE row == SessionRow(source[t])
             rows == row :> "CLOSED"
  <2>1. Stores(t, rows, "committed") BY <1>8 DEF CloseSession
  <2>2. DOMAIN rows = {row} /\ rows[row] = "CLOSED" /\ InTables(rows, TillTables)
    BY DEF :>, InTables, SessionRow, TillTables
  <2> HIDE DEF rows
  <2>3. /\ pc'[t] = "committed" /\ pending' = pending
        /\ \A r \in Row : committed'[r] = IF r = row THEN "CLOSED" ELSE committed[r]
    BY <1>0, <2>1, <2>2, StoresFrame
  <2>4. TillsAreClean' BY <1>0, <2>3 DEF TillsAreClean
  <2> QED BY <1>1, <2>3, <2>4, SessionsAreRows, TillsStayQuiet
<1>9. CASE ReadForCash(t)
  <2>1. pc'[t] = "cash" /\ UNCHANGED <<dbVars, source, task>> BY <1>0, <1>9, ReadsTo DEF ReadForCash
  <2> QED BY <1>3, <2>1 DEF dbVars, Checked
<1>10. CASE AddCash(t)
  <2> DEFINE row == Cash(t)
             rows == row :> task[t].n
  <2>1. Stores(t, rows, "committed") BY <1>10 DEF AddCash
  <2>2. DOMAIN rows = {row} /\ InTables(rows, TillTables) BY DEF :>, InTables, Cash, TillTables
  <2> HIDE DEF rows
  <2>3. /\ pc'[t] = "committed" /\ pending' = pending
        /\ \A r \in Row : r # row => committed'[r] = committed[r]
    BY <1>0, <2>1, <2>2, StoresFrame
  <2>4. TillsAreClean' BY <1>0, <2>3 DEF TillsAreClean
  <2>5. \A s \in Session : SessionRow(s) # row BY DEF SessionRow, Cash
  <2> QED BY <1>1, <2>3, <2>4, <2>5, SessionsAreRows, TillsStayQuiet
<1> QED BY <1>4, <1>5, <1>6, <1>7, <1>8, <1>9, <1>10 DEF TillStep

LEMMA TillInit == Init => TillInv
<1> SUFFICES ASSUME Init PROVE TillInv OBVIOUS
<1>2. ASSUME NEW s \in Session
      PROVE  committed[SessionRow(s)] = "none"
  <2>1. SessionRow(s) \in TillRows /\ SessionRow(s)[1] = "session" BY DEF TillRows, SessionRow
  <2> QED BY Starts, <2>1, SessionsAreRows, StartOfRows DEF TillInitialRow
<1> QED BY Starts, <1>2 DEF TillInv, TillsAreClean, OpenedInTurn, Checked, SessionsAreKeptApart

\* A user, and a counter, have one open session, unless two requests opened it at once.
THEOREM SessionsAreKeptApartHolds == Spec => []SessionsAreKeptApart
<1>1. Init => Base /\ TillInv BY BaseInit, TillInit
<1>2. Base /\ TillInv /\ [Next]_vars => Base' /\ TillInv'
  <2> SUFFICES ASSUME Base, TillInv, [Next]_vars PROVE Base' /\ TillInv' OBVIOUS
  <2>1. CASE UNCHANGED vars
    BY <2>1, BaseNext DEF vars, dbVars, postingVars, TillInv, TillsAreClean, OpenedInTurn, Checked,
      SameUser, SameCounter, Apart, SessionsAreKeptApart
  <2>2. CASE Next BY <2>2, BaseNext, ServeOnce, TillElsewhereStep, TillOwnStep
  <2> QED BY <2>1, <2>2
<1>3. TillInv => SessionsAreKeptApart BY DEF TillInv
<1> QED BY <1>1, <1>2, <1>3, PTL DEF Spec

-----------------------------------------------------------------------------
(* Commissions.                                                              *)

\* Nobody else touches the commissions.
LEMMA CommissionElsewhere ==
    ASSUME NEW t \in Tx, Footprint(t), ~CommissionStep(t)
    PROVE  /\ \E T : Frame(t, T)
           /\ Spares(t, CommissionTables)
           /\ pc'[t] \notin CommissionWays
  BY Services, ServicesOwn, SparedElsewhere

LEMMA CommissionsAreRows ==
    /\ \A x \in Signup : SignupRow(x) \in Row
    /\ \A t \in Tx : RefereePayment(t) \in Row
  BY RowAssumption DEF TenantRows, BackOfficeRows, CommissionRows

LEMMA CommissionInit == Init => CommissionInv
<1> SUFFICES ASSUME Init PROVE CommissionInv OBVIOUS
<1>2. ASSUME NEW x \in Signup
      PROVE  committed[SignupRow(x)] = "PENDING"
  <2>1. SignupRow(x) \in CommissionRows /\ SignupRow(x)[1] = "signup" BY DEF CommissionRows, SignupRow
  <2> QED BY Starts, <2>1, CommissionsAreRows, StartOfRows DEF CommissionInitialRow
<1>3. ASSUME NEW t \in Tx
      PROVE  committed[RefereePayment(t)] = {}
  <2>1. RefereePayment(t) \in CommissionRows /\ RefereePayment(t)[1] = "referee_payment"
    BY DEF CommissionRows, RefereePayment
  <2> QED BY Starts, <2>1, CommissionsAreRows, StartOfRows DEF CommissionInitialRow
<1> QED BY Starts, <1>2, <1>3 DEF CommissionInv, CommissionsAreClean, PaidWhenDone, PaidBy,
  ReadOfReferee, CommissionsAreInOrder, CommissionIsInOrder

\* A step that changes no commission, and after which t is at none of their statements.
LEMMA CommissionsStayQuiet ==
    ASSUME CommissionInv, NEW t \in Tx, Watch, NEW T, Frame(t, T), CommissionsAreClean',
           pc[t] \notin Done, pc'[t] \notin {"earn_commission", "pay_commissions"},
           \A x \in Signup : committed'[SignupRow(x)] = committed[SignupRow(x)],
           \A u \in Tx : committed'[RefereePayment(u)] = committed[RefereePayment(u)]
    PROVE  CommissionInv'
<1>1. UNCHANGED source BY DEF Frame
<1>2. PaidWhenDone' BY DEF CommissionInv, PaidWhenDone, PaidBy, Frame, Done
<1>3. ReadOfReferee' BY <1>1 DEF CommissionInv, ReadOfReferee, Frame, SignupsOf
<1>4. CommissionsAreInOrder'
  BY <1>1, ApartBefore DEF CommissionInv, CommissionsAreInOrder, CommissionIsInOrder, PaidBy, Frame
<1> QED BY <1>2, <1>3, <1>4 DEF CommissionInv

LEMMA CommissionElsewhereStep ==
    ASSUME CommissionInv, NEW t \in Tx, Footprint(t), ~CommissionStep(t), Watch
    PROVE  CommissionInv'
<1>1. PICK T : Frame(t, T) BY CommissionElsewhere
<1>2. Spares(t, CommissionTables) /\ pc'[t] \notin {"earn_commission", "pay_commissions"}
  BY CommissionElsewhere DEF CommissionWays
<1>3. CommissionsAreClean' BY <1>1, <1>2 DEF CommissionInv, CommissionsAreClean, Spares, Frame
<1>4. ASSUME NEW r \in Row, r[1] \in CommissionTables
      PROVE  committed'[r] = committed[r]
  BY <1>2, <1>4 DEF CommissionInv, CommissionsAreClean, Spares, Sees
<1>5. \A x \in Signup : committed'[SignupRow(x)] = committed[SignupRow(x)]
  <2>1. \A x \in Signup : SignupRow(x)[1] \in CommissionTables BY DEF SignupRow, CommissionTables
  <2> QED BY <1>4, <2>1, CommissionsAreRows
<1>6. \A u \in Tx : committed'[RefereePayment(u)] = committed[RefereePayment(u)]
  <2>1. \A u \in Tx : RefereePayment(u)[1] \in CommissionTables BY DEF RefereePayment, CommissionTables
  <2> QED BY <1>4, <2>1, CommissionsAreRows
<1> QED BY <1>1, <1>2, <1>3, <1>5, <1>6, CommissionsStayQuiet, DoneIsDone

LEMMA CommissionOwnStep ==
    ASSUME Base, CommissionInv, NEW t \in Tx, Footprint(t), CommissionStep(t), Watch
    PROVE  CommissionInv'
<1>0. Shape /\ Locks /\ CommissionsAreClean /\ Foot(t, CommissionTables, CommissionOps, CommissionWays)
  BY CommissionFoot DEF Base, CommissionInv
<1>1. Frame(t, CommissionTables) /\ UNCHANGED source BY <1>0 DEF Foot, Frame
<1>2. ASSUME NEW x \in Signup
      PROVE  Sees(t, SignupRow(x)) = committed[SignupRow(x)]
  BY <1>0 DEF CommissionsAreClean, Sees, SignupRow, CommissionTables
<1>3. \A x, y \in Signup : SignupRow(x) = SignupRow(y) => x = y BY DEF SignupRow
<1>4. CASE ReadForEarning(t)
  <2>1. /\ Reads(t, Nothing, "earn_commission")
        /\ Sees(t, SignupRow(source[t])) = "PENDING"
    BY <1>4 DEF ReadForEarning
  <2>2. pc'[t] = "earn_commission" /\ UNCHANGED <<committed, pending>> /\ pc[t] \notin Done
    BY <1>0, <2>1, ReadsTo, DoneIsDone DEF dbVars
  <2>3. CommissionsAreClean' /\ PaidWhenDone' /\ ReadOfReferee'
    BY <1>1, <2>2 DEF CommissionInv, CommissionsAreClean, PaidWhenDone, PaidBy, ReadOfReferee, Frame,
      Done, SignupsOf
  <2>4. CommissionsAreInOrder'
    BY <1>1, <1>2, <2>1, <2>2, ApartBefore DEF CommissionInv, CommissionsAreInOrder,
      CommissionIsInOrder, PaidBy, Frame
  <2> QED BY <2>3, <2>4 DEF CommissionInv
<1>5. CASE ReadEarned(t)
  <2>1. Reads(t, EarnedOf(t), "pay_commissions") BY <1>5 DEF ReadEarned
  <2>2. /\ pc'[t] = "pay_commissions" /\ read'[t] = EarnedOf(t)
        /\ UNCHANGED <<committed, pending>> /\ pc[t] \notin Done
    BY <1>0, <2>1, ReadsTo, DoneIsDone DEF dbVars
  <2>3. CommissionsAreClean' /\ PaidWhenDone'
    BY <1>1, <2>2 DEF CommissionInv, CommissionsAreClean, PaidWhenDone, PaidBy, Frame, Done
  <2>4. ReadOfReferee' BY <1>1, <2>2 DEF CommissionInv, ReadOfReferee, Frame, SignupsOf, EarnedOf
  <2>5. \A x \in Signup : x \in read'[t] => committed'[SignupRow(x)] = "EARNED" BY <1>2, <2>2 DEF EarnedOf
  <2>6. CommissionsAreInOrder'
    BY <1>1, <2>2, <2>5, ApartBefore DEF CommissionInv, CommissionsAreInOrder, CommissionIsInOrder,
      PaidBy, Frame
  <2> QED BY <2>3, <2>4, <2>6 DEF CommissionInv
<1>6. CASE EarnCommission(t)
  <2> DEFINE row == SignupRow(source[t])
             rows == row :> "EARNED"
  <2>1. Stores(t, rows, "committed") /\ pc[t] = "earn_commission" BY <1>6 DEF EarnCommission
  <2>2. DOMAIN rows = {row} /\ rows[row] = "EARNED" /\ InTables(rows, CommissionTables)
    BY DEF :>, InTables, SignupRow, CommissionTables
  <2> HIDE DEF rows
  <2>3. /\ pc'[t] = "committed" /\ pending' = pending
        /\ \A r \in Row : committed'[r] = IF r = row THEN "EARNED" ELSE committed[r]
    BY <1>0, <2>1, <2>2, StoresFrame
  <2>4. CommissionsAreClean' BY <1>0, <2>3 DEF CommissionsAreClean
  <2>5. \A u \in Tx : committed'[RefereePayment(u)] = committed[RefereePayment(u)]
    BY <2>3, CommissionsAreRows DEF SignupRow, RefereePayment
  <2>6. \A x \in Signup : committed'[SignupRow(x)] = IF x = source[t] THEN "EARNED" ELSE committed[SignupRow(x)]
    BY <2>3, CommissionsAreRows DEF SignupRow
  <2>7. PaidWhenDone' /\ ReadOfReferee'
    BY <1>1, <2>1, <2>3, <2>5 DEF CommissionInv, PaidWhenDone, PaidBy, ReadOfReferee, Frame, SignupsOf
  <2>8. ASSUME NEW x \in Signup, Apart({x, RefereeOf[x]})'
        PROVE  CommissionIsInOrder(x)'
    <3>1. CommissionIsInOrder(x) BY <1>1, <2>8, ApartBefore DEF CommissionInv, CommissionsAreInOrder
    <3>2. CASE x # source[t] BY <1>1, <2>3, <2>5, <2>6, <3>1, <3>2 DEF CommissionIsInOrder, PaidBy, Frame
    <3>3. CASE x = source[t]
      <4>1. \A u \in Tx : (u # t /\ source[u] \in {x, RefereeOf[x]}) => ~Running(u)
        BY <1>1, <2>1, <2>3, <2>8, <3>3, Meets
      <4>2. \A u \in Tx : pc'[u] = "earn_commission" => source'[u] # x
        BY <1>1, <2>3, <4>1, <3>3 DEF Frame, Running, Done
      <4>3. \A u \in Tx : ~PaidBy(x, u) BY <2>1, <3>1, <3>3 DEF CommissionIsInOrder
      <4> QED BY <2>5, <2>6, <3>3, <4>2, <4>3 DEF CommissionIsInOrder, PaidBy
    <3> QED BY <3>2, <3>3
  <2> QED BY <2>4, <2>7, <2>8 DEF CommissionInv, CommissionsAreInOrder
<1>7. CASE PayCommissions(t)
  <2> DEFINE own == RefereePayment(t)
             paid == {SignupRow(x) : x \in read[t]}
             rows == RefereePayment(t) :> read[t] @@ [r \in {SignupRow(x) : x \in read[t]} |-> "PAID"]
  <2>1. CommitsTo(t, rows, "committed") /\ pc[t] = "pay_commissions" BY <1>7 DEF PayCommissions, Ends
  <2>2. own \notin paid BY DEF RefereePayment, SignupRow
  <2>3. /\ DOMAIN rows = {own} \cup paid /\ rows[own] = read[t]
        /\ \A r \in paid : rows[r] = "PAID"
    BY <2>2 DEF :>, @@
  <2>4. InTables(rows, CommissionTables)
    BY DEF :>, @@, InTables, SignupRow, RefereePayment, CommissionTables
  <2> HIDE DEF rows
  <2>5. /\ pc'[t] = "committed" /\ Published(t, CommissionTables)
        /\ \A r \in Row : committed'[r] = IF r \in DOMAIN rows THEN rows[r] ELSE Sees(t, r)
    BY <1>0, <2>1, <2>4, CommitsFrame
  <2>6. CommissionsAreClean' BY <1>0, <1>1, <2>5 DEF CommissionsAreClean, Published, Frame
  <2>7. ASSUME NEW x \in Signup
        PROVE  committed'[SignupRow(x)] = IF x \in read[t] THEN "PAID" ELSE committed[SignupRow(x)]
    <3>1. SignupRow(x) # own /\ (SignupRow(x) \in paid <=> x \in read[t]) BY DEF SignupRow, RefereePayment
    <3> QED BY <1>2, <2>3, <2>5, <3>1, CommissionsAreRows
  <2>8. ASSUME NEW u \in Tx
        PROVE  committed'[RefereePayment(u)] = IF u = t THEN read[t] ELSE committed[RefereePayment(u)]
    <3>1. RefereePayment(u) \notin paid /\ (RefereePayment(u) = own <=> u = t)
      BY DEF SignupRow, RefereePayment
    <3>2. Sees(t, RefereePayment(u)) = committed[RefereePayment(u)]
      BY <1>0 DEF CommissionsAreClean, Sees, RefereePayment, CommissionTables
    <3> QED BY <2>3, <2>5, <3>1, <3>2, CommissionsAreRows
  <2> HIDE DEF own, paid
  <2>9. PaidWhenDone' /\ ReadOfReferee'
    BY <1>1, <2>5, <2>8 DEF CommissionInv, PaidWhenDone, PaidBy, ReadOfReferee, Frame, SignupsOf
  <2>10. ASSUME NEW x \in Signup, Apart({x, RefereeOf[x]})'
         PROVE  CommissionIsInOrder(x)'
    <3>1. CommissionIsInOrder(x) BY <1>1, <2>10, ApartBefore DEF CommissionInv, CommissionsAreInOrder
    <3>2. ~PaidBy(x, t) BY <2>1 DEF CommissionInv, PaidWhenDone
    <3>3. CASE x \notin read[t]
      BY <1>1, <2>5, <2>7, <2>8, <3>1, <3>2, <3>3 DEF CommissionIsInOrder, PaidBy, Frame
    <3>4. CASE x \in read[t]
      <4>1. source[t] = RefereeOf[x] BY <2>1, <3>4 DEF CommissionInv, ReadOfReferee, SignupsOf
      <4>2. \A u \in Tx : (u # t /\ source[u] \in {x, RefereeOf[x]}) => ~Running(u)
        BY <1>1, <2>1, <2>5, <2>10, <4>1, Meets
      <4>3. \A u \in Tx : pc'[u] = "earn_commission" => source'[u] # x
        BY <1>1, <2>5, <4>2 DEF Frame, Running, Done
      <4>4. ASSUME NEW u \in Tx, pc'[u] = "pay_commissions", x \in read'[u]
            PROVE  FALSE
        <5>1. u # t /\ pc[u] = "pay_commissions" /\ x \in read[u] BY <1>1, <2>5, <4>4 DEF Frame
        <5>2. source[u] = RefereeOf[x] BY <5>1 DEF CommissionInv, ReadOfReferee, SignupsOf
        <5> QED BY <4>2, <5>1, <5>2 DEF Running, Done
      <4>5. \A u \in Tx : ~PaidBy(x, u) BY <2>1, <3>1, <3>4 DEF CommissionIsInOrder
      <4>6. \A u \in Tx : PaidBy(x, u)' <=> u = t BY <2>8, <3>4, <4>5 DEF PaidBy
      <4> QED BY <2>7, <3>4, <4>3, <4>4, <4>6 DEF CommissionIsInOrder
    <3> QED BY <3>3, <3>4
  <2> QED BY <2>6, <2>9, <2>10 DEF CommissionInv, CommissionsAreInOrder
<1> QED BY <1>4, <1>5, <1>6, <1>7 DEF CommissionStep

\* A commission is paid once, and is PAID once it is, unless two requests about it or
\* its referee ran at the same time.
THEOREM CommissionsArePaidOnceHolds == Spec => []CommissionsArePaidOnce
<1>1. Init => Base /\ CommissionInv BY BaseInit, CommissionInit
<1>2. Base /\ CommissionInv /\ [Next]_vars => Base' /\ CommissionInv'
  <2> SUFFICES ASSUME Base, CommissionInv, [Next]_vars PROVE Base' /\ CommissionInv' OBVIOUS
  <2>1. CASE UNCHANGED vars
    BY <2>1, BaseNext DEF vars, dbVars, postingVars, CommissionInv, CommissionsAreClean, PaidWhenDone,
      PaidBy, ReadOfReferee, SignupsOf, CommissionsAreInOrder, CommissionIsInOrder, Apart
  <2>2. CASE Next BY <2>2, BaseNext, ServeOnce, CommissionElsewhereStep, CommissionOwnStep
  <2> QED BY <2>1, <2>2
<1>3. CommissionInv => CommissionsArePaidOnce
  <2> SUFFICES ASSUME CommissionInv, NEW x \in Signup, Apart({x, RefereeOf[x]})
               PROVE  LET payments == {t \in Tx : x \in committed[RefereePayment(t)]} IN
                      /\ Cardinality(payments) <= 1
                      /\ committed[SignupRow(x)] = "PAID" <=> payments # {}
    BY DEF CommissionsArePaidOnce
  <2> DEFINE payments == {t \in Tx : x \in committed[RefereePayment(t)]}
  <2>1. CommissionIsInOrder(x) BY DEF CommissionInv, CommissionsAreInOrder
  <2>2. CASE payments = {}
    <3>1. Cardinality(payments) = 0 BY <2>2, FS_EmptySet
    <3> QED BY <2>1, <2>2, <3>1 DEF CommissionIsInOrder, PaidBy
  <2>3. CASE payments # {}
    <3>1. PICK t \in Tx : t \in payments BY <2>3
    <3>2. payments = {t} BY <2>1, <3>1 DEF CommissionIsInOrder, PaidBy
    <3>3. Cardinality(payments) = 1 BY <3>2, FS_Singleton
    <3> QED BY <2>1, <3>1, <3>3 DEF CommissionIsInOrder, PaidBy
  <2> QED BY <2>2, <2>3
<1> QED BY <1>1, <1>2, <1>3, PTL DEF Spec

-----------------------------------------------------------------------------
(* Fund transfers.                                                           *)

\* Nobody else touches the transfers; and a transfer that is cut short leaves nothing.
LEMMA FundElsewhere ==
    ASSUME NEW t \in Tx, Footprint(t), ~FundStep(t)
    PROVE  /\ \E T : Frame(t, T)
           /\ Spares(t, FundTables)
           /\ pc'[t] \notin FundWays
           /\ pc[t] \notin FundWays \/ Dropped(t)
  BY Services, ServicesOwn, SparedElsewhere

LEMMA FundsAreRows ==
    /\ \A f \in Fund : FundRow(f) \in Row
    /\ \A n \in FundNumber : FundVoucher(n) \in Row
  BY RowAssumption DEF TenantRows, BackOfficeRows, FundRows

LEMMA FundInit == Init => FundInv
<1> SUFFICES ASSUME Init PROVE FundInv OBVIOUS
<1>2. ASSUME NEW f \in Fund
      PROVE  committed[FundRow(f)] = NoFund
  <2>1. FundRow(f) \in FundRows /\ FundRow(f) # FundSequence /\ FundRow(f)[1] = "fund"
    BY DEF FundRows, FundRow, FundSequence
  <2> QED BY Starts, <2>1, FundsAreRows, StartOfRows DEF FundInitialRow
<1>3. ASSUME NEW n \in FundNumber
      PROVE  committed[FundVoucher(n)] = NoFundVoucher
  <2>1. FundVoucher(n) \in FundRows /\ FundVoucher(n) # FundSequence /\ FundVoucher(n)[1] # "fund"
    BY DEF FundRows, FundVoucher, FundSequence
  <2> QED BY Starts, <2>1, FundsAreRows, StartOfRows DEF FundInitialRow
<1>4. \A t \in Tx : FundInHand(t) BY Starts DEF FundInHand, FundWays
<1>5. ASSUME NEW f \in Fund
      PROVE  FundIsInOrder(f)
  BY <1>2, <1>3 DEF FundIsInOrder, NoFund, NoFundVoucher, FundNumber
<1>6. \A t \in Tx, f \in Fund : FundIsAsFound(t, f) BY Starts DEF FundIsAsFound, FundWays
<1> QED BY <1>4, <1>5, <1>6 DEF FundInv, FundsAreInOrder

\* The others have their locks.
LEMMA OthersKeepTheirFunds ==
    ASSUME FundInv, NEW t \in Tx, NEW T, Frame(t, T), NEW u \in Tx, u # t
    PROVE  FundInHand(u)'
<1>1. /\ pc'[u] = pc[u] /\ read'[u] = read[u] /\ pending'[u] = pending[u]
      /\ UNCHANGED <<task, source>>
      /\ \A r \in DOMAIN pending[u] : r \in Row => committed'[r] = committed[r]
  BY DEF Frame
<1>2. FundInHand(u) BY DEF FundInv
<1>3. ASSUME pc[u] = "fund_status"
      PROVE  committed'[FundVoucher(read[u])] = committed[FundVoucher(read[u])]
  BY <1>1, <1>2, <1>3, FundsAreRows DEF FundInHand
<1> QED BY <1>1, <1>2, <1>3 DEF FundInHand

\* A step that settles nothing.
LEMMA FundsStayQuiet ==
    ASSUME FundInv, NEW t \in Tx, Watch, NEW T, Frame(t, T), FundInHand(t)',
           \A f \in Fund : committed'[FundRow(f)] = committed[FundRow(f)],
           \A n \in FundNumber : committed'[FundVoucher(n)] = committed[FundVoucher(n)],
           \A f \in Fund : Apart({f}) => FundIsAsFound(t, f)'
    PROVE  FundInv'
<1>1. UNCHANGED <<source, task>> BY DEF Frame
<1>2. \A u \in Tx : FundInHand(u)' BY OthersKeepTheirFunds
<1>3. ASSUME NEW f \in Fund, Apart({f})'
      PROVE  FundIsInOrder(f)' /\ \A u \in Tx : FundIsAsFound(u, f)'
  <2>1. Apart({f}) /\ FundIsInOrder(f) /\ \A u \in Tx : FundIsAsFound(u, f)
    BY <1>1, <1>3, ApartBefore DEF FundInv, FundsAreInOrder
  <2>2. FundIsInOrder(f)' BY <2>1 DEF FundIsInOrder
  <2>3. ASSUME NEW u \in Tx, u # t
        PROVE  FundIsAsFound(u, f)'
    BY <1>1, <2>1, <2>3 DEF FundIsAsFound, Frame
  <2> QED BY <2>1, <2>2, <2>3
<1> QED BY <1>2, <1>3 DEF FundInv, FundsAreInOrder

LEMMA FundElsewhereStep ==
    ASSUME FundInv, NEW t \in Tx, Footprint(t), ~FundStep(t), Watch
    PROVE  FundInv'
<1>1. PICK T : Frame(t, T) BY FundElsewhere
<1>2. /\ Spares(t, FundTables) /\ pc'[t] \notin FundWays
      /\ pc[t] \notin FundWays \/ Dropped(t)
  BY FundElsewhere
<1>3. FundInHand(t) BY DEF FundInv
<1>4. \A r \in DOMAIN pending'[t] : r[1] \notin FundTables BY <1>2, <1>3 DEF Spares, Dropped, FundInHand
<1>5. \A r \in Row : r[1] \in FundTables => committed'[r] = committed[r]
  BY <1>2, <1>3 DEF Spares, Dropped, FundInHand, Sees
<1>6. \A f \in Fund : committed'[FundRow(f)] = committed[FundRow(f)]
  <2>1. \A f \in Fund : FundRow(f)[1] \in FundTables BY DEF FundRow, FundTables
  <2> QED BY <1>5, <2>1, FundsAreRows
<1>7. \A n \in FundNumber : committed'[FundVoucher(n)] = committed[FundVoucher(n)]
  <2>1. \A n \in FundNumber : FundVoucher(n)[1] \in FundTables BY DEF FundVoucher, FundTables
  <2> QED BY <1>5, <2>1, FundsAreRows
<1>8. FundInHand(t)'
  <2>1. \A n \in FundNumber : FundVoucher(n)[1] \in FundTables BY DEF FundVoucher, FundTables
  <2>2. pc'[t] # "fund_status" BY <1>2 DEF FundWays
  <2> QED BY <1>2, <1>4, <2>1, <2>2 DEF FundInHand
<1>9. \A f \in Fund : FundIsAsFound(t, f)' BY <1>2 DEF FundIsAsFound
<1> QED BY <1>1, <1>6, <1>7, <1>8, <1>9, FundsStayQuiet

LEMMA FundOwnStep ==
    ASSUME Base, FundInv, NEW t \in Tx, Footprint(t), FundStep(t), Watch
    PROVE  FundInv'
<1>0. Shape /\ Locks /\ FundInHand(t) /\ Foot(t, FundTables, FundOps, FundWays)
  BY FundFoot DEF Base, FundInv
<1>1. Frame(t, FundTables) /\ UNCHANGED <<source, task>> BY <1>0 DEF Foot, Frame
<1>2. pc[t] \in FundWays => task[t].op \in {"send_funds", "receive_funds"}
  BY DEF Base, OnItsWay, Routed, FundOps
<1>3. /\ \A f, g : FundRow(f) = FundRow(g) => f = g
      /\ \A m, n : FundVoucher(m) = FundVoucher(n) => m = n
      /\ \A f, n : FundRow(f) # FundVoucher(n) /\ FundRow(f) # FundSequence /\ FundVoucher(n) # FundSequence
  BY DEF FundRow, FundVoucher, FundSequence
<1>4. /\ \A f : FundRow(f)[1] \in FundTables
      /\ \A n : FundVoucher(n)[1] \in FundTables
  BY DEF FundRow, FundVoucher, FundTables
<1>5. CASE Initiate(t)
  <2> DEFINE rows == FundRow(source[t]) :> [NoFund EXCEPT !.status = "INITIATED"]
  <2>1. Writes(t, rows, "fund_number") /\ pc[t] = "idle" /\ task[t].op = "send_funds" /\ SeenFund(t) = NoFund
    BY <1>5 DEF Initiate, At
  <2>2. /\ DOMAIN rows = {FundRow(source[t])}
        /\ rows[FundRow(source[t])] = [NoFund EXCEPT !.status = "INITIATED"]
        /\ InTables(rows, FundTables)
    BY <1>4 DEF :>, InTables
  <2>3. [NoFund EXCEPT !.status = "INITIATED"] = [status |-> "INITIATED", sent |-> 0, arrived |-> 0]
    BY DEF NoFund
  <2> HIDE DEF rows
  <2>4. /\ pc'[t] = "fund_number" /\ committed' = committed
        /\ DOMAIN pending'[t] = DOMAIN pending[t] \cup {FundRow(source[t])}
        /\ pending'[t][FundRow(source[t])] = [status |-> "INITIATED", sent |-> 0, arrived |-> 0]
    BY <1>0, <2>1, <2>2, <2>3, WritesFrame
  <2>5. \A r \in DOMAIN pending[t] : r[1] \notin FundTables BY <1>0, <2>1 DEF FundInHand, FundWays
  <2>6. FundInHand(t)' BY <1>1, <1>3, <1>4, <2>1, <2>4, <2>5 DEF FundInHand, FundWays
  <2>7. committed[FundRow(source[t])] = NoFund BY <1>4, <2>1, <2>5 DEF SeenFund, Sees
  <2>8. \A f \in Fund : FundIsAsFound(t, f)' BY <1>1, <2>1, <2>4, <2>7 DEF FundIsAsFound
  <2> QED BY <1>1, <2>4, <2>6, <2>8, FundsStayQuiet
<1>6. CASE ReadForReceipt(t)
  <2>1. Reads(t, Nothing, "fund_number") /\ pc[t] = "idle" /\ task[t].op = "receive_funds" /\ Receivable(SeenFund(t))
    BY <1>6 DEF ReadForReceipt, At
  <2>2. pc'[t] = "fund_number" /\ UNCHANGED <<committed, pending>> BY <1>0, <2>1, ReadsTo DEF dbVars
  <2>3. \A r \in DOMAIN pending[t] : r[1] \notin FundTables BY <1>0, <2>1 DEF FundInHand, FundWays
  <2>4. FundInHand(t)' BY <1>1, <1>4, <2>1, <2>2, <2>3 DEF FundInHand, FundWays
  <2>5. Receivable(committed[FundRow(source[t])]) BY <1>4, <2>1, <2>3 DEF SeenFund, Sees
  <2>6. ASSUME NEW f \in Fund, Apart({f})
        PROVE  FundIsAsFound(t, f)'
    <3>1. FundIsInOrder(f) BY <2>6 DEF FundInv, FundsAreInOrder
    <3> QED BY <1>1, <2>1, <2>2, <2>5, <3>1 DEF FundIsAsFound, FundIsInOrder, Receivable
  <2> QED BY <1>1, <2>2, <2>4, <2>6, FundsStayQuiet
\* On its way, and nothing settled.
<1>7. ASSUME committed' = committed, pc[t] \in FundWays, FundInHand(t)'
      PROVE  FundInv'
  <2>1. \A f \in Fund : Apart({f}) => FundIsAsFound(t, f)'
    BY <1>1, <1>7 DEF FundInv, FundsAreInOrder, FundIsAsFound
  <2> QED BY <1>1, <1>7, <2>1, FundsStayQuiet
<1>8. CASE ReadFundNumber(t)
  <2>1. Reads(t, Sees(t, FundSequence), "fund_increment") /\ pc[t] = "fund_number"
    BY <1>8 DEF ReadFundNumber
  <2>2. pc'[t] = "fund_increment" /\ UNCHANGED <<committed, pending>> BY <1>0, <2>1, ReadsTo DEF dbVars
  <2>3. FundInHand(t)' BY <1>0, <1>1, <2>1, <2>2 DEF FundInHand, FundWays
  <2> QED BY <1>7, <2>1, <2>2, <2>3 DEF FundWays
<1>9. CASE IncrementFundSequence(t)
  <2> DEFINE rows == FundSequence :> Sees(t, FundSequence) + 1
  <2>1. Writes(t, rows, "fund_voucher") /\ pc[t] = "fund_increment" BY <1>9 DEF IncrementFundSequence
  <2>2. DOMAIN rows = {FundSequence} /\ InTables(rows, FundTables)
    BY DEF :>, InTables, FundSequence, FundTables
  <2> HIDE DEF rows
  <2>3. /\ pc'[t] = "fund_voucher" /\ committed' = committed
        /\ DOMAIN pending'[t] = DOMAIN pending[t] \cup {FundSequence}
        /\ \A r \in DOMAIN pending[t] : r # FundSequence => pending'[t][r] = pending[t][r]
    BY <1>0, <2>1, <2>2, WritesFrame
  <2>4. FundInHand(t)' BY <1>0, <1>1, <1>3, <2>1, <2>3 DEF FundInHand, FundWays
  <2> QED BY <1>7, <2>1, <2>3, <2>4 DEF FundWays
<1>10. CASE InsertFundVoucher(t)
  <2> DEFINE n == read[t]
             rows == FundVoucher(read[t]) :> [fund |-> source[t], kind |-> task[t].op]
  <2>1. Writes(t, rows, "fund_status") /\ pc[t] = "fund_voucher" /\ n \in FundNumber /\ FundNumberFree(t)
    BY <1>10 DEF InsertFundVoucher
  <2>2. DOMAIN rows = {FundVoucher(n)} /\ rows[FundVoucher(n)] = [fund |-> source[t], kind |-> task[t].op] /\ InTables(rows, FundTables)
    BY <1>4 DEF :>, InTables
  <2> HIDE DEF rows
  <2>3. /\ pc'[t] = "fund_status" /\ committed' = committed /\ read' = read
        /\ DOMAIN pending'[t] = DOMAIN pending[t] \cup {FundVoucher(n)}
        /\ pending'[t][FundVoucher(n)] = [fund |-> source[t], kind |-> task[t].op]
        /\ \A r \in DOMAIN pending[t] : r # FundVoucher(n) => pending'[t][r] = pending[t][r]
    BY <1>0, <2>1, <2>2, WritesFrame
  <2>4. committed[FundVoucher(n)] = NoFundVoucher BY <1>0, <2>1 DEF FundInHand, FundNumberFree, Sees
  <2> HIDE DEF n
  <2>5. FundInHand(t)' BY <1>0, <1>1, <1>3, <2>1, <2>3, <2>4 DEF FundInHand, FundWays, n
  <2> QED BY <1>7, <2>1, <2>3, <2>5 DEF FundWays
<1>11. CASE FundNumberTaken(t)
  <2>1. Throws(t, "number_taken") /\ pc[t] = "fund_voucher" BY <1>11 DEF FundNumberTaken
  <2>2. pc'[t] = "number_taken" /\ Dropped(t) /\ committed' = committed
    BY <1>0, <2>1, ThrowsFrame DEF Throws, Fail, RollbackTx
  <2>3. FundInHand(t)' BY <2>2 DEF FundInHand, Dropped, FundWays
  <2> QED BY <1>7, <2>1, <2>2, <2>3 DEF FundWays
<1>12. CASE SetFundStatus(t)
  <2> DEFINE n == read[t]
             f == source[t]
             sending == task[t].op = "send_funds"
             row == IF task[t].op = "send_funds"
                    THEN [SeenFund(t) EXCEPT !.status = "IN_TRANSIT", !.sent = read[t]]
                    ELSE [SeenFund(t) EXCEPT !.status = "RECEIVED", !.arrived = read[t]]
             rows == FundRow(source[t]) :> row
  <2>1. CommitsTo(t, rows, "committed") /\ pc[t] = "fund_status" BY <1>12 DEF SetFundStatus, Ends
  <2>2. DOMAIN rows = {FundRow(f)} /\ rows[FundRow(f)] = row /\ InTables(rows, FundTables)
    BY <1>4 DEF :>, InTables
  <2> HIDE DEF rows
  <2>3. /\ pc'[t] = "committed" /\ Published(t, FundTables)
        /\ \A r \in Row : committed'[r] = IF r = FundRow(f) THEN row ELSE Sees(t, r)
    BY <1>0, <2>1, <2>2, CommitsFrame
  <2>4. /\ n \in FundNumber /\ committed[FundVoucher(n)] = NoFundVoucher
        /\ FundVoucher(n) \in DOMAIN pending[t]
        /\ pending[t][FundVoucher(n)] = [fund |-> f, kind |-> task[t].op]
    BY <1>0, <2>1 DEF FundInHand
  <2>5. ASSUME NEW m \in FundNumber
        PROVE  committed'[FundVoucher(m)] = IF m = n THEN [fund |-> f, kind |-> task[t].op]
                                            ELSE committed[FundVoucher(m)]
    <3>1. committed'[FundVoucher(m)] = Sees(t, FundVoucher(m)) BY <1>3, <2>3, FundsAreRows
    <3>2. CASE m = n BY <2>4, <3>1, <3>2 DEF Sees
    <3>3. CASE m # n BY <1>0, <3>1, <3>3 DEF Sees, FundInHand
    <3> QED BY <3>2, <3>3
  <2>6. ASSUME NEW g \in Fund
        PROVE  committed'[FundRow(g)] = IF g = f THEN row ELSE committed[FundRow(g)]
    <3>1. CASE g = f BY <2>3, <3>1, FundsAreRows
    <3>2. CASE g # f
      <4>1. committed'[FundRow(g)] = Sees(t, FundRow(g)) BY <1>3, <2>3, <3>2, FundsAreRows
      <4>2. FundRow(g) \notin DOMAIN pending[t] BY <1>0, <2>1, <3>2 DEF FundInHand, FundWays
      <4> QED BY <3>2, <4>1, <4>2 DEF Sees
    <3> QED BY <3>1, <3>2
  <2>7. \A u \in Tx : FundInHand(u)'
    <3>1. FundInHand(t)' BY <2>3 DEF FundInHand, Published, FundWays
    <3> QED BY <1>1, <3>1, OthersKeepTheirFunds
  <2>8. ASSUME NEW g \in Fund, Apart({g})'
        PROVE  FundIsInOrder(g)' /\ \A u \in Tx : FundIsAsFound(u, g)'
    <3>1. /\ FundIsInOrder(g)
          /\ \A u \in Tx : FundIsAsFound(u, g)
      BY <1>1, <2>8, ApartBefore DEF FundInv, FundsAreInOrder
    <3>2. CASE g # f
      <4>1. committed'[FundRow(g)] = committed[FundRow(g)] BY <2>6, <3>2
      <4>2. \A m \in FundNumber, kind \in {"send_funds", "receive_funds"} :
               committed'[FundVoucher(m)] = [fund |-> g, kind |-> kind]
                  <=> committed[FundVoucher(m)] = [fund |-> g, kind |-> kind]
        BY <2>4, <2>5, <3>2 DEF NoFundVoucher
      <4>3. FundIsInOrder(g)' BY <3>1, <4>1, <4>2 DEF FundIsInOrder
      <4>4. \A u \in Tx : FundIsAsFound(u, g)' BY <1>1, <2>3, <3>1, <4>1 DEF FundIsAsFound, Frame, FundWays
      <4> QED BY <4>3, <4>4
    <3>3. CASE g = f
      <4>1. \A u \in Tx : (u # t /\ source[u] = g) => ~Running(u) BY <1>1, <2>1, <2>3, <2>8, <3>3, Meets
      <4>2. \A u \in Tx : FundIsAsFound(u, g)'
        BY <1>1, <2>3, <4>1 DEF FundIsAsFound, Frame, FundWays, Running, Done
      <4>3. committed'[FundRow(g)] = row BY <2>6, <3>3
      <4>4. FundIsAsFound(t, g) /\ task[t].op \in {"send_funds", "receive_funds"}
        BY <1>2, <2>1, <3>1 DEF FundWays
      <4>5. CASE task[t].op = "send_funds"
        <5>1. committed[FundRow(g)] = NoFund BY <2>1, <3>3, <4>4, <4>5 DEF FundIsAsFound, FundWays
        <5>2. SeenFund(t) = [status |-> "INITIATED", sent |-> 0, arrived |-> 0]
          BY <1>0, <2>1, <4>5 DEF FundInHand, SeenFund, Sees, FundWays
        <5>3. committed'[FundRow(g)] = [status |-> "IN_TRANSIT", sent |-> n, arrived |-> 0]
          <6>1. row = [SeenFund(t) EXCEPT !.status = "IN_TRANSIT", !.sent = n] BY <4>5
          <6> HIDE DEF row, n
          <6> DEFINE seen == SeenFund(t)
          <6>2. seen.arrived = 0 /\ seen = [status |-> seen.status, sent |-> seen.sent, arrived |-> seen.arrived]
            BY <5>2
          <6>3. row = [seen EXCEPT !.status = "IN_TRANSIT", !.sent = n] BY <6>1
          <6> HIDE DEF seen
          <6>4. row = [status |-> "IN_TRANSIT", sent |-> n, arrived |-> 0] BY <6>2, <6>3
          <6> QED BY <4>3, <6>4
        <5>4. \A m \in FundNumber :
                 /\ committed[FundVoucher(m)] # [fund |-> g, kind |-> "send_funds"]
                 /\ committed[FundVoucher(m)] # [fund |-> g, kind |-> "receive_funds"]
          BY <3>1, <5>1 DEF FundIsInOrder, NoFund, FundNumber
        <5>5. \A m \in FundNumber :
                 /\ committed'[FundVoucher(m)] = [fund |-> g, kind |-> "send_funds"] <=> m = n
                 /\ committed'[FundVoucher(m)] # [fund |-> g, kind |-> "receive_funds"]
          BY <2>5, <3>3, <4>5, <5>4
        <5> HIDE DEF n, f, row
        <5>6. FundIsInOrder(g)' BY <2>4, <5>3, <5>5 DEF FundIsInOrder, FundNumber
        <5> QED BY <4>2, <5>6
      <4>6. CASE task[t].op = "receive_funds"
        <5> DEFINE transfer == committed[FundRow(g)]
        <5>1. transfer.arrived = 0 /\ transfer.sent # 0
          BY <2>1, <3>3, <4>4, <4>6 DEF FundIsAsFound, FundWays
        <5>2. SeenFund(t) = transfer BY <1>0, <2>1, <3>3, <4>6 DEF FundInHand, SeenFund, Sees, FundWays
        <5>3. committed'[FundRow(g)] = [status |-> "RECEIVED", sent |-> transfer.sent, arrived |-> n]
          <6>1. row = [transfer EXCEPT !.status = "RECEIVED", !.arrived = n] BY <4>6, <5>2
          <6>2. transfer = [status |-> transfer.status, sent |-> transfer.sent, arrived |-> transfer.arrived]
            BY <3>1 DEF FundIsInOrder
          <6> HIDE DEF row, n, transfer
          <6>3. row = [status |-> "RECEIVED", sent |-> transfer.sent, arrived |-> n] BY <6>1, <6>2
          <6> QED BY <4>3, <6>3
        <5>4. \A m \in FundNumber :
                 /\ committed[FundVoucher(m)] = [fund |-> g, kind |-> "send_funds"] <=> m = transfer.sent
                 /\ committed[FundVoucher(m)] # [fund |-> g, kind |-> "receive_funds"]
          BY <3>1, <5>1 DEF FundIsInOrder, FundNumber
        <5>5. n # transfer.sent BY <2>4, <5>4 DEF NoFundVoucher
        <5>6. \A m \in FundNumber :
                 /\ committed'[FundVoucher(m)] = [fund |-> g, kind |-> "send_funds"] <=> m = transfer.sent
                 /\ committed'[FundVoucher(m)] = [fund |-> g, kind |-> "receive_funds"] <=> m = n
          BY <2>5, <3>3, <4>6, <5>4, <5>5
        <5>7. transfer.sent \in {0} \cup FundNumber BY <3>1 DEF FundIsInOrder
        <5> HIDE DEF n, f, row, transfer
        <5>8. FundIsInOrder(g)' BY <2>4, <5>3, <5>6, <5>7 DEF FundIsInOrder, FundNumber
        <5> QED BY <4>2, <5>8
      <4> QED BY <4>4, <4>5, <4>6
    <3> QED BY <3>2, <3>3
  <2> QED BY <2>7, <2>8 DEF FundInv, FundsAreInOrder
<1> QED BY <1>5, <1>6, <1>8, <1>9, <1>10, <1>11, <1>12 DEF FundStep

\* The vouchers of a fund transfer are those it names, one as it is sent and one as it
\* is RECEIVED, unless two requests about it ran at the same time.
THEOREM FundsArriveOnceHolds == Spec => []FundsArriveOnce
<1>1. Init => Base /\ FundInv BY BaseInit, FundInit
<1>2. Base /\ FundInv /\ [Next]_vars => Base' /\ FundInv'
  <2> SUFFICES ASSUME Base, FundInv, [Next]_vars PROVE Base' /\ FundInv' OBVIOUS
  <2>1. CASE UNCHANGED vars
    BY <2>1, BaseNext DEF vars, dbVars, postingVars, FundInv, FundInHand, FundsAreInOrder,
      FundIsInOrder, FundIsAsFound, Apart
  <2>2. CASE Next BY <2>2, BaseNext, ServeOnce, FundElsewhereStep, FundOwnStep
  <2> QED BY <2>1, <2>2
<1>3. FundInv => FundsArriveOnce
  <2> SUFFICES ASSUME FundInv, NEW f \in Fund, Apart({f})
               PROVE  LET transfer == committed[FundRow(f)] IN
                      /\ FundVouchers(f, "send_funds") = {transfer.sent} \ {0}
                      /\ FundVouchers(f, "receive_funds") = {transfer.arrived} \ {0}
                      /\ transfer.status = "RECEIVED" <=> transfer.arrived # 0
    BY DEF FundsArriveOnce
  <2>1. FundIsInOrder(f) BY DEF FundInv, FundsAreInOrder
  <2>2. 0 \notin FundNumber BY DEF FundNumber
  <2> QED BY <2>1, <2>2 DEF FundIsInOrder, FundVouchers
<1> QED BY <1>1, <1>2, <1>3, PTL DEF Spec

-----------------------------------------------------------------------------
(* Serial numbers.                                                           *)

\* Nobody else sells a serial number, or makes a claim.
LEMMA SerialElsewhere ==
    ASSUME NEW t \in Tx, OnItsWay(t), Footprint(t), ~SaleStep(t), ~ClaimStep(t)
    PROVE  /\ \E T : Frame(t, T)
           /\ Spares(t, SerialTables)
           /\ pc'[t] \notin SerialWays
           /\ PassesSerials(t)
<1>1. Elsewhere(t, {"sell", "claim"}) BY Services
<1>3. (\E T : Frame(t, T)) /\ Spares(t, SerialTables) /\ pc'[t] \notin SerialWays
  BY <1>1, ServicesOwn, SparedElsewhere
<1>4. ASSUME NEW T, NEW O, NEW W, IsService(T, O, W), Foot(t, T, O, W), O \cap SaleOps = {}
      PROVE  task[t].op # "sale"
  BY <1>4, ServiceRouted DEF Foot, From, Routed, SaleOps
<1>5. PassesSerials(t)
  BY <1>1, <1>4, ServicesApart DEF Elsewhere, PostingFoot, PostingTables, Posting, PassesSerials,
    KeepsSerials, Registered
<1> QED BY <1>3, <1>5

LEMMA SerialsAreRows ==
    /\ \A x \in SerialNumber : Serial(x) \in Row /\ Serial(x)[1] \in SerialTables
    /\ \A t \in Tx : Claim(t) \in Row /\ Claim(t)[1] \in SerialTables
<1>1. /\ \A x \in SerialNumber : Serial(x) \in Row
      /\ \A t \in Tx : Claim(t) \in Row
  BY RowAssumption DEF TenantRows, DeskRows, SaleRows, ClaimRows
<1>2. /\ \A x \in SerialNumber : Serial(x)[1] \in SerialTables
      /\ \A t \in Tx : Claim(t)[1] \in SerialTables
  BY DEF Serial, Claim, SerialTables
<1> QED BY <1>1, <1>2

LEMMA SerialInit == Init => SerialInv
<1> SUFFICES ASSUME Init PROVE SerialInv OBVIOUS
<1>2. ASSUME NEW x \in SerialNumber
      PROVE  committed[Serial(x)] = Unsold
  <2>1. Serial(x) \in SaleRows /\ Serial(x)[1] = "serial" BY DEF SaleRows, Serial
  <2> QED BY Starts, <2>1, SerialsAreRows, StartOfRows DEF SaleInitialRow
<1>3. ASSUME NEW t \in Tx
      PROVE  committed[Claim(t)] = NoClaim
  <2>1. Claim(t) \in ClaimRows BY DEF ClaimRows
  <2> QED BY Starts, <2>1, SerialsAreRows, StartOfRows
<1>4. \A t \in Tx : SaleInHand(t) BY Starts DEF SaleInHand, Registered
<1>5. ASSUME NEW x \in SerialNumber
      PROVE  SerialIsInOrder(x)
  BY Starts, <1>2 DEF SerialIsInOrder, SoldWith
<1> QED BY <1>3, <1>4, <1>5 DEF SerialInv, ClaimsAreMade, SerialsAreInOrder

\* A step that sells and claims nothing.
LEMMA SerialsStayQuiet ==
    ASSUME SerialInv, NEW t \in Tx, NEW T, Frame(t, T), pc[t] \notin Done, SaleInHand(t)', ClaimsStay,
           \A x \in SerialNumber : committed'[Serial(x)] = committed[Serial(x)],
           pc'[t] = "committed" => task[t].op # "sale" \/ task[t].serial \notin SerialNumber,
           \A x \in SerialNumber :
              (ClaimsOf(x) = {} /\ SerialIsInOrder(x)) =>
                 /\ Serial(x) \in DOMAIN pending'[t] => committed[Serial(x)] = Unsold
                 /\ (pc'[t] = "register" /\ SellsUnit(t, x)) => read'[t].known = FALSE
    PROVE  SerialInv'
<1>1. UNCHANGED <<source, task>> BY DEF Frame
<1>2. \A u \in Tx : u # t => SaleInHand(u)' BY DEF Frame, SerialInv, SaleInHand, SellsUnit
<1>3. ClaimsAreMade' BY DEF Frame, SerialInv, ClaimsAreMade, ClaimsStay, Done
<1>4. ASSUME NEW x \in SerialNumber, ClaimsOf(x)' = {}
      PROVE  SerialIsInOrder(x)'
  <2>1. ClaimsOf(x) = {} BY <1>4 DEF ClaimsOf, ClaimsStay
  <2>2. SerialIsInOrder(x) BY <2>1 DEF SerialInv, SerialsAreInOrder
  <2>3. SoldWith(x)' = SoldWith(x) BY DEF SoldWith, Frame, Done
  <2>4. ASSUME NEW u \in Tx
        PROVE  /\ Serial(x) \in DOMAIN pending'[u] => committed'[Serial(x)] = Unsold
               /\ (pc'[u] = "register" /\ SellsUnit(u, x)') => read'[u].known = FALSE
    BY <1>1, <2>1, <2>2 DEF SerialIsInOrder, SellsUnit, Frame
  <2> QED BY <2>2, <2>3, <2>4 DEF SerialIsInOrder
<1> QED BY <1>2, <1>3, <1>4 DEF SerialInv, SerialsAreInOrder

\* A step that writes no serial number and no claim, of a sale that keeps its own.
LEMMA SerialsAreSpared ==
    ASSUME SerialInv, NEW t \in Tx, NEW T, Frame(t, T), Spares(t, SerialTables), pc[t] \notin Done,
           pc'[t] \notin {"serial", "register"},
           pc'[t] \in {"sell", "book"} => task[t].op = "sale",
           pc'[t] \in {"edit_sale", "edit_total"} => task[t].op = "edit_sale",
           pc'[t] = "sell" => "known" \notin DOMAIN read'[t],
           PassesSerials(t)
    PROVE  SerialInv'
<1>1. SaleInHand(t) /\ UNCHANGED <<source, task>> BY DEF SerialInv, Frame
<1>2. /\ \A r \in Row : r[1] \in SerialTables => committed'[r] \in {committed[r], Sees(t, r)}
      /\ \A r \in DOMAIN pending'[t] :
            r[1] \in SerialTables => r \in DOMAIN pending[t] /\ pending'[t][r] = pending[t][r]
  BY DEF Spares
<1>3. \A u \in Tx : committed'[Claim(u)] = committed[Claim(u)]
  BY <1>1, <1>2, SerialsAreRows DEF SaleInHand, Sees
<1>4. ASSUME NEW x \in SerialNumber
      PROVE  /\ committed'[Serial(x)] = committed[Serial(x)]
             /\ Serial(x) \in DOMAIN pending'[t] <=> SellsUnit(t, x) /\ pc'[t] \in Registered
             /\ Serial(x) \in DOMAIN pending'[t] =>
                   /\ Serial(x) \in DOMAIN pending[t]
                   /\ pending'[t][Serial(x)] = pending[t][Serial(x)]
  <2>1. Serial(x)[1] \in SerialTables /\ Serial(x) \in Row BY SerialsAreRows
  <2>2. Serial(x)[1] = "serial" BY DEF Serial
  <2>3. CASE ~SellsUnit(t, x)
    <3>1. Serial(x) \notin DOMAIN pending[t] BY <1>1, <2>3 DEF SaleInHand
    <3> QED BY <1>2, <2>1, <2>3, <3>1 DEF Sees
  <2>4. CASE SellsUnit(t, x) /\ KeepsSerials(t) /\ (pc[t] \in Registered <=> pc'[t] \in Registered)
    BY <1>1, <2>1, <2>2, <2>4 DEF KeepsSerials, Kept, SaleInHand
  <2>5. CASE Dropped(t) /\ pc'[t] \notin Registered BY <2>1, <2>5 DEF Dropped
  <2> QED BY <2>3, <2>4, <2>5 DEF SellsUnit, PassesSerials
<1>5. SaleInHand(t)'
  <2>1. \A u \in Tx : Claim(u) \notin DOMAIN pending'[t] BY <1>1, <1>2, SerialsAreRows DEF SaleInHand
  <2>2. \A x \in SerialNumber : SellsUnit(t, x)' <=> SellsUnit(t, x) BY <1>1 DEF SellsUnit
  <2> QED BY <1>1, <1>4, <2>1, <2>2 DEF SaleInHand
<1>6. ASSUME NEW x \in SerialNumber, SerialIsInOrder(x), Serial(x) \in DOMAIN pending'[t]
      PROVE  committed[Serial(x)] = Unsold
  BY <1>4, <1>6 DEF SerialIsInOrder
<1>7. ClaimsStay BY <1>3 DEF ClaimsStay
<1>8. pc'[t] = "committed" => task[t].op # "sale" \/ task[t].serial \notin SerialNumber BY DEF PassesSerials
<1> QED BY <1>4, <1>5, <1>6, <1>7, <1>8, SerialsStayQuiet

LEMMA SerialElsewhereStep ==
    ASSUME Base, SerialInv, NEW t \in Tx, Footprint(t), ~SaleStep(t), ~ClaimStep(t)
    PROVE  SerialInv'
<1>1. PICK T : Frame(t, T) BY SerialElsewhere DEF Base
<1>2. Spares(t, SerialTables) /\ PassesSerials(t) /\ pc'[t] \notin SerialWays BY SerialElsewhere DEF Base
<1> QED BY <1>1, <1>2, DoneIsDone, SerialsAreSpared DEF SerialWays

LEMMA SaleOwnStep ==
    ASSUME Base, SerialInv, NEW t \in Tx, Footprint(t), SaleStep(t)
    PROVE  SerialInv'
<1>0. Shape /\ Locks /\ SaleInHand(t) /\ pc[t] \notin Done BY DoneIsDone DEF Base, SerialInv
\* The tables that a sale writes beside its serial number.
<1> DEFINE Others == {"items", "total", "stock", "customer", "entry"}
<1>1. ASSUME Frame(t, Others)
      PROVE  Spares(t, SerialTables)
  BY <1>1, FrameSpares DEF SerialTables
<1>2. ASSUME Kept(t, Others)
      PROVE  KeepsSerials(t)
  BY <1>2 DEF KeepsSerials
<1> HIDE DEF Others
\* A step before the sale has its serial number, or one of another operation.
<1>3. ASSUME Frame(t, Others), PassesSerials(t), pc'[t] \in Done \cup {"post", "edit_sale", "edit_total"},
             pc'[t] \in {"edit_sale", "edit_total"} => task[t].op = "edit_sale"
      PROVE  SerialInv'
  BY <1>0, <1>1, <1>3, SerialsAreSpared DEF Done
<1>4. ASSUME NEW outcome \in Done, outcome # "committed", Throws(t, outcome)
      PROVE  SerialInv'
  <2>1. Frame(t, Others) /\ Dropped(t) /\ pc'[t] = outcome BY <1>0, <1>4, ThrowsFrame
  <2> QED BY <1>3, <1>4, <2>1 DEF PassesSerials, Registered, Done
<1>5. CASE PreviewSale(t)
  <2> DEFINE value == Redeemable(SeenCustomer(t).points, task[t].points, task[t].n)
             sum == task[t].n - value.discount
  <2>1. ReadsToPost(t, value, sum, "sell") /\ pc[t] = "idle" /\ task[t].op = "sale"
    BY <1>5 DEF PreviewSale, At
  <2>2. "known" \notin DOMAIN value BY DEF Redeemable
  <2> HIDE DEF value, sum
  <2>3. Frame(t, Others) /\ Kept(t, Others) /\ pc'[t] = "sell" /\ read'[t] = value BY <1>0, <2>1, ReadsFrame
  <2>4. PassesSerials(t) BY <1>2, <2>1, <2>3 DEF PassesSerials, Registered
  <2> QED BY <1>0, <1>1, <2>1, <2>2, <2>3, <2>4, SerialsAreSpared
<1>6. CASE Sell(t)
  <2> DEFINE rows == Items(source[t]) :> [by |-> t, n |-> task[t].n]
                        @@ TotalAmount(source[t]) :> amount[t]
                        @@ Stock(Shop(t)) :> Moved(t, Shop(t), -task[t].n)
  <2>1. /\ Writes(t, rows, IF task[t].serial = NoSerial THEN "book" ELSE "serial")
        /\ pc[t] = "sell" /\ task[t].op = "sale"
    BY <1>0, <1>6 DEF Sell, SaleInHand
  <2>2. InTables(rows, Others) BY DEF :>, @@, InTables, Items, TotalAmount, Stock, Others
  <2> HIDE DEF rows
  <2>3. /\ Frame(t, Others) /\ Kept(t, Others) /\ read' = read /\ committed' = committed
        /\ pc'[t] = IF task[t].serial = NoSerial THEN "book" ELSE "serial"
    BY <1>0, <2>1, <2>2, WritesFrame
  <2>4. CASE task[t].serial = NoSerial
    <3>1. PassesSerials(t) BY <2>4, SerialAssumption DEF PassesSerials
    <3> QED BY <1>0, <1>1, <2>1, <2>3, <2>4, <3>1, SerialsAreSpared
  <2>5. CASE task[t].serial # NoSerial
    <3>1. SaleInHand(t)'
      BY <1>0, <1>1, <2>1, <2>3, <2>5, SerialsAreRows DEF SaleInHand, SellsUnit, Registered, Frame,
        Spares
    <3>2. \A x \in SerialNumber : Serial(x) \notin DOMAIN pending'[t]
      BY <2>3, <2>5, <3>1 DEF SaleInHand, Registered
    <3> QED BY <1>0, <2>3, <2>5, <3>1, <3>2, SerialsStayQuiet DEF ClaimsStay
  <2> QED BY <2>4, <2>5
<1>7. CASE SellShort(t) BY <1>4, <1>7 DEF SellShort, Shortage, Done
<1>8. CASE CheckSerial(t)
  <2> DEFINE x == task[t].serial
             serial == Sees(t, Serial(task[t].serial))
             value == read[t] @@ ("known" :> (serial # Unsold))
  <2>1. pc[t] = "serial" /\ task[t].op = "sale" /\ "known" \notin DOMAIN read[t]
    BY <1>0, <1>8 DEF CheckSerial, SaleInHand
  <2>2. CASE serial.status = "SOLD" BY <1>4, <1>8, <2>2 DEF CheckSerial, Done
  <2>3. CASE serial.status # "SOLD"
    <3>1. Reads(t, value, "register") BY <1>8, <2>3 DEF CheckSerial
    <3>2. value.known = (serial # Unsold) BY <2>1 DEF :>, @@
    <3> HIDE DEF value
    <3>3. pc'[t] = "register" /\ read'[t] = value /\ UNCHANGED <<committed, pending>> /\ Frame(t, Others)
      BY <1>0, <3>1, ReadsFrame DEF dbVars
    <3>4. SaleInHand(t)' BY <1>0, <2>1, <3>3 DEF SaleInHand, SellsUnit, Registered, Frame
    <3>5. \A y \in SerialNumber : Serial(y) \notin DOMAIN pending[t]
      BY <1>0, <2>1 DEF SaleInHand, Registered
    <3>6. ASSUME NEW y \in SerialNumber, SerialIsInOrder(y), SellsUnit(t, y)
          PROVE  read'[t].known = FALSE
      <4>1. serial = committed[Serial(y)] BY <3>5, <3>6 DEF SellsUnit, Sees
      <4>2. serial = Unsold BY <2>3, <3>6, <4>1 DEF SerialIsInOrder
      <4> QED BY <3>2, <3>3, <4>2
    <3> HIDE DEF serial
    <3> QED BY <1>0, <3>3, <3>4, <3>5, <3>6, SerialsStayQuiet DEF ClaimsStay
  <2> QED BY <2>2, <2>3
<1>9. CASE RegisterSerial(t)
  <2> DEFINE x == task[t].serial
             rows == Serial(task[t].serial) :> [status |-> "SOLD", sale |-> source[t]]
  <2>1. Writes(t, rows, "book") /\ pc[t] = "register" /\ task[t].op = "sale" /\ SerialRegistrable(t)
    BY <1>0, <1>9 DEF RegisterSerial, SaleInHand
  <2>2. DOMAIN rows = {Serial(x)} /\ rows[Serial(x)] = [status |-> "SOLD", sale |-> source[t]] /\ InTables(rows, SaleTables)
    BY DEF :>, InTables, Serial, SaleTables
  <2> HIDE DEF rows
  <2>3. /\ Frame(t, SaleTables) /\ pc'[t] = "book" /\ read' = read /\ committed' = committed
        /\ DOMAIN pending'[t] = DOMAIN pending[t] \cup {Serial(x)}
        /\ pending'[t][Serial(x)].status = "SOLD"
    BY <1>0, <2>1, <2>2, WritesFrame
  <2>4. \A y \in SerialNumber : Serial(y) \notin DOMAIN pending[t] BY <1>0, <2>1 DEF SaleInHand, Registered
  <2>5. /\ \A y : Serial(y) = Serial(x) => y = x
        /\ \A u : Claim(u) # Serial(x)
    BY DEF Serial, Claim
  <2>6. SaleInHand(t)' BY <1>0, <2>1, <2>3, <2>4, <2>5 DEF SaleInHand, SellsUnit, Registered, Frame
  <2>7. ASSUME NEW y \in SerialNumber, SerialIsInOrder(y), Serial(y) \in DOMAIN pending'[t]
        PROVE  committed[Serial(y)] = Unsold
    <3>1. y = x BY <2>3, <2>4, <2>5, <2>7
    <3>2. Sees(t, Serial(x)) = Unsold BY <2>1, <2>7, <3>1 DEF SerialRegistrable, SerialIsInOrder, SellsUnit
    <3> QED BY <2>4, <3>1, <3>2 DEF Sees
  <2> QED BY <1>0, <2>3, <2>6, <2>7, SerialsStayQuiet DEF ClaimsStay
<1>10. CASE SerialExists(t) BY <1>4, <1>10 DEF SerialExists, Done
<1>11. CASE BookSale(t)
  <2> DEFINE rows == SaleBooked(t, amount[t], read[t].points)
  <2>1. Writes(t, rows, "post") /\ pc[t] = "book" BY <1>11 DEF BookSale
  <2>2. InTables(rows, Others) BY DEF SaleBooked, :>, @@, InTables, Customer, Entry, Others
  <2> HIDE DEF rows
  <2>3. Frame(t, Others) /\ Kept(t, Others) /\ pc'[t] = "post" BY <1>0, <2>1, <2>2, WritesFrame
  <2> QED BY <1>2, <1>3, <2>1, <2>3 DEF PassesSerials, Registered
<1>12. CASE FinishSale(t)
  <2>1. CommitsTo(t, << >>, "committed") /\ pc[t] = "commit" /\ task[t].op = "sale"
    BY <1>12 DEF FinishSale, Ends, At
  <2>2. /\ Frame(t, {}) /\ pc'[t] = "committed" /\ Published(t, {})
        /\ \A r \in Row : committed'[r] = Sees(t, r)
    BY <1>0, <2>1, NoRows, CommitsFrame
  <2>3. /\ \A u \in Tx : u # t => SaleInHand(u)'
        /\ SaleInHand(t)'
    BY <2>1, <2>2 DEF Frame, SerialInv, SaleInHand, SellsUnit, Published, Registered
  <2>4. \A u \in Tx : committed'[Claim(u)] = committed[Claim(u)]
    BY <1>0, <2>2, SerialsAreRows DEF SaleInHand, Sees
  <2>5. ClaimsAreMade' BY <2>1, <2>2, <2>4 DEF Frame, SerialInv, ClaimsAreMade
  <2>6. ASSUME NEW x \in SerialNumber, ClaimsOf(x)' = {}
        PROVE  SerialIsInOrder(x)'
    <3>1. SerialIsInOrder(x) BY <2>4, <2>6 DEF ClaimsOf, SerialInv, SerialsAreInOrder
    <3>2. \A u \in Tx : u # t =>
             pc'[u] = pc[u] /\ read'[u] = read[u] /\ pending'[u] = pending[u]
      BY <2>2 DEF Frame
    <3>3. UNCHANGED task /\ DOMAIN pending'[t] = {} BY <2>2 DEF Frame, Published
    <3>4. CASE ~SellsUnit(t, x)
      <4>1. committed'[Serial(x)] = committed[Serial(x)]
        BY <1>0, <2>2, <3>4, SerialsAreRows DEF SaleInHand, Sees
      <4>2. SoldWith(x)' = SoldWith(x) BY <2>1, <3>2, <3>3, <3>4 DEF SoldWith, SellsUnit
      <4> QED BY <2>2, <3>1, <3>2, <3>3, <4>1, <4>2 DEF SerialIsInOrder, SellsUnit
    <3>5. CASE SellsUnit(t, x)
      <4>1. Serial(x) \in DOMAIN pending[t] /\ pending[t][Serial(x)].status = "SOLD"
        BY <1>0, <2>1, <3>5 DEF SaleInHand, Registered
      <4>2. committed'[Serial(x)].status = "SOLD" /\ SoldWith(x) = {}
        BY <2>2, <3>1, <4>1, SerialsAreRows DEF Sees, SerialIsInOrder
      <4>3. SoldWith(x)' = {t} BY <2>2, <3>2, <3>3, <3>5, <4>2 DEF SoldWith, SellsUnit
      <4>4. \A u \in Tx : u # t => Serial(x) \notin DOMAIN pending[u]
        BY <1>0, <4>1, SerialsAreRows DEF Locks
      <4>5. committed'[Serial(x)] # Unsold BY <4>2 DEF Unsold
      <4>6. \A u \in Tx : (pc'[u] = "register" /\ SellsUnit(u, x)') => read'[u].known = FALSE
        BY <2>2, <3>1, <3>2, <3>3 DEF SerialIsInOrder, SellsUnit
      <4> QED BY <3>2, <3>3, <4>2, <4>3, <4>4, <4>5, <4>6 DEF SerialIsInOrder
    <3> QED BY <3>4, <3>5
  <2> QED BY <2>3, <2>5, <2>6 DEF SerialInv, SerialsAreInOrder
<1>13. CASE ReadSale(t)
  <2> DEFINE value == [n |-> SeenItems(t, source[t]).n, total |-> Sees(t, TotalAmount(source[t]))]
  <2>1. Reads(t, value, "edit_sale") /\ task[t].op = "edit_sale" BY <1>13 DEF ReadSale, At
  <2> HIDE DEF value
  <2>2. Frame(t, Others) /\ pc'[t] = "edit_sale" BY <1>0, <2>1, ReadsFrame
  <2> QED BY <1>3, <2>1, <2>2 DEF PassesSerials
<1>14. CASE ReplaceItems(t)
  <2> DEFINE rows == Stock(EditShop(t)) :> Moved(t, EditShop(t), ItemsChanged(t))
                        @@ Items(source[t]) :> [by |-> t, n |-> task[t].n]
  <2>1. Writes(t, rows, "edit_total") /\ task[t].op = "edit_sale"
    BY <1>0, <1>14 DEF ReplaceItems, SaleInHand
  <2>2. InTables(rows, Others) BY DEF :>, @@, InTables, Items, Stock, Others
  <2> HIDE DEF rows
  <2>3. Frame(t, Others) /\ pc'[t] = "edit_total" BY <1>0, <2>1, <2>2, WritesFrame
  <2> QED BY <1>3, <2>1, <2>3 DEF PassesSerials
<1>15. CASE EditShort(t) BY <1>4, <1>15 DEF EditShort, Shortage, Done
<1>16. CASE ItemsHaveReturns(t) BY <1>4, <1>16 DEF ItemsHaveReturns, Done
<1>17. CASE EditTotal(t)
  <2> DEFINE rows == TotalAmount(source[t]) :> task[t].n
                        @@ Customer :> [SeenCustomer(t) EXCEPT !.spent = @ + task[t].n - read[t].total]
  <2>1. CommitsTo(t, rows, "committed") /\ task[t].op = "edit_sale"
    BY <1>0, <1>17 DEF EditTotal, Ends, SaleInHand
  <2>2. InTables(rows, Others) BY DEF :>, @@, InTables, TotalAmount, Customer, Others
  <2> HIDE DEF rows
  <2>3. Frame(t, Others) /\ pc'[t] = "committed" BY <1>0, <2>1, <2>2, CommitsFrame
  <2> QED BY <1>3, <2>1, <2>3 DEF PassesSerials, Done
<1> QED BY <1>5, <1>6, <1>7, <1>8, <1>9, <1>10, <1>11, <1>12, <1>13, <1>14, <1>15, <1>16, <1>17 DEF
  SaleStep

LEMMA ClaimOwnStep ==
    ASSUME Base, SerialInv, NEW t \in Tx, Footprint(t), ClaimStep(t)
    PROVE  SerialInv'
<1>0. Shape /\ Locks /\ SaleInHand(t) /\ pc[t] \notin Done /\ Foot(t, ClaimTables, ClaimOps, ClaimWays)
  BY DoneIsDone, ClaimFoot DEF Base, SerialInv
<1>1. task[t].op \in {"claim", "claim_status"} /\ UNCHANGED task
  BY <1>0 DEF Foot, From, Frame, Base, OnItsWay, Routed, ClaimOps
<1>2. \A x \in SerialNumber : ~SellsUnit(t, x) /\ Serial(x) \notin DOMAIN pending[t]
  BY <1>0, <1>1 DEF SaleInHand, SellsUnit
<1>3. CASE ReadForClaim(t)
  <2>1. Reads(t, SeenSerial(t).sale, "claim") BY <1>3 DEF ReadForClaim
  <2>2. Frame(t, {}) /\ pc'[t] = "claim" BY <1>0, <2>1, ReadsFrame
  <2>3. Spares(t, SerialTables) BY <2>2, FrameSpares
  <2> QED BY <1>0, <1>1, <2>2, <2>3, SerialsAreSpared DEF PassesSerials
<1>4. CASE MakeClaim(t)
  <2> DEFINE own == Claim(t)
             x == task[t].serial
             claim == [status |-> "SUBMITTED", serial |-> task[t].serial, sale |-> read[t]]
             rows == Claim(t) :> [status |-> "SUBMITTED", serial |-> task[t].serial, sale |-> read[t]]
                        @@ Serial(task[t].serial) :> [SeenSerial(t) EXCEPT !.status = "CLAIMED"]
  <2>1. CommitsTo(t, rows, "committed") BY <1>4 DEF MakeClaim, Ends
  <2>2. own # Serial(x) BY DEF Claim, Serial
  <2>3. DOMAIN rows = {own, Serial(x)} /\ rows[own] = claim /\ InTables(rows, ClaimTables)
    BY <2>2 DEF :>, @@, InTables, Claim, Serial, ClaimTables
  <2> HIDE DEF rows
  <2>4. /\ Frame(t, ClaimTables) /\ pc'[t] = "committed" /\ Published(t, ClaimTables)
        /\ \A r \in Row : committed'[r] = IF r \in {own, Serial(x)} THEN rows[r] ELSE Sees(t, r)
    BY <1>0, <2>1, <2>3, CommitsFrame
  <2>5. /\ \A u \in Tx : u # t => SaleInHand(u)'
        /\ SaleInHand(t)'
    BY <1>1, <1>2, <2>4 DEF Frame, SerialInv, SaleInHand, SellsUnit, Published, Registered
  <2>6. ASSUME NEW u \in Tx
        PROVE  committed'[Claim(u)] = IF u = t THEN claim ELSE committed[Claim(u)]
    <3>1. Claim(u) # Serial(x) /\ (Claim(u) = own <=> u = t) BY DEF Claim, Serial
    <3>2. Sees(t, Claim(u)) = committed[Claim(u)] BY <1>0 DEF SaleInHand, Sees
    <3> QED BY <2>3, <2>4, <3>1, <3>2, SerialsAreRows
  <2>7. ClaimsAreMade' BY <2>4, <2>6 DEF Frame, SerialInv, ClaimsAreMade
  <2>8. ASSUME NEW y \in SerialNumber, ClaimsOf(y)' = {}
        PROVE  SerialIsInOrder(y)'
    <3>1. y # x BY <2>6, <2>8 DEF ClaimsOf
    <3>2. ClaimsOf(y) = {}
      <4>1. committed[Claim(t)] = NoClaim /\ y # NoSerial
        BY <1>0, SerialAssumption DEF SerialInv, ClaimsAreMade, Done
      <4> QED BY <2>6, <2>8, <4>1 DEF ClaimsOf, NoClaim
    <3>3. SerialIsInOrder(y) BY <3>2 DEF SerialInv, SerialsAreInOrder
    <3>4. Serial(y) # own /\ Serial(y) # Serial(x) BY <3>1 DEF Claim, Serial
    <3>5. committed'[Serial(y)] = committed[Serial(y)] BY <1>2, <2>4, <3>4, SerialsAreRows DEF Sees
    <3>6. SoldWith(y)' = SoldWith(y) BY <1>1, <1>2, <2>4 DEF SoldWith, SellsUnit, Frame
    <3>7. DOMAIN pending'[t] = {} BY <2>4 DEF Published
    <3> QED BY <1>1, <2>4, <3>3, <3>5, <3>6, <3>7 DEF SerialIsInOrder, SellsUnit, Frame
  <2> QED BY <2>5, <2>7, <2>8 DEF SerialInv, SerialsAreInOrder
<1>5. CASE SetClaimStatus(t)
  <2>1. PICK u \in Tx : /\ Sees(t, Claim(u)) # NoClaim
                        /\ Ends(t, Claim(u) :> [Sees(t, Claim(u)) EXCEPT !.status = task[t].status])
    BY <1>5 DEF SetClaimStatus
  <2> DEFINE row == [Sees(t, Claim(u)) EXCEPT !.status = task[t].status]
             rows == Claim(u) :> row
  <2>2. CommitsTo(t, rows, "committed") BY <2>1 DEF Ends
  <2>3. DOMAIN rows = {Claim(u)} /\ rows[Claim(u)] = row /\ InTables(rows, ClaimTables)
    BY DEF :>, InTables, Claim, ClaimTables
  <2> HIDE DEF rows
  <2>4. /\ Frame(t, ClaimTables) /\ pc'[t] = "committed" /\ Published(t, ClaimTables)
        /\ \A r \in Row : committed'[r] = IF r = Claim(u) THEN row ELSE Sees(t, r)
    BY <1>0, <2>2, <2>3, CommitsFrame
  <2>5. \A v \in Tx : Sees(t, Claim(v)) = committed[Claim(v)] /\ (Claim(v) = Claim(u) <=> v = u)
    BY <1>0 DEF SaleInHand, Sees, Claim
  <2>6. row.serial = committed[Claim(u)].serial
    <3> DEFINE claim == committed[Claim(u)]
    <3>1. row = [claim EXCEPT !.status = task[t].status] BY <2>5
    <3> HIDE DEF row, claim
    <3>2. row.serial = claim.serial BY <3>1
    <3> QED BY <3>2 DEF claim
  <2> HIDE DEF row
  <2>7. ClaimsStay BY <2>1, <2>4, <2>5, <2>6, SerialsAreRows DEF ClaimsStay
  <2>8. SaleInHand(t)' BY <1>1, <2>4 DEF SaleInHand, Published, SellsUnit
  <2>9. \A y \in SerialNumber : committed'[Serial(y)] = committed[Serial(y)] /\ Serial(y) \notin DOMAIN pending'[t]
    <3>1. \A y \in SerialNumber : Serial(y) # Claim(u) BY DEF Serial, Claim
    <3> QED BY <1>2, <2>4, <3>1, SerialsAreRows DEF Sees, Published
  <2> QED BY <1>0, <1>1, <2>4, <2>7, <2>8, <2>9, SerialsStayQuiet
<1> QED BY <1>3, <1>4, <1>5 DEF ClaimStep

\* The serial number of a unit under warranty is sold once, until a claim opens it
\* again, however the sales that have it race.
THEOREM SerialsAreSoldOnceHolds == Spec => []SerialsAreSoldOnce
<1>1. Init => Base /\ SerialInv BY BaseInit, SerialInit
<1>2. Base /\ SerialInv /\ [Next]_vars => Base' /\ SerialInv'
  <2> SUFFICES ASSUME Base, SerialInv, [Next]_vars PROVE Base' /\ SerialInv' OBVIOUS
  <2>1. CASE UNCHANGED vars
    BY <2>1, BaseNext DEF vars, dbVars, postingVars, SerialInv, SaleInHand, ClaimsAreMade,
      SerialsAreInOrder, SerialIsInOrder, ClaimsOf, SoldWith, SellsUnit
  <2>2. CASE Next BY <2>2, BaseNext, ServeOnce, SerialElsewhereStep, SaleOwnStep, ClaimOwnStep
  <2> QED BY <2>1, <2>2
<1>3. SerialInv => SerialsAreSoldOnce
  <2> SUFFICES ASSUME SerialInv, NEW x \in SerialNumber, ClaimsOf(x) = {}
               PROVE  Cardinality(SoldWith(x)) <= 1
    BY DEF SerialsAreSoldOnce
  <2>1. \A t, u \in SoldWith(x) : t = u BY DEF SerialInv, SerialsAreInOrder, SerialIsInOrder
  <2>2. CASE SoldWith(x) = {} BY <2>2, FS_EmptySet
  <2>3. CASE SoldWith(x) # {}
    <3>1. PICK u \in Tx : u \in SoldWith(x) BY <2>3 DEF SoldWith
    <3>2. \A t \in SoldWith(x) : t = u BY <2>1, <3>1
    <3>3. SoldWith(x) = {u} BY <3>1, <3>2
    <3> QED BY <3>3, FS_Singleton
  <2> QED BY <2>2, <2>3
<1> QED BY <1>1, <1>2, <1>3, PTL DEF Spec

-----------------------------------------------------------------------------
(* Documents that move stock.                                                *)

LEMMA KindsAreApart ==
    /\ Sale \cap (Return \cup Order \cup PurchaseOrder \cup Purchase \cup PurchaseReturn \cup Job) = {}
    /\ Return \cap (Order \cup PurchaseOrder \cup Purchase \cup PurchaseReturn \cup Job) = {}
    /\ Order \cap (PurchaseOrder \cup Purchase \cup PurchaseReturn \cup Job) = {}
    /\ PurchaseOrder \cap (Purchase \cup PurchaseReturn \cup Job) = {}
    /\ Purchase \cap (PurchaseReturn \cup Job) = {} /\ PurchaseReturn \cap Job = {}
<1>1. /\ Kinds[1] = Sale /\ Kinds[2] = Return /\ Kinds[3] = Order /\ Kinds[4] = PurchaseOrder
      /\ Kinds[5] = Purchase /\ Kinds[6] = PurchaseReturn /\ Kinds[7] = Job
      /\ DOMAIN Kinds = 1 .. 7
  BY DEF Kinds
<1>2. \A i, k \in 1 .. 7 : i # k => Kinds[i] \cap Kinds[k] = {} BY <1>1, KindAssumption
<1> QED BY <1>1, <1>2

LEMMA DocumentsAreStored ==
    /\ \A d : IsDocument(d) => d \in Source /\ d \in DOMAIN ShelfOf /\ ShelfOf[d] \in Shelf
    /\ \A j \in Job : ComponentShelf \in Shelf /\ ComponentShelf # ShelfOf[j]
    /\ \A d \in Sale \cup Return : ShelfOnEdit[d] \in Shelf
<1>1. /\ Kinds[1] = Sale /\ Kinds[2] = Return /\ Kinds[3] = Order /\ Kinds[4] = PurchaseOrder
      /\ Kinds[5] = Purchase /\ Kinds[6] = PurchaseReturn /\ Kinds[7] = Job
      /\ DOMAIN Kinds = 1 .. 7
  BY DEF Kinds
<1>2. \A i \in 1 .. 7 : \A d \in Kinds[i] :
         /\ d \in Source /\ d \in DOMAIN ShelfOf /\ ShelfOf[d] \in Shelf
         /\ d \in Job => ComponentShelf \in Shelf \ {ShelfOf[d]}
         /\ d \in Sale \cup Return => ShelfOnEdit[d] \in Shelf
  BY <1>1, DocumentAssumption
<1> QED BY <1>1, <1>2 DEF IsDocument

LEMMA StockRowsAreRows ==
    /\ \A p \in Shelf : Stock(p) \in Row
    /\ \A d \in Sale : Items(d) \in Row
    /\ \A d \in Return : Returned(d) \in Row
    /\ \A d \in Order : OrderRow(d) \in Row
    /\ \A d \in PurchaseOrder : OrderStatus(d) \in Row
    /\ \A d \in Purchase \cup PurchaseReturn : BoughtUnits(d) \in Row
    /\ \A d \in Job : JobStatus(d) \in Row
<1>1. /\ StockRows \subseteq Row /\ SaleRows \subseteq Row /\ OrderRows \subseteq Row
      /\ PurchasingRows \subseteq Row /\ ProductionRows \subseteq Row
  BY RowAssumption DEF TenantRows, DeskRows, BackOfficeRows
<1>2. \A p \in Shelf : Stock(p) \in Row BY <1>1 DEF StockRows
<1>3. /\ \A d \in Sale : Items(d) \in Row
      /\ \A d \in Return : Returned(d) \in Row
  BY <1>1 DEF SaleRows
<1>4. \A d \in Order : OrderRow(d) \in Row BY <1>1 DEF OrderRows
<1>5. /\ \A d \in PurchaseOrder : OrderStatus(d) \in Row
      /\ \A d \in Purchase \cup PurchaseReturn : BoughtUnits(d) \in Row
  BY <1>1 DEF PurchasingRows
<1>6. \A d \in Job : JobStatus(d) \in Row BY <1>1 DEF ProductionRows
<1> QED BY <1>2, <1>3, <1>4, <1>5, <1>6

-----------------------------------------------------------------------------
(* What a step about one document leaves of the others.                      *)

\* The request of an operation on stock is about a document of its kind.
LEMMA StockRequests ==
    ASSUME Tasks, NEW t \in Tx
    PROVE  /\ task[t].op \in SaleOps => source[t] \in Sale /\ task[t].n \in Int
           /\ task[t].op \in ReturnOps => source[t] \in Return
           /\ task[t].op \in {"return", "edit_return"} =>
                 /\ IsFiniteSet(DOMAIN task[t].lines)
                 /\ task[t].lines \in [DOMAIN task[t].lines -> Int]
           /\ task[t].op \in OrderOps => source[t] \in Order
           /\ task[t].op = "po_status" => source[t] \in PurchaseOrder
           /\ task[t].op = "purchase" => source[t] \in Purchase /\ task[t].n \in Int
           /\ task[t].op \in {"send_back", "send_back_anew", "remove_send_back"} => source[t] \in PurchaseReturn
           /\ task[t].op \in {"send_back", "send_back_anew"} => task[t].n \in Int
           /\ task[t].op \in ProductionOps => source[t] \in Job
  BY RequestAssumption DEF Tasks, SaleOps, ReturnOps, OrderOps, ProductionOps

LEMMA StockIsSeen ==
    ASSUME StockInv, NEW t \in Tx, NEW p \in Shelf
    PROVE  OnlyItsOwn(t, Stock(p), Sees(t, Stock(p)))
<1>1. Stock(p) \in Row /\ Stock(p)[1] = "stock" BY StockRowsAreRows DEF Stock
<1> QED BY <1>1 DEF StockInv, OwnRows, OnlyItsOwn, Sees, StockTables

LEMMA MovedIsItsOwn ==
    ASSUME StockInv, NEW t \in Tx, NEW p \in Shelf, NEW delta
    PROVE  /\ OnlyItsOwn(t, Stock(p), Moved(t, p, delta))
           /\ Moved(t, p, delta)[source[t]] = Slot(t, p) + delta
<1> DEFINE row == Sees(t, Stock(p))
<1>1. OnlyItsOwn(t, Stock(p), row) /\ source[t] \in Source BY StockIsSeen DEF StockInv, Tasks
<1>2. Moved(t, p, delta) = [row EXCEPT ![source[t]] = @ + delta] /\ Slot(t, p) = row[source[t]]
  BY DEF Moved, Slot
<1> HIDE DEF row
<1> QED BY <1>1, <1>2 DEF OnlyItsOwn

LEMMA CleanSees ==
    ASSUME NEW t \in Tx, Clean(t), NEW r, r[1] \in StockTables
    PROVE  Sees(t, r) = committed[r]
  BY DEF Clean, Sees

LEMMA StockStaysForOthers ==
    ASSUME StockInv, NEW t \in Tx, StockStays
    PROVE  OthersKept(t)
<1>1. \A p \in Shelf : committed'[Stock(p)] = committed[Stock(p)]
  BY StockRowsAreRows DEF StockStays, StockTables, Stock
<1> QED BY <1>1 DEF StockStays, OthersKept, StockInv

\* What is settled of a document depends on its rows and its places.
LEMMA SameSettled ==
    ASSUME NEW d, Settled(d), UNCHANGED <<task, source>>,
           \A p \in Shelf : committed'[Stock(p)][d] = committed[Stock(p)][d],
           \A r \in Row : (r[1] \in StockTables \ {"stock"} /\ r[2] = d) => committed'[r] = committed[r]
    PROVE  Settled(d)'
<1>1. d \in Sale => committed'[Items(d)] = committed[Items(d)] BY StockRowsAreRows DEF Items, StockTables
<1>2. d \in Return => committed'[Returned(d)] = committed[Returned(d)]
  BY StockRowsAreRows DEF Returned, StockTables
<1>3. d \in PurchaseOrder => committed'[OrderStatus(d)] = committed[OrderStatus(d)]
  BY StockRowsAreRows DEF OrderStatus, StockTables
<1>4. d \in Purchase \cup PurchaseReturn => committed'[BoughtUnits(d)] = committed[BoughtUnits(d)]
  BY StockRowsAreRows DEF BoughtUnits, StockTables
<1>5. d \in Job => committed'[JobStatus(d)] = committed[JobStatus(d)]
  BY StockRowsAreRows DEF JobStatus, StockTables
<1>6. /\ IsDocument(d) => MovedBy(d)' = MovedBy(d)
      /\ d \in Job => committed'[Stock(ComponentShelf)][d] = committed[Stock(ComponentShelf)][d]
  BY DocumentsAreStored DEF MovedBy
<1>7. PlacesOf(d)' = PlacesOf(d) /\ ShelvesOf(d)' = ShelvesOf(d) BY DEF PlacesOf, ShelvesOf, Edited
<1> QED BY <1>1, <1>2, <1>3, <1>4, <1>5, <1>6, <1>7 DEF IsDocument, Settled, SoldAsMoved,
  ReturnedAsMoved, ReceivedAsMoved, BoughtAsMoved, SentBackAsMoved, MadeAsMoved, SoldBy, TakenBackBy,
  SentBackBy

LEMMA OthersStaySettled ==
    ASSUME NEW t \in Tx, OthersKept(t), NEW d \in Source, d # source[t], Settled(d),
           UNCHANGED <<task, source>>
    PROVE  Settled(d)'
<1>1. /\ \A p \in Shelf : committed'[Stock(p)][d] = committed[Stock(p)][d]
      /\ \A r \in Row : (r[1] \in StockTables \ {"stock"} /\ r[2] = d) => committed'[r] = committed[r]
  BY DEF OthersKept
<1> QED BY <1>1, SameSettled

\* What is in hand of a document depends on its rows, its places, and the request.
LEMMA SameInHand ==
    ASSUME Base, Tasks, NEW u \in Tx, Steered(u), Running(u), InHand(u),
           UNCHANGED <<task, source>>, pc'[u] = pc[u], read'[u] = read[u],
           amount'[u] = amount[u], pending'[u] = pending[u],
           \A r \in Row :
              (r[1] \in StockTables \ {"stock"} /\ r[2] = source[u]) => committed'[r] = committed[r],
           \A p \in Shelf : committed'[Stock(p)][source[u]] = committed[Stock(p)][source[u]]
    PROVE  InHand(u)'
<1> DEFINE d == source[u]
<1>1. \A r \in Row : (r[1] \in StockTables \ {"stock"} /\ r[2] = d) => Sees(u, r)' = Sees(u, r) BY DEF Sees
<1>2. /\ \A p \in Shelf : Slot(u, p)' = Slot(u, p) /\ Settling(u, p)' = Settling(u, p)
      /\ SeenPlaces(u)' = SeenPlaces(u) /\ ShelvesOf(d)' = ShelvesOf(d)
  BY DEF Slot, Settling, Sees, SeenPlaces, ShelvesOf, Edited
<1>3. d \in Sale => Items(d) \in Row /\ SoldBy(d)' = SoldBy(d) /\ SeenItems(u, d)' = SeenItems(u, d)
  BY <1>1, StockRowsAreRows DEF SoldBy, SeenItems, Items, StockTables
<1>4. d \in Return => TakenBackBy(d)' = TakenBackBy(d) /\ SeenReturn(u)' = SeenReturn(u)
  BY <1>1, StockRowsAreRows DEF TakenBackBy, SeenReturn, Returned, StockTables
<1>5. d \in Order => OrderOf(d)' = OrderOf(d) BY StockRowsAreRows DEF OrderOf, OrderRow, StockTables
<1>6. d \in PurchaseOrder => committed'[OrderStatus(d)] = committed[OrderStatus(d)]
  BY StockRowsAreRows DEF OrderStatus, StockTables
<1>7. d \in Purchase \cup PurchaseReturn => SentBackBy(d)' = SentBackBy(d) /\ SeenUnits(u)' = SeenUnits(u)
  BY <1>1, StockRowsAreRows DEF SentBackBy, SeenUnits, BoughtUnits, StockTables
<1>8. d \in Job => committed'[JobStatus(d)] = committed[JobStatus(d)]
  BY StockRowsAreRows DEF JobStatus, StockTables
<1>9. OnItsWay(u) BY DEF Base
<1>10. AsFound(u)'
  <2>1. /\ pc[u] \in {"sell", "edit_sale"} => d \in Sale
        /\ pc[u] \in {"take_back", "edit_return", "remove_return"} => d \in Return
        /\ pc[u] = "deliver" => d \in Order
        /\ pc[u] \in {"receive_goods", "set_po_status"} => d \in PurchaseOrder
        /\ pc[u] \in {"new_supplier", "count_purchases", "buy"} => d \in Purchase
        /\ pc[u] \in {"send_back", "send_anew", "remove_send_back"} => d \in PurchaseReturn
        /\ pc[u] \in {"check_components", "set_job", "consume"} => d \in Job
    BY <1>9, StockRequests DEF OnItsWay, Steered, Routed, SaleWays, SaleOps, ReturnWays, OrderWays,
      OrderOps, ProductionWays, ReturnOps
  <2> QED BY <1>3, <1>4, <1>5, <1>6, <1>7, <1>8, <2>1 DEF InHand, AsFound
<1>11. AsWritten(u)'
  <2>1. /\ task[u].op \in SaleOps => d \in Sale
        /\ task[u].op \in {"return", "edit_return"} => d \in Return
        /\ task[u].op = "order_status" => d \in Order
        /\ task[u].op = "po_status" => d \in PurchaseOrder
        /\ task[u].op \in {"purchase", "send_back"} => d \in Purchase \cup PurchaseReturn
        /\ task[u].op = "complete_job" => d \in Job
    BY StockRequests DEF ReturnOps, OrderOps, ProductionOps
  <2>2. IsDocument(d) => Shop(u) \in Shelf BY DocumentsAreStored DEF Shop
  <2>3. d \in Job => ComponentShelf \in Shelf BY DocumentsAreStored
  <2> QED BY <1>2, <1>3, <1>4, <1>5, <1>6, <1>7, <1>8, <2>1, <2>2, <2>3 DEF InHand, AsWritten,
    Writing, IsDocument, Shop
<1> QED BY <1>10, <1>11 DEF InHand

\* What a step has to show for the invariant: that of its own request.
LEMMA StockByOne ==
    ASSUME Base, StockInv, Watch, NEW t \in Tx, NEW T, Frame(t, T), OthersKept(t),
           Steered(t)', OwnRows(t, pending[t])', CleanBefore(t)',
           Apart({source[t]})' => Settled(source[t])',
           (Running(t)' /\ Apart({source[t]})') => InHand(t)',
           StockStays \/ pc'[t] # pc[t]
    PROVE  StockInv'
<1> USE DEF Frame
<1>1. Tasks' /\ UNCHANGED <<task, source>> BY DEF StockInv, Tasks
<1>2. \A p \in Shelf : DOMAIN committed'[Stock(p)] = Source BY DEF OthersKept
<1>3. ASSUME NEW u \in Tx, u # t
      PROVE  Steered(u)' /\ OwnRows(u, pending[u])' /\ CleanBefore(u)'
  <2>1. Steered(u)' /\ CleanBefore(u)' BY <1>3 DEF StockInv, Steered, Routed, CleanBefore, Clean
  <2>2. OwnRows(u, pending[u]) /\ \A r \in DOMAIN pending[u] : r \in Row => committed'[r] = committed[r]
    BY <1>3 DEF StockInv
  <2>3. OwnRows(u, pending[u])' BY <1>3, <2>2 DEF OwnRows, OnlyItsOwn
  <2> QED BY <2>1, <2>3
<1>4. ASSUME NEW d \in Source, Apart({d})'
      PROVE  Settled(d)'
  <2>1. Settled(d) BY <1>1, <1>4, ApartBefore DEF StockInv
  <2> QED BY <1>1, <1>4, <2>1, OthersStaySettled
<1>5. ASSUME NEW u \in Tx, Running(u)', Apart({source[u]})'
      PROVE  InHand(u)'
  <2>1. CASE u = t BY <1>5, <2>1
  <2>2. CASE u # t
    <3>1. /\ pc'[u] = pc[u] /\ read'[u] = read[u] /\ amount'[u] = amount[u] /\ pending'[u] = pending[u]
          /\ Running(u) /\ Steered(u) /\ Tasks /\ source[u] \in Source
      BY <1>5, <2>2 DEF Running, StockInv, Tasks
    <3>2. InHand(u) BY <1>1, <1>5, <3>1, ApartBefore DEF StockInv
    <3>3. CASE source[u] # source[t]
      <4>1. /\ \A r \in Row :
                  (r[1] \in StockTables \ {"stock"} /\ r[2] = source[u]) => committed'[r] = committed[r]
            /\ \A p \in Shelf : committed'[Stock(p)][source[u]] = committed[Stock(p)][source[u]]
        BY <3>1, <3>3 DEF OthersKept
      <4> QED BY <1>1, <3>1, <3>2, <4>1, SameInHand
    <3>4. CASE StockStays
      <4>1. /\ \A r \in Row : r[1] \in StockTables \ {"stock"} => committed'[r] = committed[r]
            /\ \A p \in Shelf : committed'[Stock(p)] = committed[Stock(p)]
        BY <3>4, StockRowsAreRows DEF StockStays, Stock, StockTables
      <4> QED BY <1>1, <3>1, <3>2, <4>1, SameInHand
    <3>5. CASE source[u] = source[t] /\ pc'[t] # pc[t] BY <1>1, <1>5, <2>2, <3>1, <3>5, Meets
    <3> QED BY <3>3, <3>4, <3>5
  <2> QED BY <2>1, <2>2
<1> QED BY <1>1, <1>2, <1>3, <1>4, <1>5 DEF StockInv

\* A step that leaves all that is committed.
LEMMA StockKept ==
    ASSUME Base, StockInv, Watch, NEW t \in Tx, NEW T, Frame(t, T), StockStays,
           Steered(t)', OwnRows(t, pending[t])', CleanBefore(t)',
           (Running(t)' /\ Apart({source[t]})) => InHand(t)'
    PROVE  StockInv' /\ OthersKept(t)
<1>1. OthersKept(t) BY StockStaysForOthers
<1>2. UNCHANGED source /\ source[t] \in Source BY DEF Frame, StockInv, Tasks
<1>3. Apart({source[t]})' => Apart({source[t]}) BY <1>2, ApartBefore
<1>4. ASSUME Apart({source[t]}), NEW d \in Source, d = source[t]
      PROVE  Settled(d)'
  <2>1. Settled(d) BY <1>2, <1>4 DEF StockInv
  <2>2. \A p \in Shelf : committed'[Stock(p)] = committed[Stock(p)]
    BY StockRowsAreRows DEF StockStays, Stock, StockTables
  <2>3. \A r \in Row : (r[1] \in StockTables \ {"stock"} /\ r[2] = d) => committed'[r] = committed[r]
    BY DEF StockStays
  <2> QED BY <2>1, <2>2, <2>3, SameSettled DEF Frame
<1> QED BY <1>1, <1>2, <1>3, <1>4, StockByOne

\* A step that drops all that was written.
LEMMA StockDrops ==
    ASSUME Base, StockInv, Watch, NEW t \in Tx, NEW T, Frame(t, T), Dropped(t), pc'[t] \in Done
    PROVE  StockInv' /\ StockStays /\ OthersKept(t)
<1>1. StockStays BY DEF Dropped, StockStays
<1>2. OwnRows(t, pending[t])' /\ CleanBefore(t)' BY DEF Dropped, OwnRows, CleanBefore, Clean
<1>3. Steered(t)' /\ ~Running(t)' BY DEF Done, Steered, Routed, Running
<1> QED BY <1>1, <1>2, <1>3, StockKept

\* A step that commits what was written, and some rows more.
LEMMA StockPublished ==
    ASSUME Base, StockInv, Watch, NEW t \in Tx, NEW T, Frame(t, T), NEW rows, OwnRows(t, rows),
           \A r \in Row : IF r \in DOMAIN rows THEN committed'[r] = rows[r]
                          ELSE committed'[r] \in {committed[r], Sees(t, r)},
           Clean(t)', pc[t] \notin Done, pc'[t] \in Done,
           Apart({source[t]}) => Settled(source[t])'
    PROVE  StockInv' /\ OthersKept(t)
<1>1. ASSUME NEW r \in Row, r[1] \in StockTables \ {"stock"}, r[2] # source[t]
      PROVE  committed'[r] = committed[r]
  <2>1. r \notin DOMAIN rows /\ r \notin DOMAIN pending[t] BY <1>1 DEF OwnRows, StockInv
  <2> QED BY <2>1 DEF Sees
<1>2. ASSUME NEW p \in Shelf
      PROVE  OnlyItsOwn(t, Stock(p), committed'[Stock(p)])
  <2>1. Stock(p) \in Row /\ Stock(p)[1] \in StockTables /\ Stock(p)[1] = "stock"
    BY StockRowsAreRows DEF Stock, StockTables
  <2>2. OnlyItsOwn(t, Stock(p), Sees(t, Stock(p))) /\ OnlyItsOwn(t, Stock(p), committed[Stock(p)])
    BY StockIsSeen DEF StockInv, OnlyItsOwn
  <2> QED BY <2>1, <2>2 DEF OwnRows
<1>3. OthersKept(t) BY <1>1, <1>2 DEF OthersKept, OnlyItsOwn
<1>4. OwnRows(t, pending[t])' /\ CleanBefore(t)' BY DEF OwnRows, CleanBefore, Clean
<1>5. Steered(t)' /\ ~Running(t)' BY DEF Done, Steered, Routed, Running
<1>6. pc'[t] # pc[t] \/ StockStays OBVIOUS
<1>7. Apart({source[t]})' => Apart({source[t]}) BY ApartBefore DEF Frame
<1> QED BY <1>3, <1>4, <1>5, <1>6, <1>7, StockByOne

\* A step of a service that keeps no stock.
LEMMA StockUnserved ==
    ASSUME Base, StockInv, Watch, NEW t \in Tx, NEW T, NEW Ops, NEW Ways, Foot(t, T, Ops, Ways),
           Routed(t, Ops, Ways), Ops \cap StockOps = {}, T \cap StockTables = {},
           Ways \cap (SaleWays \cup ReturnWays \cup OrderWays \cup PurchasingWays \cup ProductionWays) = {}
    PROVE  StockInv' /\ StockStays
<1>1. task[t].op \notin StockOps /\ Frame(t, T) /\ pc'[t] \in Onwards(Ways) BY DEF Foot, From, Routed
<1>2. Clean(t) /\ Spares(t, StockTables) BY <1>1, FrameSpares DEF StockInv, CleanBefore
<1>3. StockStays BY <1>2 DEF Spares, Clean, Sees, StockStays
<1>4. Clean(t)' BY <1>2 DEF Spares, Clean
<1>5. Steered(t)'
  BY <1>1 DEF Steered, Routed, Onwards, Done, SaleWays, ReturnWays, OrderWays, PurchasingWays,
    ProductionWays
<1>6. InHand(t)'
  <2>1. AsFound(t)' BY <1>1 DEF AsFound, Onwards, Done, SaleWays, ReturnWays, OrderWays, PurchasingWays,
      ProductionWays
  <2>2. AsWritten(t)'
    BY <1>1 DEF Frame, AsWritten, StockOps, SaleOps, ReturnOps, OrderOps, PurchasingOps, ProductionOps
  <2> QED BY <2>1, <2>2 DEF InHand
<1>7. OwnRows(t, pending[t])' /\ CleanBefore(t)' BY <1>4 DEF OwnRows, CleanBefore, Clean
<1> QED BY <1>1, <1>3, <1>5, <1>6, <1>7, StockKept

\* Posting writes no stock, and what was written of it stays.
LEMMA StockPosted ==
    ASSUME Base, StockInv, Watch, NEW t \in Tx, PostingFoot(t)
    PROVE  StockInv' /\ StockStays
<1>1. Frame(t, PostingTables) /\ committed' = committed /\ UNCHANGED <<task, source>>
  BY DEF PostingFoot, Frame
<1>2. StockStays BY <1>1 DEF StockStays
<1>3. CASE pc'[t] = "number_taken" /\ Dropped(t) BY <1>1, <1>2, <1>3, StockDrops DEF Done
<1>4. CASE pc'[t] \in {"rule", "increment", "voucher", "commit"} /\ Kept(t, PostingTables)
  <2>1. pc[t] \in Posting /\ Steered(t)' BY <1>4 DEF PostingFoot, Steered, Routed
  <2>2. \A r : r[1] \in StockTables =>
           /\ r \in DOMAIN pending'[t] <=> r \in DOMAIN pending[t]
           /\ r \in DOMAIN pending[t] => pending'[t][r] = pending[t][r]
    BY <1>4 DEF Kept, PostingTables, StockTables
  <2>3. OwnRows(t, pending[t])' BY <1>1, <2>2 DEF StockInv, OwnRows, OnlyItsOwn
  <2>4. CleanBefore(t)'
    BY <1>1, <1>4, <2>1, <2>2 DEF StockInv, CleanBefore, Clean, Posting, Done, BeforeWriting
  <2>5. \A r : r[1] \in StockTables => Sees(t, r)' = Sees(t, r) BY <1>1, <2>2 DEF Sees
  <2>6. Running(t) /\ Writing(t) /\ Writing(t)' /\ pc[t] # "insert_return" /\ pc'[t] # "insert_return"
    BY <1>4, <2>1 DEF Posting, Running, Writing, BeforeWriting, Done
  <2>7. ASSUME Apart({source[t]})
        PROVE  InHand(t)'
    <3>1. AsWritten(t) BY <2>6, <2>7 DEF StockInv, InHand
    <3>2. /\ \A p : Slot(t, p)' = Slot(t, p) /\ Settling(t, p)' = Settling(t, p)
          /\ SeenPlaces(t)' = SeenPlaces(t) /\ ShelvesOf(source[t])' = ShelvesOf(source[t])
      BY <1>1, <2>5 DEF Slot, Settling, Stock, StockTables, SeenPlaces, ShelvesOf, Edited
    <3>3. /\ SeenItems(t, source[t])' = SeenItems(t, source[t])
          /\ SeenReturn(t)' = SeenReturn(t) /\ SeenUnits(t)' = SeenUnits(t)
      BY <1>1, <2>5 DEF SeenItems, SeenReturn, SeenUnits, Items, Returned, BoughtUnits, StockTables
    <3>4. AsWritten(t)' BY <1>1, <2>6, <3>1, <3>2, <3>3 DEF AsWritten, Shop, OrderOf
    <3>5. AsFound(t)' BY <1>4 DEF AsFound
    <3> QED BY <3>4, <3>5 DEF InHand
  <2> QED BY <1>1, <1>2, <2>1, <2>3, <2>4, <2>7, StockKept
<1> QED BY <1>1, <1>3, <1>4 DEF PostingFoot

LEMMA StockElsewhereStep ==
    ASSUME Base, StockInv, NEW t \in Tx, Footprint(t), Watch,
           ~SaleStep(t), ~ReturnStep(t), ~OrderStep(t), ~PurchasingStep(t), ~ProductionStep(t)
    PROVE  StockInv' /\ StockStays
<1>1. Elsewhere(t, {"sell", "take_back", "deliver", "buy", "consume"}) BY Services
<1>2. ASSUME NEW T, NEW O, NEW W, IsService(T, O, W), Foot(t, T, O, W),
             {"sell", "take_back", "deliver", "buy", "consume"} \cap W = {}
      PROVE  StockInv' /\ StockStays
  BY <1>2, StockUnserved, ServicesApart, ServiceRouted DEF Base
<1>3. CASE PostingFoot(t) BY <1>3, StockPosted
<1>4. CASE pc'[t] = "failed" /\ Frame(t, {}) /\ Dropped(t) BY <1>4, StockDrops DEF Done
<1> QED BY <1>1, <1>2, <1>3, <1>4 DEF Elsewhere

-----------------------------------------------------------------------------
(* What a step of a service that moves stock has to show.                    *)

\* After a write a request sees what it wrote.
LEMMA WritesSeen ==
    ASSUME Base, NEW t \in Tx, NEW rows, NEW s, Writes(t, rows, s)
    PROVE  /\ \E T : Frame(t, T)
           /\ pc'[t] = s /\ UNCHANGED <<read, committed, task, source>>
           /\ DOMAIN pending'[t] = DOMAIN pending[t] \cup DOMAIN rows
           /\ \A r \in DOMAIN pending'[t] :
                 pending'[t][r] = IF r \in DOMAIN rows THEN rows[r] ELSE pending[t][r]
           /\ \A r : Sees(t, r)' = IF r \in DOMAIN rows THEN rows[r] ELSE Sees(t, r)
<1> DEFINE T == {r[1] : r \in DOMAIN rows}
<1>1. InTables(rows, T) BY DEF InTables
<1> HIDE DEF T
<1>2. /\ Frame(t, T) /\ pc'[t] = s /\ UNCHANGED <<read, committed>>
      /\ DOMAIN pending'[t] = DOMAIN pending[t] \cup DOMAIN rows
      /\ \A r \in DOMAIN rows : pending'[t][r] = rows[r]
      /\ \A r \in DOMAIN pending[t] : r \notin DOMAIN rows => pending'[t][r] = pending[t][r]
  BY <1>1, WritesFrame DEF Base
<1> QED BY <1>2 DEF Frame, Sees

LEMMA StockWritten ==
    ASSUME Base, StockInv, Watch, NEW t \in Tx, NEW rows, NEW s, Writes(t, rows, s), OwnRows(t, rows),
           (s \notin BeforeWriting \cup Done /\ task[t].op \in StockOps)
              \/ (Clean(t) /\ \A r \in DOMAIN rows : r[1] \notin StockTables),
           Steered(t)', Apart({source[t]}) => InHand(t)'
    PROVE  StockInv' /\ OthersKept(t)
<1>1. PICK T : Frame(t, T) BY WritesSeen
<1>2. /\ pc'[t] = s /\ UNCHANGED <<committed, task, source>>
      /\ DOMAIN pending'[t] = DOMAIN pending[t] \cup DOMAIN rows
      /\ \A r \in DOMAIN pending'[t] :
            pending'[t][r] = IF r \in DOMAIN rows THEN rows[r] ELSE pending[t][r]
  BY WritesSeen
<1>3. StockStays BY <1>2 DEF StockStays
<1>4. OwnRows(t, pending[t])' BY <1>2 DEF StockInv, OwnRows, OnlyItsOwn
<1>5. CleanBefore(t)' BY <1>2 DEF CleanBefore, Clean
<1> QED BY <1>1, <1>3, <1>4, <1>5, StockKept

\* A read, by a request that has written nothing of these tables or goes on as it was.
LEMMA StockRead ==
    ASSUME Base, StockInv, Watch, NEW t \in Tx, NEW v, NEW n, NEW s,
           Reads(t, v, s) \/ ReadsToPost(t, v, n, s),
           Clean(t) \/ (s \notin BeforeWriting \cup Done /\ task[t].op \in StockOps),
           Steered(t)', Apart({source[t]}) => InHand(t)'
    PROVE  StockInv' /\ OthersKept(t)
<1>1. Frame(t, {}) /\ pc'[t] = s /\ UNCHANGED dbVars BY ReadsFrame DEF Base
<1>2. StockStays /\ UNCHANGED <<committed, pending, task, source>> BY <1>1 DEF StockStays, dbVars, Frame
<1>3. OwnRows(t, pending[t])' /\ CleanBefore(t)'
  BY <1>1, <1>2 DEF StockInv, OwnRows, OnlyItsOwn, CleanBefore, Clean
<1> QED BY <1>1, <1>2, <1>3, StockKept

LEMMA StockThrown ==
    ASSUME Base, StockInv, Watch, NEW t \in Tx, NEW outcome \in Done, Throws(t, outcome)
    PROVE  StockInv' /\ OthersKept(t)
  BY ThrowsFrame, StockDrops DEF Base

LEMMA StockCommitted ==
    ASSUME Base, StockInv, Watch, NEW t \in Tx, NEW rows, OwnRows(t, rows),
           Ends(t, rows) \/ (Clean(t) /\ Stores(t, rows, "committed")), pc[t] \notin Done,
           Apart({source[t]}) => Settled(source[t])'
    PROVE  StockInv' /\ OthersKept(t)
<1> DEFINE T == {r[1] : r \in DOMAIN rows}
<1>1. InTables(rows, T) BY DEF InTables
<1> HIDE DEF T
<1>2. CASE Ends(t, rows)
  <2>1. /\ Frame(t, T) /\ pc'[t] = "committed" /\ Published(t, T)
        /\ \A r \in Row : committed'[r] = IF r \in DOMAIN rows THEN rows[r] ELSE Sees(t, r)
    BY <1>1, <1>2, CommitsFrame DEF Base, Ends
  <2>2. Clean(t)' BY <2>1 DEF Published, Clean
  <2> QED BY <2>1, <2>2, StockPublished DEF Done
<1>3. CASE Clean(t) /\ Stores(t, rows, "committed")
  <2>1. /\ Frame(t, T) /\ pc'[t] = "committed" /\ pending' = pending
        /\ \A r \in Row : committed'[r] = IF r \in DOMAIN rows THEN rows[r] ELSE committed[r]
    BY <1>1, <1>3, StoresFrame DEF Base
  <2>2. Clean(t)' BY <1>3, <2>1 DEF Clean
  <2> QED BY <2>1, <2>2, StockPublished DEF Done
<1> QED BY <1>2, <1>3

\* What is committed then.
LEMMA EndsAsSeen ==
    ASSUME Base, NEW t \in Tx, NEW rows, Ends(t, rows) \/ (Clean(t) /\ Stores(t, rows, "committed"))
    PROVE  /\ UNCHANGED <<task, source>>
           /\ \A r \in Row : r[1] \in StockTables =>
                 committed'[r] = IF r \in DOMAIN rows THEN rows[r] ELSE Sees(t, r)
  BY CleanSees DEF Ends, CommitsTo, Stores, Autocommit, locals

\* Only a row of a shelf, and rows of its document, of these tables.
LEMMA OwnShelf ==
    ASSUME StockInv, NEW t \in Tx, NEW p \in Shelf, NEW delta, NEW rows,
           \A r \in DOMAIN rows :
              \/ r = Stock(p) /\ rows[r] = Moved(t, p, delta)
              \/ r[1] \in StockTables \ {"stock"} /\ r[2] = source[t]
              \/ r[1] \notin StockTables
    PROVE  OwnRows(t, rows)
  BY MovedIsItsOwn DEF OwnRows, Stock

\* The place of a document on its shelf, and what its request sees of it.
LEMMA PlaceIsSeen ==
    ASSUME NEW t \in Tx, Clean(t)
    PROVE  /\ Slot(t, Shop(t)) = MovedBy(source[t])
           /\ \A p : Slot(t, p) = Settling(t, p)
           /\ SeenPlaces(t) = PlacesOf(source[t])
  BY DEF Clean, Slot, Settling, Sees, Stock, StockTables, Shop, MovedBy, SeenPlaces, PlacesOf

\* What places add up to changes as one of them does.
LEMMA AddUpMore ==
    ASSUME NEW f, NEW n, NEW S, AddUp(f, n, S), NEW y \in Shelf \cap S, NEW delta \in Int
    PROVE  AddUp([f EXCEPT ![y] = @ + delta], n + delta, S)
<1> DEFINE g == [f EXCEPT ![y] = @ + delta]
<1>1. /\ f \in [Shelf -> Int] /\ g \in [Shelf -> Int] /\ g[y] = f[y] + delta
      /\ \A x \in Shelf : x # y => g[x] = f[x]
  BY DEF AddUp
<1> HIDE DEF g
<1>2. Total(g, Shelf) = Total(f, Shelf) - f[y] + g[y] /\ Total(f, Shelf) \in Int
  BY <1>1, TotalChanges, FiniteAssumption
<1>3. SumFunction(f) = Total(f, Shelf) /\ SumFunction(g) = Total(g, Shelf) BY <1>1, SumIsTotal
<1>4. SumFunction(g) = n + delta BY <1>1, <1>2, <1>3 DEF AddUp
<1>5. AddUp(g, n + delta, S) BY <1>1, <1>4 DEF AddUp
<1> QED BY <1>5 DEF g

\* A sale or return moves stock on its own shelves alone.
LEMMA ShopsOfItsOwn ==
    ASSUME Tasks, NEW t \in Tx
    PROVE  /\ task[t].op \in {"sale", "return", "remove_return"} => Shop(t) \in Shelf \cap ShelvesOf(source[t])
           /\ task[t].op \in Edits => EditShop(t) \in Shelf \cap ShelvesOf(source[t])
<1>1. task[t].op \in SaleOps \cup ReturnOps => source[t] \in Sale \cup Return BY StockRequests
<1> QED BY <1>1, DocumentsAreStored DEF SaleOps, ReturnOps, IsDocument, Shop, EditShop, ShelvesOf, Edits,
  Edited

\* So what it has moved in all changes by what it moves on one of them.
LEMMA PlacesMove ==
    ASSUME StockInv, NEW t \in Tx, UNCHANGED <<task, source>>,
           NEW n, AddUp(SeenPlaces(t), n, ShelvesOf(source[t])),
           NEW p \in Shelf \cap ShelvesOf(source[t]), NEW delta \in Int,
           NEW rows, Stock(p) \in DOMAIN rows, rows[Stock(p)] = Moved(t, p, delta),
           \A r \in DOMAIN rows : r = Stock(p) \/ r[1] # "stock"
    PROVE  /\ (\A r : Sees(t, r)' = IF r \in DOMAIN rows THEN rows[r] ELSE Sees(t, r))
                 => AddUp(SeenPlaces(t), n + delta, ShelvesOf(source[t]))'
           /\ (\A r \in Row : r[1] \in StockTables =>
                   committed'[r] = IF r \in DOMAIN rows THEN rows[r] ELSE Sees(t, r))
                 => AddUp(PlacesOf(source[t]), n + delta, ShelvesOf(source[t]))'
<1> DEFINE places == [SeenPlaces(t) EXCEPT ![p] = @ + delta]
<1>1. AddUp(places, n + delta, ShelvesOf(source[t])) BY AddUpMore
<1>2. ShelvesOf(source[t])' = ShelvesOf(source[t]) BY DEF ShelvesOf, Edited
<1>3. \A q \in Shelf : /\ Stock(q) \in Row /\ Stock(q)[1] = "stock" /\ Stock(q)[1] \in StockTables
                       /\ Stock(q) \in DOMAIN rows <=> q = p
  BY StockRowsAreRows DEF Stock, StockTables
<1>4. places = [q \in Shelf |-> IF q = p THEN Moved(t, p, delta)[source[t]] ELSE Slot(t, q)]
  BY MovedIsItsOwn DEF SeenPlaces
<1> HIDE DEF places
<1>5. ASSUME \A r : Sees(t, r)' = IF r \in DOMAIN rows THEN rows[r] ELSE Sees(t, r)
      PROVE  SeenPlaces(t)' = places
  BY <1>3, <1>4, <1>5 DEF SeenPlaces, Slot
<1>6. ASSUME \A r \in Row : r[1] \in StockTables =>
                committed'[r] = IF r \in DOMAIN rows THEN rows[r] ELSE Sees(t, r)
      PROVE  PlacesOf(source[t])' = places
  BY <1>3, <1>4, <1>6 DEF PlacesOf, Slot
<1> QED BY <1>1, <1>2, <1>5, <1>6

LEMMA PlacesCommitted ==
    ASSUME NEW t \in Tx, UNCHANGED <<task, source>>,
           \A r \in Row : r[1] \in StockTables => committed'[r] = Sees(t, r)
    PROVE  PlacesOf(source[t])' = SeenPlaces(t) /\ ShelvesOf(source[t])' = ShelvesOf(source[t])
<1>1. \A p \in Shelf : committed'[Stock(p)] = Sees(t, Stock(p)) BY StockRowsAreRows DEF Stock, StockTables
<1> QED BY <1>1 DEF PlacesOf, SeenPlaces, Slot, ShelvesOf, Edited

LEMMA StockSaleStep ==
    ASSUME Base, StockInv, Watch, NEW t \in Tx, Footprint(t), SaleStep(t)
    PROVE  StockInv' /\ OthersKept(t)
<1> DEFINE d == source[t]
<1>0. OnItsWay(t) /\ Steered(t) /\ Tasks /\ CleanBefore(t) /\ pc[t] \notin Done
  BY DoneIsDone DEF Base, StockInv
<1>1. ASSUME task[t].op \in SaleOps
      PROVE  d \in Sale /\ task[t].n \in Int /\ d \in Source /\ Items(d) \in Row
  <2>1. d \in Sale /\ task[t].n \in Int BY <1>0, <1>1, StockRequests
  <2> QED BY <2>1, DocumentsAreStored, StockRowsAreRows DEF IsDocument
<1>2. pc[t] \in SaleWays \/ task[t].op \in SaleOps => task[t].op \in SaleOps BY <1>0 DEF OnItsWay, Routed
<1>3. ASSUME task[t].op \in SaleOps, Apart({d})
      PROVE  SoldAsMoved(d)
  BY <1>1, <1>3 DEF StockInv, Settled
<1>4. ASSUME Running(t), Apart({d})
      PROVE  AsFound(t) /\ AsWritten(t)
  BY <1>4 DEF StockInv, InHand
<1>5. Clean(t) => Sees(t, Items(d)) = committed[Items(d)] BY CleanSees DEF Items, StockTables
<1>6. ASSUME NEW outcome \in Done, Throws(t, outcome)
      PROVE  StockInv' /\ OthersKept(t)
  BY <1>6, StockThrown
\* A statement that writes no stock, after the first that did.
<1>7. ASSUME pc[t] \in {"serial", "register", "book"}, NEW rows, NEW s \in {"register", "book", "post"},
             \/ Writes(t, rows, s) /\ \A r \in DOMAIN rows : r[1] \notin StockTables
             \/ \E v : Reads(t, v, s)
      PROVE  StockInv' /\ OthersKept(t)
  <2>1. /\ UNCHANGED <<committed, task, source>> /\ pc'[t] = s
        /\ \A r : r[1] \in StockTables => Sees(t, r)' = Sees(t, r)
    <3>1. CASE Writes(t, rows, s) /\ \A r \in DOMAIN rows : r[1] \notin StockTables BY <3>1, WritesSeen
    <3>2. CASE \E v : Reads(t, v, s) BY <3>2, ReadsTo DEF Base, dbVars, Sees
    <3> QED BY <1>7, <3>1, <3>2
  <2>2. Steered(t)' BY <1>7, <2>1 DEF Steered, Routed
  <2>3. task[t].op \in SaleOps BY <1>2, <1>7 DEF SaleWays
  <2>4. s \notin BeforeWriting \cup Done BY <1>7 DEF BeforeWriting, Done
  <2>5. ASSUME Apart({d})
        PROVE  InHand(t)'
    <3>1. AsWritten(t) BY <1>4, <1>7, <2>5 DEF Running, Done
    <3>2. /\ SeenItems(t, d)' = SeenItems(t, d) /\ SeenPlaces(t)' = SeenPlaces(t)
          /\ ShelvesOf(d)' = ShelvesOf(d)
      BY <2>1 DEF SeenItems, SeenPlaces, Slot, Items, Stock, StockTables, ShelvesOf, Edited
    <3>3. AsWritten(t)' BY <1>7, <2>1, <2>3, <3>1, <3>2 DEF AsWritten, Writing, BeforeWriting, Done, SaleOps
    <3> QED BY <1>7, <2>1, <3>3 DEF InHand, AsFound
  <2>6. CASE Writes(t, rows, s) /\ \A r \in DOMAIN rows : r[1] \notin StockTables
    BY <2>2, <2>3, <2>4, <2>5, <2>6, StockWritten DEF OwnRows, StockOps
  <2>7. CASE \E v : Reads(t, v, s) BY <2>2, <2>3, <2>4, <2>5, <2>7, StockRead DEF StockOps
  <2> QED BY <1>7, <2>6, <2>7
<1>8. CASE PreviewSale(t)
  <2> DEFINE value == Redeemable(SeenCustomer(t).points, task[t].points, task[t].n)
             sum == task[t].n - value.discount
  <2>1. /\ ReadsToPost(t, value, sum, "sell") /\ pc[t] = "idle" /\ SeenItems(t, d) = NoItems
        /\ task[t].op = "sale"
    BY <1>8 DEF PreviewSale, At
  <2> HIDE DEF value, sum
  <2>2. pc'[t] = "sell" /\ Clean(t) /\ UNCHANGED <<committed, task, source>>
    BY <1>0, <2>1, ReadsFrame DEF Base, CleanBefore, BeforeWriting, dbVars, ReadsToPost
  <2>3. committed'[Items(d)].n = 0 BY <1>5, <2>1, <2>2 DEF NoItems, SeenItems
  <2>4. Steered(t)' /\ InHand(t)'
    BY <2>1, <2>2, <2>3 DEF Steered, Routed, InHand, AsFound, AsWritten, Writing, BeforeWriting, SoldBy
  <2> QED BY <2>1, <2>2, <2>4, StockRead
\* The statement that moves the stock: then it agrees with the new items.
<1>9. ASSUME pc[t] \in {"sell", "edit_sale"}, NEW p \in Shelf \cap ShelvesOf(d), NEW delta, NEW rows,
             NEW s \in {"book", "serial", "edit_total"}, Writes(t, rows, s), Stock(p) \in DOMAIN rows,
             Items(d) \in DOMAIN rows, rows[Items(d)] = [by |-> t, n |-> task[t].n],
             rows[Stock(p)] = Moved(t, p, delta),
             \A r \in DOMAIN rows : r \in {Items(d), Stock(p)} \/ r[1] \notin StockTables,
             SoldAsMoved(d) /\ AsFound(t) => delta \in Int /\ -SoldBy(d) + delta = -task[t].n
      PROVE  StockInv' /\ OthersKept(t)
  <2>1. task[t].op \in SaleOps /\ Clean(t) BY <1>0, <1>2, <1>9 DEF SaleWays, CleanBefore, BeforeWriting
  <2>2. Items(d)[1] = "items" /\ Items(d)[2] = d BY DEF Items
  <2>3. OwnRows(t, rows) BY <1>9, <2>2, OwnShelf DEF StockTables
  <2>4. /\ pc'[t] = s /\ UNCHANGED <<committed, task, source>>
        /\ \A r : Sees(t, r)' = IF r \in DOMAIN rows THEN rows[r] ELSE Sees(t, r)
    BY <1>9, WritesSeen
  <2>5. Steered(t)' BY <1>9, <2>4 DEF Steered, Routed
  <2>6. ASSUME Apart({d})
        PROVE  InHand(t)'
    <3>1. SoldAsMoved(d) /\ AsFound(t) BY <1>3, <1>4, <1>9, <2>1, <2>6 DEF Running, Done
    <3>2. AddUp(SeenPlaces(t), -SoldBy(d), ShelvesOf(d)) BY <2>1, <3>1, PlaceIsSeen DEF SoldAsMoved
    <3>3. \A r \in DOMAIN rows : r = Stock(p) \/ r[1] # "stock" BY <1>9, <2>2 DEF StockTables
    <3>4. delta \in Int /\ -SoldBy(d) + delta = -task[t].n BY <1>9, <3>1
    <3>5. AddUp(SeenPlaces(t)', -task[t].n, ShelvesOf(d)') BY <1>9, <2>4, <3>2, <3>3, <3>4, PlacesMove
    <3>6. SeenItems(t, d)' = [by |-> t, n |-> task[t].n] BY <1>9, <2>4 DEF SeenItems
    <3>7. AsWritten(t)' BY <1>1, <2>1, <2>4, <3>5, <3>6 DEF AsWritten, SaleOps
    <3> QED BY <1>9, <2>4, <3>7 DEF InHand, AsFound
  <2> QED BY <1>9, <2>1, <2>3, <2>5, <2>6, StockWritten DEF BeforeWriting, Done, StockOps
<1>9a. CASE Sell(t)
  <2> DEFINE p == Shop(t)
             rows == Items(source[t]) :> [by |-> t, n |-> task[t].n]
                        @@ TotalAmount(source[t]) :> amount[t]
                        @@ Stock(Shop(t)) :> Moved(t, Shop(t), -task[t].n)
             next == IF task[t].serial = NoSerial THEN "book" ELSE "serial"
  <2>1. Writes(t, rows, next) /\ pc[t] = "sell" /\ next \in {"book", "serial"} BY <1>9a DEF Sell
  <2>2. /\ DOMAIN rows = {Items(d), TotalAmount(d), Stock(p)} /\ rows[Stock(p)] = Moved(t, p, -task[t].n)
        /\ rows[Items(d)] = [by |-> t, n |-> task[t].n] /\ TotalAmount(d)[1] \notin StockTables
    BY DEF :>, @@, Items, TotalAmount, Stock, StockTables
  <2>3. p \in Shelf \cap ShelvesOf(d) /\ task[t].n \in Int
    BY <1>0, <1>1, <2>1, ShopsOfItsOwn DEF Steered, Routed, SaleOps
  <2>4. AsFound(t) => -task[t].n \in Int /\ -SoldBy(d) + (-task[t].n) = -task[t].n BY <2>1, <2>3 DEF AsFound
  <2> HIDE DEF rows, next, p
  <2> QED BY <1>9, <2>1, <2>2, <2>3, <2>4
<1>10. CASE SellShort(t) BY <1>6, <1>10 DEF SellShort, Shortage, Done
<1>11. CASE CheckSerial(t) BY <1>6, <1>7, <1>11 DEF CheckSerial, Done
<1>12. CASE RegisterSerial(t)
  <2> DEFINE rows == Serial(task[t].serial) :> [status |-> "SOLD", sale |-> source[t]]
  <2>1. Writes(t, rows, "book") /\ pc[t] = "register" BY <1>12 DEF RegisterSerial
  <2>2. \A r \in DOMAIN rows : r[1] \notin StockTables BY DEF :>, Serial, StockTables
  <2> HIDE DEF rows
  <2> QED BY <1>7, <2>1, <2>2
<1>13. CASE SerialExists(t) BY <1>6, <1>13 DEF SerialExists, Done
<1>14. CASE BookSale(t)
  <2> DEFINE rows == SaleBooked(t, amount[t], read[t].points)
  <2>1. Writes(t, rows, "post") /\ pc[t] = "book" BY <1>14 DEF BookSale
  <2>2. \A r \in DOMAIN rows : r[1] \notin StockTables
    BY DEF SaleBooked, :>, @@, Customer, Entry, StockTables
  <2> HIDE DEF rows
  <2> QED BY <1>7, <2>1, <2>2
\* The statement that ends the request.
<1>15. ASSUME task[t].op \in SaleOps, pc[t] \in {"commit", "edit_total"}, NEW rows, Ends(t, rows),
              \A r \in DOMAIN rows : r[1] \notin StockTables
       PROVE  StockInv' /\ OthersKept(t)
  <2>1. /\ UNCHANGED <<task, source>>
        /\ \A r \in Row : r[1] \in StockTables => committed'[r] = Sees(t, r)
    BY <1>15, EndsAsSeen
  <2>2. ASSUME Apart({d})
        PROVE  Settled(d)'
    <3>1. AsWritten(t) BY <1>4, <1>15, <2>2 DEF Running, Done
    <3>2. committed'[Items(d)] = SeenItems(t, d) BY <1>1, <1>15, <2>1 DEF Items, StockTables, SeenItems
    <3>3. PlacesOf(d)' = SeenPlaces(t) /\ ShelvesOf(d)' = ShelvesOf(d) BY <2>1, PlacesCommitted
    <3>4. SoldAsMoved(d)'
      BY <1>15, <2>1, <3>1, <3>2, <3>3 DEF AsWritten, Writing, BeforeWriting, Done, SoldAsMoved, SoldBy
    <3> QED BY <1>1, <1>15, <2>1, <3>4, KindsAreApart DEF Settled
  <2> QED BY <1>0, <1>15, <2>2, StockCommitted DEF OwnRows
<1>16. CASE FinishSale(t)
  <2>1. Ends(t, << >>) /\ pc[t] = "commit" /\ task[t].op \in SaleOps BY <1>16 DEF FinishSale, At, SaleOps
  <2> QED BY <1>15, <2>1, NoRows
<1>17. CASE ReadSale(t)
  <2> DEFINE value == [n |-> SeenItems(t, source[t]).n, total |-> Sees(t, TotalAmount(source[t]))]
  <2>1. Reads(t, value, "edit_sale") /\ pc[t] = "idle" /\ value.n = SeenItems(t, d).n
        /\ task[t].op = "edit_sale"
    BY <1>17 DEF ReadSale, At
  <2> HIDE DEF value
  <2>2. pc'[t] = "edit_sale" /\ read'[t] = value /\ Clean(t) /\ UNCHANGED <<committed, task, source>>
    BY <1>0, <2>1, ReadsTo DEF Base, CleanBefore, BeforeWriting, dbVars
  <2>3. read'[t].n = committed'[Items(d)].n BY <1>5, <2>1, <2>2 DEF SeenItems
  <2>4. Steered(t)' /\ InHand(t)'
    BY <2>1, <2>2, <2>3 DEF Steered, Routed, InHand, AsFound, AsWritten, Writing, BeforeWriting, SoldBy
  <2> QED BY <2>1, <2>2, <2>4, StockRead
<1>18. CASE ReplaceItems(t)
  <2> DEFINE p == EditShop(t)
             rows == Stock(EditShop(t)) :> Moved(t, EditShop(t), ItemsChanged(t))
                        @@ Items(source[t]) :> [by |-> t, n |-> task[t].n]
  <2>1. Writes(t, rows, "edit_total") /\ pc[t] = "edit_sale" BY <1>18 DEF ReplaceItems
  <2>2. DOMAIN rows = {Items(d), Stock(p)} /\ rows[Stock(p)] = Moved(t, p, ItemsChanged(t))
        /\ rows[Items(d)] = [by |-> t, n |-> task[t].n]
    BY DEF :>, @@, Items, Stock
  <2>3. p \in Shelf \cap ShelvesOf(d) /\ task[t].n \in Int
    BY <1>0, <1>1, <2>1, ShopsOfItsOwn DEF Steered, Routed, SaleOps, Edits
  <2>4. SoldAsMoved(d) /\ AsFound(t) =>
           ItemsChanged(t) \in Int /\ -SoldBy(d) + ItemsChanged(t) = -task[t].n
    BY <2>1, <2>3 DEF AsFound, ItemsChanged, SoldAsMoved
  <2> HIDE DEF rows, p
  <2> QED BY <1>9, <2>1, <2>2, <2>3, <2>4
<1>19. CASE EditShort(t) BY <1>6, <1>19 DEF EditShort, Shortage, Done
<1>20. CASE ItemsHaveReturns(t) BY <1>6, <1>20 DEF ItemsHaveReturns, Done
<1>21. CASE EditTotal(t)
  <2> DEFINE rows == TotalAmount(source[t]) :> task[t].n
                        @@ Customer :> [SeenCustomer(t) EXCEPT !.spent = @ + task[t].n - read[t].total]
  <2>1. Ends(t, rows) /\ pc[t] = "edit_total" /\ task[t].op \in SaleOps
    BY <1>2, <1>21 DEF EditTotal, SaleWays
  <2>2. \A r \in DOMAIN rows : r[1] \notin StockTables BY DEF :>, @@, TotalAmount, Customer, StockTables
  <2> HIDE DEF rows
  <2> QED BY <1>15, <2>1, <2>2
<1> QED BY <1>8, <1>10, <1>11, <1>12, <1>13, <1>14, <1>16, <1>17, <1>18, <1>19, <1>20, <1>21, <1>9a
  DEF SaleStep

LEMMA UnitsAreCounted ==
    ASSUME Tasks, NEW t \in Tx, task[t].op \in {"return", "edit_return"}
    PROVE  Units(t) \in Int
<1> DEFINE lines == task[t].lines
           S == DOMAIN task[t].lines
<1>1. IsFiniteSet(S) /\ lines \in [S -> Int] BY StockRequests
<1>2. Units(t) = Total(lines, S) BY DEF Units, Total
<1> HIDE DEF lines, S
<1> QED BY <1>1, <1>2, TotalTyped

LEMMA StockReturnStep ==
    ASSUME Base, StockInv, Watch, NEW t \in Tx, Footprint(t), ReturnStep(t)
    PROVE  StockInv' /\ OthersKept(t)
<1> DEFINE d == source[t]
<1>0. OnItsWay(t) /\ Steered(t) /\ Tasks /\ CleanBefore(t) /\ pc[t] \notin Done
  BY DoneIsDone DEF Base, StockInv
<1>1. ASSUME task[t].op \in ReturnOps
      PROVE  /\ d \in Return /\ d \in Source /\ Returned(d) \in Row
             /\ Returned(d)[1] = "return" /\ Returned(d)[2] = d
  <2>1. d \in Return BY <1>0, <1>1, StockRequests
  <2> QED BY <2>1, DocumentsAreStored, StockRowsAreRows DEF IsDocument, Returned
<1>2. /\ pc[t] \in {"take_back", "refund"} => task[t].op = "return"
      /\ pc[t] \in {"edit_return", "return_anew"} => task[t].op = "edit_return"
      /\ pc[t] = "remove_return" => task[t].op = "remove_return"
  BY <1>0 DEF Steered, Routed
<1>3. ASSUME task[t].op \in ReturnOps, Apart({d})
      PROVE  ReturnedAsMoved(d)
  BY <1>1, <1>3 DEF StockInv, Settled
<1>4. ASSUME Running(t), Apart({d})
      PROVE  AsFound(t) /\ AsWritten(t)
  BY <1>4 DEF StockInv, InHand
<1>5. Clean(t) => SeenReturn(t) = TakenBackBy(d)
  BY CleanSees DEF Returned, StockTables, SeenReturn, TakenBackBy
<1>6. ASSUME NEW outcome \in Done, Throws(t, outcome)
      PROVE  StockInv' /\ OthersKept(t)
  BY <1>6, StockThrown
<1>7. CASE ReadForReturn(t)
  <2> DEFINE value == SeenItems(t, SaleReturned(t)).by
             sum == Units(t)
  <2>1. ReadsToPost(t, value, sum, "take_back") /\ pc[t] = "idle" /\ SeenReturn(t) = 0
        /\ task[t].op = "return"
    BY <1>7 DEF ReadForReturn, At
  <2> HIDE DEF value, sum
  <2>2. pc'[t] = "take_back" /\ Clean(t) /\ UNCHANGED <<committed, task, source>>
    BY <1>0, <2>1, ReadsFrame DEF Base, CleanBefore, BeforeWriting, dbVars, ReadsToPost
  <2>3. Steered(t)' /\ InHand(t)'
    BY <1>5, <2>1, <2>2 DEF Steered, Routed, InHand, AsFound, AsWritten, Writing, BeforeWriting,
      TakenBackBy
  <2> QED BY <2>1, <2>2, <2>3, StockRead
\* The statement that moves the stock: it agrees with n, which an edit leaves at 0.
<1>8. ASSUME pc[t] \in {"take_back", "edit_return"}, NEW p \in Shelf \cap ShelvesOf(d), NEW delta,
             NEW rows, NEW s \in {"refund", "return_anew"}, Writes(t, rows, s),
             Stock(p) \in DOMAIN rows, rows[Stock(p)] = Moved(t, p, delta),
             \A r \in DOMAIN rows : r \in {Returned(d), Stock(p)} \/ r[1] \notin StockTables,
             NEW n, ReturnedAsMoved(d) /\ AsFound(t) => delta \in Int /\ TakenBackBy(d) + delta = n,
             IF task[t].op = "return" THEN s = "refund" /\ Returned(d) \in DOMAIN rows /\ rows[Returned(d)] = n
             ELSE s = "return_anew" /\ n = 0
      PROVE  StockInv' /\ OthersKept(t)
  <2>1. task[t].op \in {"return", "edit_return"} /\ task[t].op \in ReturnOps /\ Clean(t)
    BY <1>0, <1>2, <1>8 DEF CleanBefore, BeforeWriting, ReturnOps
  <2>2. OwnRows(t, rows) BY <1>1, <1>8, <2>1, OwnShelf DEF StockTables
  <2>3. /\ pc'[t] = s /\ UNCHANGED <<committed, task, source>>
        /\ \A r : Sees(t, r)' = IF r \in DOMAIN rows THEN rows[r] ELSE Sees(t, r)
    BY <1>8, WritesSeen
  <2>4. Steered(t)' BY <1>8, <2>1, <2>3 DEF Steered, Routed
  <2>5. ASSUME Apart({d})
        PROVE  InHand(t)'
    <3>1. ReturnedAsMoved(d) /\ AsFound(t) BY <1>3, <1>4, <1>8, <2>1, <2>5 DEF Running, Done
    <3>2. delta \in Int /\ TakenBackBy(d) + delta = n BY <1>8, <3>1
    <3>3. AddUp(SeenPlaces(t), TakenBackBy(d), ShelvesOf(d)) BY <2>1, <3>1, PlaceIsSeen DEF ReturnedAsMoved
    <3>4. \A r \in DOMAIN rows : r = Stock(p) \/ r[1] # "stock" BY <1>1, <1>8, <2>1 DEF StockTables
    <3>5. AddUp(SeenPlaces(t)', n, ShelvesOf(d)') BY <1>8, <2>3, <3>2, <3>3, <3>4, PlacesMove
    <3>6. task[t].op = "return" => SeenReturn(t)' = n BY <1>8, <2>3 DEF SeenReturn
    <3>7. AsWritten(t)' BY <1>8, <2>1, <2>3, <3>5, <3>6 DEF AsWritten, SaleOps
    <3> QED BY <1>8, <2>3, <3>7 DEF InHand, AsFound
  <2> QED BY <1>8, <2>1, <2>2, <2>4, <2>5, StockWritten DEF BeforeWriting, Done, StockOps
<1>8a. CASE TakeBack(t)
  <2> DEFINE p == Shop(t)
             rows == Stock(Shop(t)) :> Moved(t, Shop(t), Units(t))
                        @@ Returned(source[t]) :> Units(t)
  <2>1. Writes(t, rows, "refund") /\ pc[t] = "take_back" /\ task[t].op = "return"
    BY <1>2, <1>8a DEF TakeBack
  <2>2. DOMAIN rows = {Stock(p), Returned(d)} /\ rows[Stock(p)] = Moved(t, p, Units(t))
        /\ rows[Returned(d)] = Units(t)
    BY DEF :>, @@, Returned, Stock
  <2>3. p \in Shelf \cap ShelvesOf(d) /\ Units(t) \in Int BY <1>0, <2>1, ShopsOfItsOwn, UnitsAreCounted
  <2>4. AsFound(t) => Units(t) \in Int /\ TakenBackBy(d) + Units(t) = Units(t) BY <2>1, <2>3 DEF AsFound
  <2> HIDE DEF rows, p
  <2> QED BY <1>8, <2>1, <2>2, <2>3, <2>4
<1>9. CASE ItemReplaced(t) BY <1>6, <1>9 DEF ItemReplaced, Done
<1>10. CASE Refund(t)
  <2> DEFINE rows == Customer :> [SeenCustomer(t) EXCEPT !.spent = @ - Units(t)]
  <2>1. Writes(t, rows, "post") /\ pc[t] = "refund" /\ task[t].op = "return" BY <1>2, <1>10 DEF Refund
  <2>2. \A r \in DOMAIN rows : r[1] \notin StockTables BY DEF :>, Customer, StockTables
  <2> HIDE DEF rows
  <2>3. /\ pc'[t] = "post" /\ UNCHANGED <<committed, task, source>>
        /\ \A r : r[1] \in StockTables => Sees(t, r)' = Sees(t, r)
    BY <2>1, <2>2, WritesSeen
  <2>4. Steered(t)' /\ OwnRows(t, rows) BY <2>2, <2>3 DEF Steered, Routed, OwnRows
  <2>5. ASSUME Apart({d})
        PROVE  InHand(t)'
    <3>1. AsWritten(t) BY <1>4, <2>1, <2>5 DEF Running, Done
    <3>2. /\ SeenReturn(t)' = SeenReturn(t) /\ SeenPlaces(t)' = SeenPlaces(t)
          /\ ShelvesOf(d)' = ShelvesOf(d)
      BY <2>3 DEF SeenReturn, SeenPlaces, Slot, Returned, Stock, StockTables, ShelvesOf, Edited
    <3>3. AsWritten(t)' BY <2>1, <2>3, <3>1, <3>2 DEF AsWritten, Writing, BeforeWriting, Done, SaleOps
    <3> QED BY <2>3, <3>3 DEF InHand, AsFound
  <2> QED BY <2>1, <2>4, <2>5, StockWritten DEF BeforeWriting, Done, StockOps, ReturnOps
<1>11. CASE FinishReturn(t)
  <2>1. Ends(t, << >>) /\ pc[t] = "commit" /\ task[t].op = "return" BY <1>11 DEF FinishReturn, At
  <2>2. /\ UNCHANGED <<task, source>>
        /\ \A r \in Row : r[1] \in StockTables => committed'[r] = Sees(t, r)
    BY <2>1, EndsAsSeen, NoRows
  <2>3. d \in Return /\ Returned(d) \in Row BY <1>1, <2>1 DEF ReturnOps
  <2>4. ASSUME Apart({d})
        PROVE  Settled(d)'
    <3>1. AsWritten(t) BY <1>4, <2>1, <2>4 DEF Running, Done
    <3>2. committed'[Returned(d)] = SeenReturn(t) BY <2>2, <2>3 DEF Returned, StockTables, SeenReturn
    <3>3. PlacesOf(d)' = SeenPlaces(t) /\ ShelvesOf(d)' = ShelvesOf(d) BY <2>2, PlacesCommitted
    <3>4. ReturnedAsMoved(d)'
      BY <2>1, <2>2, <3>1, <3>2, <3>3 DEF AsWritten, Writing, BeforeWriting, Done, ReturnedAsMoved,
        TakenBackBy
    <3> QED BY <2>2, <2>3, <3>4, KindsAreApart DEF Settled
  <2>5. OwnRows(t, << >>) BY NoRows DEF OwnRows
  <2> QED BY <1>0, <2>1, <2>4, <2>5, StockCommitted
<1>12. CASE ReadForReturnEdit(t)
  <2> DEFINE value == [n |-> SeenReturn(t), by |-> SeenItems(t, SaleReturned(t)).by,
                       fits |-> WithinSold(t, SeenReturned(t, SaleReturned(t)) - SeenReturn(t))]
  <2>1. Reads(t, value, "edit_return") /\ pc[t] = "idle" /\ value.n = SeenReturn(t)
        /\ task[t].op = "edit_return"
    BY <1>12 DEF ReadForReturnEdit, At
  <2> HIDE DEF value
  <2>2. pc'[t] = "edit_return" /\ read'[t] = value /\ Clean(t) /\ UNCHANGED <<committed, task, source>>
    BY <1>0, <2>1, ReadsTo DEF Base, CleanBefore, BeforeWriting, dbVars
  <2>3. Steered(t)' /\ InHand(t)'
    BY <1>5, <2>1, <2>2 DEF Steered, Routed, InHand, AsFound, AsWritten, Writing, BeforeWriting,
      TakenBackBy
  <2> QED BY <2>1, <2>2, <2>3, StockRead
<1>13. CASE ReverseReturn(t)
  <2> DEFINE p == EditShop(t)
             rows == Stock(EditShop(t)) :> Moved(t, EditShop(t), -read[t].n)
                        @@ Customer :> [SeenCustomer(t) EXCEPT !.spent = @ + read[t].n]
  <2>1. Writes(t, rows, "return_anew") /\ pc[t] = "edit_return" /\ task[t].op = "edit_return"
    BY <1>2, <1>13 DEF ReverseReturn
  <2>2. DOMAIN rows = {Stock(p), Customer} /\ rows[Stock(p)] = Moved(t, p, -read[t].n)
        /\ Customer[1] \notin StockTables
    BY DEF :>, @@, Customer, Stock, StockTables
  <2>3. p \in Shelf \cap ShelvesOf(d) BY <1>0, <2>1, ShopsOfItsOwn DEF Edits
  <2>4. ReturnedAsMoved(d) /\ AsFound(t) => -read[t].n \in Int /\ TakenBackBy(d) + (-read[t].n) = 0
    BY <2>1 DEF AsFound, ReturnedAsMoved, AddUp
  <2> HIDE DEF rows, p
  <2> QED BY <1>8, <2>1, <2>2, <2>3, <2>4
<1>14. CASE ReverseShort(t) BY <1>6, <1>14 DEF ReverseShort, Shortage, Done
\* The statement that ends the request: it leaves in stock what it says.
<1>15. ASSUME task[t].op \in ReturnOps, pc[t] \in {"return_anew", "remove_return"},
              NEW p \in Shelf \cap ShelvesOf(d), NEW delta, NEW n, NEW rows, Ends(t, rows),
              Stock(p) \in DOMAIN rows, Returned(d) \in DOMAIN rows,
              rows[Stock(p)] = Moved(t, p, delta), rows[Returned(d)] = n,
              \A r \in DOMAIN rows : r \in {Stock(p), Returned(d)} \/ r[1] \notin StockTables,
              NEW m, Apart({d}) => delta \in Int /\ AddUp(SeenPlaces(t), m, ShelvesOf(d)) /\ m + delta = n
       PROVE  StockInv' /\ OthersKept(t)
  <2>1. /\ UNCHANGED <<task, source>>
        /\ \A r \in Row : r[1] \in StockTables =>
              committed'[r] = IF r \in DOMAIN rows THEN rows[r] ELSE Sees(t, r)
    BY <1>15, EndsAsSeen
  <2>2. d \in Return /\ Returned(d) \in Row /\ Returned(d)[1] = "return" /\ Returned(d)[2] = d
    BY <1>1, <1>15
  <2>3. OwnRows(t, rows) BY <1>15, <2>2, OwnShelf DEF StockTables
  <2>4. ASSUME Apart({d})
        PROVE  Settled(d)'
    <3>1. committed'[Returned(d)] = n BY <1>15, <2>1, <2>2 DEF StockTables
    <3>2. \A r \in DOMAIN rows : r = Stock(p) \/ r[1] # "stock" BY <1>15, <2>2 DEF StockTables
    <3>3. delta \in Int /\ AddUp(SeenPlaces(t), m, ShelvesOf(d)) /\ m + delta = n BY <1>15, <2>4
    <3>4. AddUp(PlacesOf(d)', n, ShelvesOf(d)') BY <1>15, <2>1, <3>2, <3>3, PlacesMove
    <3>5. ReturnedAsMoved(d)' BY <2>1, <3>1, <3>4 DEF ReturnedAsMoved, TakenBackBy
    <3> QED BY <2>1, <2>2, <3>5, KindsAreApart DEF Settled
  <2> QED BY <1>0, <1>15, <2>3, <2>4, StockCommitted
<1>16. CASE ReturnAnew(t)
  <2> DEFINE p == EditShop(t)
             rows == Stock(EditShop(t)) :> Moved(t, EditShop(t), Units(t))
                        @@ Returned(source[t]) :> Units(t)
                        @@ Customer :> [SeenCustomer(t) EXCEPT !.spent = @ - Units(t)]
  <2>1. Ends(t, rows) /\ pc[t] = "return_anew" /\ task[t].op = "edit_return" /\ task[t].op \in ReturnOps
    BY <1>2, <1>16 DEF ReturnAnew, ReturnOps
  <2>2. DOMAIN rows = {Stock(p), Returned(d), Customer} /\ Customer[1] \notin StockTables
        /\ rows[Stock(p)] = Moved(t, p, Units(t)) /\ rows[Returned(d)] = Units(t)
    BY DEF :>, @@, Returned, Stock, Customer, StockTables
  <2>3. Units(t) \in Int /\ 0 + Units(t) = Units(t) /\ p \in Shelf \cap ShelvesOf(d)
    BY <1>0, <2>1, UnitsAreCounted, ShopsOfItsOwn DEF Edits
  <2>4. Apart({d}) => AddUp(SeenPlaces(t), 0, ShelvesOf(d))
    BY <1>4, <2>1 DEF Running, Done, AsWritten, Writing, BeforeWriting
  <2> HIDE DEF rows, p
  <2> QED BY <1>15, <2>1, <2>2, <2>3, <2>4
<1>17. CASE ReturnNotAnew(t) BY <1>6, <1>17 DEF ReturnNotAnew, Done
<1>18. CASE ReadForRemove(t)
  <2> DEFINE value == [n |-> SeenReturn(t)]
  <2>1. Reads(t, value, "remove_return") /\ pc[t] = "idle" /\ value.n = SeenReturn(t)
        /\ task[t].op = "remove_return"
    BY <1>18 DEF ReadForRemove, At
  <2> HIDE DEF value
  <2>2. pc'[t] = "remove_return" /\ read'[t] = value /\ Clean(t) /\ UNCHANGED <<committed, task, source>>
    BY <1>0, <2>1, ReadsTo DEF Base, CleanBefore, BeforeWriting, dbVars
  <2>3. Steered(t)' /\ InHand(t)'
    BY <1>5, <2>1, <2>2 DEF Steered, Routed, InHand, AsFound, AsWritten, Writing, BeforeWriting,
      TakenBackBy
  <2> QED BY <2>1, <2>2, <2>3, StockRead
<1>19. CASE RemoveReturn(t)
  <2> DEFINE p == Shop(t)
             rows == Stock(Shop(t)) :> Moved(t, Shop(t), -read[t].n) @@ Returned(source[t]) :> 0
  <2>1. /\ Ends(t, rows) /\ pc[t] = "remove_return" /\ task[t].op = "remove_return"
        /\ task[t].op \in ReturnOps
    BY <1>2, <1>19 DEF RemoveReturn, ReturnOps
  <2>2. DOMAIN rows = {Stock(p), Returned(d)}
        /\ rows[Stock(p)] = Moved(t, p, -read[t].n) /\ rows[Returned(d)] = 0
    BY DEF :>, @@, Returned, Stock
  <2>3. Clean(t) /\ p \in Shelf \cap ShelvesOf(d)
    BY <1>0, <2>1, ShopsOfItsOwn DEF CleanBefore, BeforeWriting
  <2>4. ASSUME Apart({d})
        PROVE  /\ -read[t].n \in Int /\ TakenBackBy(d) + (-read[t].n) = 0
               /\ AddUp(SeenPlaces(t), TakenBackBy(d), ShelvesOf(d))
    <3>1. ReturnedAsMoved(d) /\ read[t].n = TakenBackBy(d)
      BY <1>3, <1>4, <2>1, <2>4 DEF Running, Done, AsFound
    <3> QED BY <2>3, <3>1, PlaceIsSeen DEF ReturnedAsMoved, AddUp
  <2> HIDE DEF rows, p
  <2> QED BY <1>15, <2>1, <2>2, <2>3, <2>4
<1>20. CASE RemoveShort(t) BY <1>6, <1>20 DEF RemoveShort, Shortage, Done
<1> QED BY <1>7, <1>8a, <1>9, <1>10, <1>11, <1>12, <1>13, <1>14, <1>16, <1>17, <1>18, <1>19, <1>20 DEF
  ReturnStep

LEMMA StockOrderStep ==
    ASSUME Base, StockInv, OrdersInv, Watch, NEW t \in Tx, Footprint(t), OrderStep(t)
    PROVE  StockInv' /\ OthersKept(t) /\ Delivers(t)
<1> DEFINE d == source[t]
           shelf == Stock(Shop(t))
<1>0. OnItsWay(t) /\ Steered(t) /\ Tasks /\ CleanBefore(t) /\ pc[t] \notin Done
  BY DoneIsDone DEF Base, StockInv
<1>1. ASSUME task[t].op \in OrderOps
      PROVE  /\ d \in Order /\ d \in Source
             /\ Shop(t) \in Shelf /\ OrderRow(d) \in Row /\ shelf \in Row
  <2>1. d \in Order BY <1>0, <1>1, StockRequests
  <2>2. d \in Source /\ Shop(t) \in Shelf /\ OrderRow(d) \in Row
    BY <2>1, DocumentsAreStored, StockRowsAreRows DEF IsDocument, Shop
  <2> QED BY <2>1, <2>2, StockRowsAreRows
<1>2. /\ pc[t] \in OrderWays => task[t].op \in OrderOps
      /\ pc[t] \in {"deliver", "spend", "set_status"} => task[t].op = "order_status"
  BY <1>0 DEF OnItsWay, Steered, Routed
<1>3. ASSUME Running(t), Apart({d})
      PROVE  AsFound(t) /\ AsWritten(t)
  BY <1>3 DEF StockInv, InHand
<1>4. Clean(t) => SeenOrder(t) = OrderOf(d) BY CleanSees DEF OrderRow, StockTables, SeenOrder, OrderOf
<1>5. ASSUME UNCHANGED <<committed, source>>
      PROVE  Delivers(t)
  BY <1>5 DEF Delivers, MovedBy
<1>6. ASSUME NEW outcome \in Done, Throws(t, outcome)
      PROVE  StockInv' /\ OthersKept(t) /\ Delivers(t)
  <2>1. UNCHANGED <<committed, source>> BY <1>6 DEF Throws, Fail, RollbackTx, locals
  <2> QED BY <1>5, <1>6, <2>1, StockThrown
\* A read before anything is written.
<1>7. ASSUME Clean(t), NEW v, NEW s, Reads(t, v, s), task[t].op \in OrderOps,
             s \in {"deliver", "set_status"} => task[t].op = "order_status",
             s \in OrderWays \ {"spend"},
             s = "deliver" => OrderOf(d).status # "DELIVERED" /\ task[t].status = "DELIVERED"
      PROVE  StockInv' /\ OthersKept(t) /\ Delivers(t)
  <2>1. pc'[t] = s /\ UNCHANGED <<committed, pending, task, source>> BY <1>7, ReadsTo DEF Base, dbVars
  <2>2. Steered(t)' BY <1>7, <2>1 DEF Steered, Routed, OrderWays
  <2>3. AsFound(t)' BY <1>7, <2>1 DEF AsFound, OrderOf, OrderWays
  <2>4. Slot(t, Shop(t))' = Settling(t, Shop(t))'
    BY <1>7, <2>1 DEF Clean, Slot, Settling, Sees, Stock, StockTables, Shop
  <2>5. AsWritten(t)'
    BY <1>7, <2>1, <2>4 DEF AsWritten, OrderWays, OrderOps, Writing, BeforeWriting, SaleOps
  <2> QED BY <1>5, <1>7, <2>1, <2>2, <2>3, <2>5, StockRead DEF InHand
\* A statement that ends the request, and has moved no stock.
<1>8. ASSUME Clean(t), task[t].op \in OrderOps, NEW rows, Ends(t, rows),
             \A r \in DOMAIN rows : (r[1] = "order" /\ r[2] = d) \/ r[1] \notin StockTables
      PROVE  StockInv' /\ OthersKept(t) /\ Delivers(t)
  <2>1. /\ UNCHANGED <<task, source>>
        /\ \A r \in Row : r[1] \in StockTables =>
              committed'[r] = IF r \in DOMAIN rows THEN rows[r] ELSE Sees(t, r)
    BY <1>8, EndsAsSeen
  <2>2. OwnRows(t, rows) BY <1>8 DEF OwnRows
  <2>3. Settled(d)' BY <1>1, <1>8, <2>1, KindsAreApart DEF Settled
  <2>4. committed'[shelf] = committed[shelf] BY <1>1, <1>8, <2>1, CleanSees DEF Stock, StockTables
  <2>5. Delivers(t) BY <2>1, <2>4 DEF Delivers, MovedBy, Shop
  <2> QED BY <1>0, <1>8, <2>2, <2>3, <2>5, StockCommitted
<1>9. CASE ReadForOrderStatus(t)
  <2> DEFINE value == [n |-> Ordered(t), total |-> SeenOrder(t).total]
             next == IF task[t].status = "DELIVERED" /\ SeenOrder(t).status # "DELIVERED"
                     THEN "deliver" ELSE "set_status"
  <2>1. Reads(t, value, next) /\ pc[t] = "idle" /\ task[t].op = "order_status"
    BY <1>9 DEF ReadForOrderStatus, At
  <2> HIDE DEF value
  <2>2. Clean(t) /\ SeenOrder(t) = OrderOf(d) BY <1>0, <1>4, <2>1 DEF CleanBefore, BeforeWriting
  <2>3. next \in OrderWays \ {"spend"} /\ task[t].op \in OrderOps
        /\ (next = "deliver" => OrderOf(d).status # "DELIVERED" /\ task[t].status = "DELIVERED")
    BY <2>1, <2>2 DEF OrderWays, OrderOps
  <2> HIDE DEF next
  <2> QED BY <1>7, <2>1, <2>2, <2>3
<1>10. CASE DeliverLines(t)
  <2> DEFINE rows == Stock(Shop(t)) :> Moved(t, Shop(t), -read[t].n)
  <2>1. Writes(t, rows, "spend") /\ pc[t] = "deliver" /\ task[t].op = "order_status"
    BY <1>2, <1>10 DEF DeliverLines
  <2>2. DOMAIN rows = {shelf} /\ rows[shelf] = Moved(t, Shop(t), -read[t].n) BY DEF :>
  <2> HIDE DEF rows
  <2>3. OwnRows(t, rows) BY <1>1, <2>1, <2>2, OwnShelf DEF OrderOps
  <2>4. pc'[t] = "spend" /\ UNCHANGED <<committed, task, source>> BY <2>1, WritesSeen
  <2>5. Steered(t)' BY <2>1, <2>4 DEF Steered, Routed
  <2>6. ASSUME Apart({d})
        PROVE  InHand(t)'
    <3>1. OrderOf(d).status # "DELIVERED" /\ task[t].status = "DELIVERED"
      BY <1>3, <2>1, <2>6 DEF Running, Done, AsFound
    <3> QED BY <2>1, <2>4, <3>1 DEF InHand, AsFound, AsWritten, SaleOps, OrderOf
  <2> QED BY <1>5, <2>1, <2>3, <2>4, <2>5, <2>6, StockWritten DEF BeforeWriting, Done, StockOps,
    OrderOps
<1>11. CASE DeliverShort(t) BY <1>6, <1>11 DEF DeliverShort, Shortage, Done
<1>12. CASE SpendOnOrder(t)
  <2> DEFINE rows == Customer :> [SeenCustomer(t) EXCEPT !.spent = @ + read[t].total]
  <2>1. Writes(t, rows, "set_status") /\ pc[t] = "spend" /\ task[t].op = "order_status"
    BY <1>2, <1>12 DEF SpendOnOrder
  <2>2. \A r \in DOMAIN rows : r[1] \notin StockTables BY DEF :>, Customer, StockTables
  <2> HIDE DEF rows
  <2>3. /\ pc'[t] = "set_status" /\ UNCHANGED <<committed, task, source>>
        /\ \A r : r[1] \in StockTables => Sees(t, r)' = Sees(t, r)
    BY <2>1, <2>2, WritesSeen
  <2>4. Steered(t)' /\ OwnRows(t, rows) BY <2>1, <2>2, <2>3 DEF Steered, Routed, OwnRows
  <2>5. ASSUME Apart({d})
        PROVE  InHand(t)'
    <3>1. AsWritten(t) BY <1>3, <2>1, <2>5 DEF Running, Done
    <3>2. Slot(t, Shop(t))' = Slot(t, Shop(t)) /\ Settling(t, Shop(t))' = Settling(t, Shop(t))
      BY <2>3 DEF Slot, Settling, Stock, StockTables, Shop
    <3>3. AsWritten(t)'
      BY <2>1, <2>3, <3>1, <3>2 DEF AsWritten, Writing, BeforeWriting, Done, SaleOps, OrderOf
    <3> QED BY <2>3, <3>3 DEF InHand, AsFound
  <2> QED BY <1>5, <2>1, <2>3, <2>4, <2>5, StockWritten DEF BeforeWriting, Done, StockOps, OrderOps
<1>13. CASE SetOrderStatus(t)
  <2> DEFINE rows == OrderRow(source[t]) :> [SeenOrder(t) EXCEPT !.status = task[t].status]
  <2>1. Ends(t, rows) /\ pc[t] = "set_status" /\ task[t].op = "order_status"
    BY <1>2, <1>13 DEF SetOrderStatus
  <2>2. d \in Order /\ Shop(t) \in Shelf /\ OrderRow(d) \in Row /\ shelf \in Row BY <1>1, <2>1 DEF OrderOps
  <2>3. "status" \in DOMAIN SeenOrder(t) BY <2>2 DEF OrdersInv, SeenOrder, Sees
  <2>4. DOMAIN rows = {OrderRow(d)} /\ rows[OrderRow(d)].status = task[t].status BY <2>3 DEF :>
  <2> HIDE DEF rows
  <2>5. /\ UNCHANGED <<task, source>>
        /\ \A r \in Row : r[1] \in StockTables =>
              committed'[r] = IF r \in DOMAIN rows THEN rows[r] ELSE Sees(t, r)
    BY <2>1, EndsAsSeen
  <2>6. OwnRows(t, rows) BY <2>4 DEF OwnRows, OrderRow
  <2>7. Settled(d)' BY <2>2, <2>5, KindsAreApart DEF Settled
  <2>8. Delivers(t)
    <3> SUFFICES ASSUME MovedBy(d)' # MovedBy(d), Apart({d})'
                 PROVE  OrderOf(d).status # "DELIVERED" /\ OrderOf(d)'.status = "DELIVERED"
      BY DEF Delivers
    <3>1. AsWritten(t) BY <1>3, <2>1, <2>5, ApartBefore DEF Running, Done
    <3>2. committed'[shelf] = Sees(t, shelf) /\ committed'[OrderRow(d)].status = task[t].status
      BY <2>2, <2>4, <2>5 DEF Stock, OrderRow, StockTables
    <3>3. Slot(t, Shop(t)) # Settling(t, Shop(t)) BY <2>5, <3>2 DEF MovedBy, Slot, Settling, Shop
    <3> QED BY <2>1, <2>5, <3>1, <3>2, <3>3 DEF AsWritten, Writing, BeforeWriting, Done, OrderOf
  <2> QED BY <1>0, <2>1, <2>6, <2>7, <2>8, StockCommitted
<1>14. CASE ReadForDeposit(t)
  <2>1. Reads(t, SeenOrder(t).paid + task[t].n, "set_paid") /\ pc[t] = "idle" /\ task[t].op = "deposit"
    BY <1>14 DEF ReadForDeposit, At
  <2> QED BY <1>0, <1>7, <2>1 DEF CleanBefore, BeforeWriting, OrderOps, OrderWays
<1>15. CASE TakeDeposit(t)
  <2> DEFINE rows == Deposit(t) :> task[t].n @@ OrderRow(source[t]) :> [SeenOrder(t) EXCEPT !.paid = read[t]]
  <2>1. Ends(t, rows) /\ pc[t] = "set_paid" BY <1>15 DEF TakeDeposit
  <2>2. \A r \in DOMAIN rows : (r[1] = "order" /\ r[2] = d) \/ r[1] \notin StockTables
    BY DEF :>, @@, Deposit, OrderRow, StockTables
  <2> HIDE DEF rows
  <2> QED BY <1>0, <1>2, <1>8, <2>1, <2>2 DEF CleanBefore, BeforeWriting, OrderWays
<1>16. CASE ReadForOrderEdit(t)
  <2>1. Reads(t, Nothing, "find_lines") /\ pc[t] = "idle" /\ task[t].op = "edit_order"
    BY <1>16 DEF ReadForOrderEdit, At
  <2> QED BY <1>0, <1>7, <2>1 DEF CleanBefore, BeforeWriting, OrderOps, OrderWays
<1>17. CASE FindLines(t)
  <2> DEFINE value == LinesSeen(t)
  <2>1. Reads(t, value, "delete_lines") /\ pc[t] = "find_lines" BY <1>17 DEF FindLines
  <2> HIDE DEF value
  <2> QED BY <1>0, <1>2, <1>7, <2>1 DEF CleanBefore, BeforeWriting, OrderOps, OrderWays
<1>18. CASE DeleteLines(t)
  <2> DEFINE rows == [r \in read[t] |-> 0]
  <2>1. Writes(t, rows, "replace_lines") /\ pc[t] = "delete_lines" /\ Clean(t)
    BY <1>0, <1>18 DEF DeleteLines, CleanBefore, BeforeWriting
  <2>2. \A r \in DOMAIN rows : r[1] \notin StockTables BY <1>0, <2>1 DEF OnItsWay, LinesSought, StockTables
  <2> HIDE DEF rows
  <2>3. pc'[t] = "replace_lines" /\ UNCHANGED <<committed, task, source>> BY <2>1, WritesSeen
  <2>4. Steered(t)' /\ OwnRows(t, rows) /\ InHand(t)'
    BY <2>2, <2>3 DEF Steered, Routed, OwnRows, InHand, AsFound, AsWritten, Writing, BeforeWriting
  <2> QED BY <1>5, <2>1, <2>2, <2>3, <2>4, StockWritten
<1>19. CASE ReplaceLines(t)
  <2> DEFINE rows == Lines(source[t], t) :> task[t].n
                        @@ OrderRow(source[t]) :> [SeenOrder(t) EXCEPT !.total = task[t].n,
                                                                       !.status = task[t].status]
  <2>1. Ends(t, rows) /\ pc[t] = "replace_lines" BY <1>19 DEF ReplaceLines
  <2>2. \A r \in DOMAIN rows : (r[1] = "order" /\ r[2] = d) \/ r[1] \notin StockTables
    BY DEF :>, @@, Lines, OrderRow, StockTables
  <2> HIDE DEF rows
  <2> QED BY <1>0, <1>2, <1>8, <2>1, <2>2 DEF CleanBefore, BeforeWriting, OrderWays
<1>20. CASE ReadForOrderRemove(t)
  <2>1. Reads(t, Nothing, "remove_order") /\ pc[t] = "idle" /\ task[t].op = "remove_order"
    BY <1>20 DEF ReadForOrderRemove, At
  <2> QED BY <1>0, <1>7, <2>1 DEF CleanBefore, BeforeWriting, OrderOps, OrderWays
<1>21. CASE RemoveOrder(t)
  <2> DEFINE rows == [r \in {OrderRow(source[t])} \cup {Lines(source[t], by) : by \in Makers}
                               \cup {Deposit(u) : u \in {v \in Tx : source[v] = source[t]}} |->
                        IF r = OrderRow(source[t]) THEN NoOrder ELSE 0]
  <2>1. Ends(t, rows) /\ pc[t] = "remove_order" BY <1>21 DEF RemoveOrder
  <2>2. \A r \in DOMAIN rows : (r[1] = "order" /\ r[2] = d) \/ r[1] \notin StockTables
    BY DEF Lines, Deposit, OrderRow, StockTables
  <2> HIDE DEF rows
  <2> QED BY <1>0, <1>2, <1>8, <2>1, <2>2 DEF CleanBefore, BeforeWriting, OrderWays
<1>9a. CASE OrderGone(t) BY <1>6, <1>9a DEF OrderGone, Done
<1> QED BY <1>9, <1>10, <1>11, <1>12, <1>13, <1>14, <1>15, <1>16, <1>17, <1>18, <1>19, <1>20, <1>21,
  <1>9a DEF OrderStep

LEMMA StockPurchasingStep ==
    ASSUME Base, StockInv, Watch, NEW t \in Tx, Footprint(t), PurchasingStep(t)
    PROVE  StockInv' /\ OthersKept(t)
<1> DEFINE d == source[t]
           shelf == Stock(Shop(t))
<1>0. OnItsWay(t) /\ Steered(t) /\ Tasks /\ CleanBefore(t) /\ pc[t] \notin Done
  BY DoneIsDone DEF Base, StockInv
<1>1. ASSUME task[t].op \in PurchasingOps
      PROVE  /\ d \in PurchaseOrder \cup Purchase \cup PurchaseReturn /\ d \in Source
             /\ Shop(t) \in Shelf /\ shelf \in Row
             /\ task[t].op = "po_status" =>
                   d \in PurchaseOrder /\ OrderStatus(d) \in Row /\ UnitsOrdered[d] \in Int
             /\ task[t].op # "po_status" => d \in Purchase \cup PurchaseReturn /\ BoughtUnits(d) \in Row
             /\ task[t].op = "purchase" => d \in Purchase /\ d \notin PurchaseReturn /\ task[t].n \in Int
             /\ task[t].op \in {"send_back", "send_back_anew", "remove_send_back"} =>
                   d \in PurchaseReturn /\ d \notin Purchase
             /\ task[t].op \in {"send_back", "send_back_anew"} => task[t].n \in Int
  <2>1. /\ d \in PurchaseOrder \cup Purchase \cup PurchaseReturn
        /\ task[t].op = "po_status" => d \in PurchaseOrder
        /\ task[t].op # "po_status" => d \in Purchase \cup PurchaseReturn
        /\ task[t].op = "purchase" => d \in Purchase /\ task[t].n \in Int
        /\ task[t].op \in {"send_back", "send_back_anew", "remove_send_back"} => d \in PurchaseReturn
        /\ task[t].op \in {"send_back", "send_back_anew"} => task[t].n \in Int
    BY <1>0, <1>1, StockRequests DEF PurchasingOps
  <2>2. d \in Source /\ Shop(t) \in Shelf /\ shelf \in Row
    BY <2>1, DocumentsAreStored, StockRowsAreRows DEF IsDocument, Shop
  <2> QED BY <2>1, <2>2, KindsAreApart, StockRowsAreRows, QuantityAssumption
<1>2. /\ pc[t] \in {"receive_goods", "set_po_status"} => task[t].op = "po_status"
      /\ pc[t] \in {"new_supplier", "count_purchases", "buy"} => task[t].op = "purchase"
      /\ pc[t] \in {"send_back", "insert_return"} => task[t].op = "send_back"
      /\ pc[t] = "send_anew" => task[t].op = "send_back_anew"
      /\ pc[t] = "remove_send_back" => task[t].op = "remove_send_back"
  BY <1>0 DEF Steered, Routed
<1>3. ASSUME task[t].op \in PurchasingOps, Apart({d})
      PROVE  Settled(d)
  BY <1>1, <1>3 DEF StockInv
<1>4. ASSUME Running(t), Apart({d})
      PROVE  AsFound(t) /\ AsWritten(t)
  BY <1>4 DEF StockInv, InHand
<1>5. Clean(t) => SeenUnits(t) = SentBackBy(d) /\ Sees(t, OrderStatus(d)) = committed[OrderStatus(d)]
  BY CleanSees DEF BoughtUnits, OrderStatus, StockTables, SeenUnits, SentBackBy
<1>6. ASSUME NEW outcome \in Done, Throws(t, outcome)
      PROVE  StockInv' /\ OthersKept(t)
  BY <1>6, StockThrown
\* A statement that writes stock, or the units of its document, and goes on.
<1>7. ASSUME task[t].op \in PurchasingOps, NEW delta, NEW rows, NEW s \in {"post", "insert_return"},
             Writes(t, rows, s), s = "insert_return" => task[t].op = "send_back",
             \A r \in DOMAIN rows :
                \/ r = shelf /\ rows[r] = Moved(t, Shop(t), delta)
                \/ r = BoughtUnits(d) \/ r[1] \notin StockTables,
             Apart({d}) => AsWritten(t)'
      PROVE  StockInv' /\ OthersKept(t)
  <2>1. OwnRows(t, rows) BY <1>1, <1>7, OwnShelf DEF BoughtUnits, StockTables
  <2>2. pc'[t] = s /\ UNCHANGED <<committed, task, source>> BY <1>7, WritesSeen
  <2>3. Steered(t)' BY <1>7, <2>2 DEF Steered, Routed
  <2>4. ASSUME Apart({d})
        PROVE  InHand(t)'
    BY <1>7, <2>2, <2>4 DEF InHand, AsFound
  <2> QED BY <1>7, <2>1, <2>3, <2>4, StockWritten DEF BeforeWriting, Done, StockOps
\* A read before anything is written.
<1>8. ASSUME Clean(t), NEW v, NEW s \in PurchasingWays \ {"insert_return"}, NEW n,
             Reads(t, v, s) \/ ReadsToPost(t, v, n, s), Steered(t)', Apart({d}) => AsFound(t)'
      PROVE  StockInv' /\ OthersKept(t)
  <2>1. pc'[t] = s BY <1>8, ReadsFrame DEF Base
  <2>2. AsWritten(t)' BY <1>8, <2>1 DEF AsWritten, Writing, BeforeWriting, PurchasingWays
  <2> QED BY <1>8, <2>2, StockRead DEF InHand
\* The statement that ends the request: the shelf and the units it commits agree.
<1>9. ASSUME task[t].op \in PurchasingOps \ {"po_status"}, NEW rows, NEW delta, Ends(t, rows),
             \A r \in DOMAIN rows :
                \/ r = shelf /\ rows[r] = Moved(t, Shop(t), delta)
                \/ r = BoughtUnits(d) \/ r[1] \notin StockTables,
             NEW units, NEW moved,
             Apart({d}) => /\ units = IF BoughtUnits(d) \in DOMAIN rows THEN rows[BoughtUnits(d)] ELSE SeenUnits(t)
                           /\ moved = Slot(t, Shop(t)) + (IF shelf \in DOMAIN rows THEN delta ELSE 0)
                           /\ units \in Int /\ Slot(t, Shop(t)) \in Int
                           /\ d \in Purchase => moved = units
                           /\ d \in PurchaseReturn => moved = -units
      PROVE  StockInv' /\ OthersKept(t)
  <2>1. /\ UNCHANGED <<task, source>>
        /\ \A r \in Row : r[1] \in StockTables =>
              committed'[r] = IF r \in DOMAIN rows THEN rows[r] ELSE Sees(t, r)
    BY <1>9, EndsAsSeen
  <2>2. OwnRows(t, rows) BY <1>1, <1>9, OwnShelf DEF BoughtUnits, StockTables
  <2>3. ASSUME Apart({d})
        PROVE  Settled(d)'
    <3>1. committed'[BoughtUnits(d)] = units
      BY <1>1, <1>9, <2>1, <2>3 DEF BoughtUnits, StockTables, SeenUnits
    <3>2. committed'[shelf][d] = moved
      <4>1. CASE shelf \in DOMAIN rows
        <5>1. rows[shelf] = Moved(t, Shop(t), delta) BY <1>9, <4>1 DEF Stock, StockTables, BoughtUnits
        <5>2. committed'[shelf] = Moved(t, Shop(t), delta)
          BY <1>1, <1>9, <2>1, <4>1, <5>1 DEF Stock, StockTables
        <5> QED BY <1>1, <1>9, <2>3, <4>1, <5>2, MovedIsItsOwn
      <4>2. CASE shelf \notin DOMAIN rows
        <5>1. committed'[shelf] = Sees(t, shelf) BY <1>1, <1>9, <2>1, <4>2 DEF Stock, StockTables
        <5> QED BY <1>9, <2>3, <4>2, <5>1 DEF Slot
      <4> QED BY <4>1, <4>2
    <3>3. SentBackBy(d)' = units /\ MovedBy(d)' = moved BY <2>1, <3>1, <3>2 DEF SentBackBy, MovedBy, Shop
    <3> QED BY <1>1, <1>9, <2>1, <2>3, <3>3, KindsAreApart DEF Settled, BoughtAsMoved, SentBackAsMoved
  <2> QED BY <1>0, <1>9, <2>2, <2>3, StockCommitted
<1>10. CASE ReadPurchaseOrder(t)
  <2> DEFINE next == IF task[t].status = "RECEIVED" THEN "receive_goods" ELSE "set_po_status"
  <2>1. /\ ReadsToPost(t, Nothing, UnitsOrdered[d], next) /\ pc[t] = "idle" /\ task[t].op = "po_status"
        /\ Sees(t, OrderStatus(d)) # "RECEIVED"
    BY <1>10 DEF ReadPurchaseOrder, At, MayMove
  <2>2. Clean(t) /\ Shape BY <1>0, <2>1 DEF CleanBefore, BeforeWriting, Base
  <2>3. /\ pc'[t] = next /\ amount'[t] = UnitsOrdered[d] /\ UNCHANGED <<committed, task, source>>
    BY <2>1, <2>2 DEF ReadsToPost, Goto, Shape, dbVars
  <2>4. Steered(t)' /\ AsFound(t)' BY <1>5, <2>1, <2>2, <2>3 DEF Steered, Routed, AsFound
  <2>5. next \in PurchasingWays \ {"insert_return"} BY DEF PurchasingWays
  <2> HIDE DEF next
  <2> QED BY <1>8, <2>1, <2>2, <2>4, <2>5
<1>11. CASE SetPurchaseOrderStatus(t)
  <2> DEFINE rows == OrderStatus(source[t]) :> task[t].status
  <2>1. Stores(t, rows, "committed") /\ pc[t] = "set_po_status" /\ task[t].op = "po_status"
    BY <1>2, <1>11 DEF SetPurchaseOrderStatus
  <2>2. DOMAIN rows = {OrderStatus(d)} /\ rows[OrderStatus(d)] = task[t].status BY DEF :>
  <2> HIDE DEF rows
  <2>3. Clean(t) /\ task[t].op \in PurchasingOps BY <1>0, <2>1 DEF CleanBefore, BeforeWriting, PurchasingOps
  <2>4. OwnRows(t, rows) BY <2>2 DEF OwnRows, OrderStatus
  <2>5. /\ UNCHANGED <<task, source>>
        /\ \A r \in Row : r[1] \in StockTables =>
              committed'[r] = IF r \in DOMAIN rows THEN rows[r] ELSE Sees(t, r)
    BY <2>1, <2>3, EndsAsSeen
  <2>6. ASSUME Apart({d})
        PROVE  Settled(d)'
    <3>1. committed[OrderStatus(d)] # "RECEIVED" /\ task[t].status # "RECEIVED"
      BY <1>4, <2>1, <2>6 DEF Running, Done, AsFound
    <3>2. committed'[OrderStatus(d)] = task[t].status /\ committed'[shelf] = committed[shelf]
      BY <1>1, <2>1, <2>2, <2>3, <2>5, CleanSees DEF OrderStatus, Stock, StockTables
    <3>3. MovedBy(d)' = MovedBy(d) BY <2>5, <3>2 DEF MovedBy, Shop
    <3>4. ReceivedAsMoved(d)'
      BY <1>1, <1>3, <2>1, <2>3, <2>5, <2>6, <3>1, <3>2, <3>3 DEF Settled, ReceivedAsMoved
    <3> QED BY <1>1, <2>1, <2>3, <2>5, <3>4, KindsAreApart DEF Settled
  <2> QED BY <1>0, <2>1, <2>3, <2>4, <2>6, StockCommitted
<1>12. CASE ReceiveGoods(t)
  <2> DEFINE rows == Stock(Shop(t)) :> Moved(t, Shop(t), amount[t])
  <2>1. Writes(t, rows, "post") /\ pc[t] = "receive_goods" /\ task[t].op = "po_status"
    BY <1>2, <1>12 DEF ReceiveGoods
  <2>2. DOMAIN rows = {shelf} /\ rows[shelf] = Moved(t, Shop(t), amount[t]) BY DEF :>
  <2> HIDE DEF rows
  <2>3. Clean(t) /\ task[t].op \in PurchasingOps BY <1>0, <2>1 DEF CleanBefore, BeforeWriting, PurchasingOps
  <2>4. /\ pc'[t] = "post" /\ UNCHANGED <<committed, task, source>>
        /\ \A r : Sees(t, r)' = IF r \in DOMAIN rows THEN rows[r] ELSE Sees(t, r)
    BY <2>1, WritesSeen
  <2>5. ASSUME Apart({d})
        PROVE  AsWritten(t)'
    <3>1. amount[t] = UnitsOrdered[d] /\ committed[OrderStatus(d)] # "RECEIVED"
      BY <1>4, <2>1, <2>5 DEF Running, Done, AsFound
    <3>2. MovedBy(d) = 0 BY <1>1, <1>3, <2>1, <2>3, <2>5, <3>1 DEF Settled, ReceivedAsMoved
    <3>3. Moved(t, Shop(t), amount[t])[d] = UnitsOrdered[d]
      BY <1>1, <2>1, <2>3, <3>1, <3>2, PlaceIsSeen, MovedIsItsOwn
    <3>4. Slot(t, Shop(t))' = UnitsOrdered[d] BY <2>2, <2>4, <3>3 DEF Slot, Shop
    <3> QED BY <2>1, <2>4, <3>4 DEF AsWritten, SaleOps
  <2> QED BY <1>7, <2>1, <2>2, <2>3, <2>5
<1>13. CASE FinishReceipt(t)
  <2> DEFINE rows == OrderStatus(source[t]) :> "RECEIVED"
  <2>1. Ends(t, rows) /\ pc[t] = "commit" /\ task[t].op = "po_status" BY <1>13 DEF FinishReceipt, At
  <2>2. DOMAIN rows = {OrderStatus(d)} /\ rows[OrderStatus(d)] = "RECEIVED" BY DEF :>
  <2> HIDE DEF rows
  <2>3. task[t].op \in PurchasingOps BY <2>1 DEF PurchasingOps
  <2>4. OwnRows(t, rows) BY <2>2 DEF OwnRows, OrderStatus
  <2>5. /\ UNCHANGED <<task, source>>
        /\ \A r \in Row : r[1] \in StockTables =>
              committed'[r] = IF r \in DOMAIN rows THEN rows[r] ELSE Sees(t, r)
    BY <2>1, EndsAsSeen
  <2>6. ASSUME Apart({d})
        PROVE  Settled(d)'
    <3>1. AsWritten(t) BY <1>4, <2>1, <2>6 DEF Running, Done
    <3>2. Slot(t, Shop(t)) = UnitsOrdered[d] BY <2>1, <3>1 DEF AsWritten, Writing, BeforeWriting, Done
    <3>3. committed'[OrderStatus(d)] = "RECEIVED" /\ committed'[shelf] = Sees(t, shelf)
      BY <1>1, <2>1, <2>2, <2>3, <2>5 DEF OrderStatus, Stock, StockTables
    <3>4. ReceivedAsMoved(d)' BY <2>5, <3>2, <3>3 DEF ReceivedAsMoved, MovedBy, Slot, Shop
    <3> QED BY <1>1, <2>1, <2>3, <2>5, <3>4, KindsAreApart DEF Settled
  <2> QED BY <1>0, <2>1, <2>4, <2>6, StockCommitted
<1>14. CASE FindSupplier(t)
  <2> DEFINE next == IF Free(t, Supplier) THEN "new_supplier" ELSE "count_purchases"
  <2>1. /\ ReadsToPost(t, Nothing, task[t].n, next) /\ pc[t] = "idle" /\ task[t].op = "purchase"
        /\ SeenUnits(t) = 0
    BY <1>14 DEF FindSupplier, At
  <2>2. next \in {"new_supplier", "count_purchases"} OBVIOUS
  <2> HIDE DEF next
  <2>3. Clean(t) BY <1>0, <2>1 DEF CleanBefore, BeforeWriting
  <2>4. pc'[t] = next /\ UNCHANGED <<committed, task, source>>
    BY <2>1, ReadsFrame DEF Base, ReadsToPost, dbVars
  <2>5. Steered(t)' /\ AsFound(t)' BY <1>5, <2>1, <2>2, <2>3, <2>4 DEF Steered, Routed, AsFound, SentBackBy
  <2> QED BY <1>8, <2>1, <2>2, <2>3, <2>5 DEF PurchasingWays
<1>15. CASE NewSupplier(t)
  <2> DEFINE rows == Supplier :> source[t]
  <2>1. Writes(t, rows, "count_purchases") /\ pc[t] = "new_supplier" /\ task[t].op = "purchase"
    BY <1>2, <1>15 DEF NewSupplier
  <2>2. \A r \in DOMAIN rows : r[1] \notin StockTables BY DEF :>, Supplier, StockTables
  <2> HIDE DEF rows
  <2>3. pc'[t] = "count_purchases" /\ UNCHANGED <<committed, task, source>> BY <2>1, WritesSeen
  <2>4. Steered(t)' /\ OwnRows(t, rows) /\ Clean(t)
    BY <1>0, <2>1, <2>2, <2>3 DEF Steered, Routed, OwnRows, CleanBefore, BeforeWriting
  <2>5. ASSUME Apart({d})
        PROVE  InHand(t)'
    <3>1. SentBackBy(d) = 0 BY <1>4, <2>1, <2>5 DEF Running, Done, AsFound
    <3> QED BY <2>3, <3>1 DEF InHand, AsFound, AsWritten, Writing, BeforeWriting, SentBackBy
  <2> QED BY <2>1, <2>2, <2>4, <2>5, StockWritten
<1>16. CASE SupplierExists(t) BY <1>6, <1>16 DEF SupplierExists, Duplicate, Done
<1>17. CASE CountPurchases(t)
  <2> DEFINE value == Numbered("PUR", NextNumber(t, "PUR"))
  <2>1. Reads(t, value, "buy") /\ pc[t] = "count_purchases" /\ task[t].op = "purchase"
    BY <1>2, <1>17 DEF CountPurchases
  <2> HIDE DEF value
  <2>2. Clean(t) BY <1>0, <2>1 DEF CleanBefore, BeforeWriting
  <2>3. pc'[t] = "buy" /\ UNCHANGED <<committed, task, source>> BY <2>1, ReadsTo DEF Base, dbVars
  <2>4. Steered(t)' BY <2>1, <2>3 DEF Steered, Routed
  <2>5. ASSUME Apart({d})
        PROVE  AsFound(t)'
    BY <1>4, <2>1, <2>3, <2>5 DEF Running, Done, AsFound, SentBackBy
  <2> QED BY <1>8, <2>1, <2>2, <2>4, <2>5 DEF PurchasingWays
<1>18. CASE Buy(t)
  <2> DEFINE moved == Moved(t, Shop(t), task[t].n)
             rows == read[t] :> source[t] @@ BoughtUnits(source[t]) :> task[t].n
                        @@ Stock(Shop(t)) :> Moved(t, Shop(t), task[t].n)
  <2>1. Writes(t, rows, "post") /\ pc[t] = "buy" /\ task[t].op = "purchase" BY <1>2, <1>18 DEF Buy
  <2>2. read[t][1] \in {"PUR", "PRET"} BY <1>0, <2>1 DEF OnItsWay, NumbersSought
  <2>3. DOMAIN rows = {read[t], BoughtUnits(d), shelf} /\ rows[shelf] = moved /\ rows[BoughtUnits(d)] = task[t].n
    BY <2>2 DEF :>, @@, BoughtUnits, Stock
  <2> HIDE DEF rows
  <2>4. Clean(t) /\ task[t].op \in PurchasingOps BY <1>0, <2>1 DEF CleanBefore, BeforeWriting, PurchasingOps
  <2>5. /\ pc'[t] = "post" /\ UNCHANGED <<committed, task, source>>
        /\ \A r : Sees(t, r)' = IF r \in DOMAIN rows THEN rows[r] ELSE Sees(t, r)
    BY <2>1, WritesSeen
  <2>6. ASSUME Apart({d})
        PROVE  AsWritten(t)'
    <3>1. SentBackBy(d) = 0 BY <1>4, <2>1, <2>6 DEF Running, Done, AsFound
    <3>2. MovedBy(d) = 0 BY <1>1, <1>3, <2>1, <2>4, <2>6, <3>1 DEF Settled, BoughtAsMoved
    <3>3. moved[d] = task[t].n BY <1>1, <2>1, <2>4, <3>2, PlaceIsSeen, MovedIsItsOwn
    <3>4. Slot(t, Shop(t))' = task[t].n /\ SeenUnits(t)' = task[t].n
      BY <2>3, <2>5, <3>3 DEF Slot, SeenUnits, Shop
    <3> QED BY <1>1, <2>1, <2>4, <2>5, <3>4 DEF AsWritten, SaleOps
  <2>7. \A r \in DOMAIN rows :
           \/ r = shelf /\ rows[r] = Moved(t, Shop(t), task[t].n)
           \/ r = BoughtUnits(d) \/ r[1] \notin StockTables
    BY <2>2, <2>3 DEF StockTables
  <2> QED BY <1>7, <2>1, <2>4, <2>6, <2>7
<1>19. CASE PurchaseNumberTaken(t) BY <1>6, <1>19 DEF PurchaseNumberTaken, Duplicate, Done
<1>20. CASE FinishPurchase(t)
  <2>1. Ends(t, << >>) /\ pc[t] = "commit" /\ task[t].op \in {"purchase", "send_back"}
    BY <1>20 DEF FinishPurchase
  <2>2. task[t].op \in PurchasingOps \ {"po_status"} BY <2>1 DEF PurchasingOps
  <2> DEFINE units == SeenUnits(t)
             moved == Slot(t, Shop(t))
  <2>3. ASSUME Apart({d})
        PROVE  /\ units \in Int /\ moved \in Int
               /\ d \in Purchase => moved = units
               /\ d \in PurchaseReturn => moved = -units
    <3>1. AsWritten(t) BY <1>4, <2>1, <2>3 DEF Running, Done
    <3> QED BY <1>1, <2>1, <2>2, <3>1 DEF AsWritten, Writing, BeforeWriting, Done
  <2>4. Apart({d}) => moved + 0 = moved BY <2>3
  <2> QED BY <1>9, <2>1, <2>2, <2>3, <2>4, NoRows
<1>21. CASE ReadForSendingBack(t)
  <2> DEFINE value == Numbered("PRET", NextNumber(t, "PRET"))
  <2>1. /\ ReadsToPost(t, value, task[t].n, "send_back") /\ pc[t] = "idle" /\ task[t].op = "send_back"
        /\ SeenUnits(t) = 0
    BY <1>21 DEF ReadForSendingBack, At
  <2> HIDE DEF value
  <2>2. Clean(t) BY <1>0, <2>1 DEF CleanBefore, BeforeWriting
  <2>3. pc'[t] = "send_back" /\ UNCHANGED <<committed, task, source>>
    BY <2>1, ReadsFrame DEF Base, ReadsToPost, dbVars
  <2>4. Steered(t)' /\ AsFound(t)' BY <1>5, <2>1, <2>2, <2>3 DEF Steered, Routed, AsFound, SentBackBy
  <2> QED BY <1>8, <2>1, <2>2, <2>4 DEF PurchasingWays
<1>9a. CASE SendBack(t)
  <2> DEFINE moved == Moved(t, Shop(t), -task[t].n)
             rows == Stock(Shop(t)) :> Moved(t, Shop(t), -task[t].n)
  <2>1. Writes(t, rows, "insert_return") /\ pc[t] = "send_back" /\ task[t].op = "send_back"
    BY <1>2, <1>9a DEF SendBack
  <2>2. DOMAIN rows = {shelf} /\ rows[shelf] = moved BY DEF :>
  <2> HIDE DEF rows
  <2>3. Clean(t) /\ task[t].op \in PurchasingOps BY <1>0, <2>1 DEF CleanBefore, BeforeWriting, PurchasingOps
  <2>4. /\ pc'[t] = "insert_return" /\ UNCHANGED <<committed, task, source>>
        /\ \A r : Sees(t, r)' = IF r \in DOMAIN rows THEN rows[r] ELSE Sees(t, r)
    BY <2>1, WritesSeen
  <2>5. ASSUME Apart({d})
        PROVE  AsWritten(t)'
    <3>1. SentBackBy(d) = 0 BY <1>4, <2>1, <2>5 DEF Running, Done, AsFound
    <3>2. MovedBy(d) = 0 BY <1>1, <1>3, <2>1, <2>3, <2>5, <3>1 DEF Settled, SentBackAsMoved
    <3>3. moved[d] = -task[t].n BY <1>1, <2>1, <2>3, <3>2, PlaceIsSeen, MovedIsItsOwn
    <3>4. Slot(t, Shop(t))' = -task[t].n BY <2>2, <2>4, <3>3 DEF Slot, Shop
    <3> QED BY <2>1, <2>4, <3>4 DEF AsWritten, SaleOps
  <2>6. \A r \in DOMAIN rows : r = shelf /\ rows[r] = Moved(t, Shop(t), -task[t].n) BY <2>2
  <2> QED BY <1>7, <2>1, <2>3, <2>5, <2>6
<1>23. CASE SendBackShort(t) BY <1>6, <1>23 DEF SendBackShort, Shortage, Done
<1>24. CASE InsertReturn(t)
  <2> DEFINE rows == read[t] :> source[t] @@ BoughtUnits(source[t]) :> task[t].n
  <2>1. Writes(t, rows, "post") /\ pc[t] = "insert_return" /\ task[t].op = "send_back"
    BY <1>2, <1>24 DEF InsertReturn
  <2>2. read[t][1] \in {"PUR", "PRET"} BY <1>0, <2>1 DEF OnItsWay, NumbersSought
  <2>3. DOMAIN rows = {read[t], BoughtUnits(d)} /\ rows[BoughtUnits(d)] = task[t].n
    BY <2>2 DEF :>, @@, BoughtUnits
  <2> HIDE DEF rows
  <2>4. task[t].op \in PurchasingOps BY <2>1 DEF PurchasingOps
  <2>5. /\ pc'[t] = "post" /\ UNCHANGED <<committed, task, source>>
        /\ \A r : Sees(t, r)' = IF r \in DOMAIN rows THEN rows[r] ELSE Sees(t, r)
    BY <2>1, WritesSeen
  <2>6. ASSUME Apart({d})
        PROVE  AsWritten(t)'
    <3>1. AsWritten(t) BY <1>4, <2>1, <2>6 DEF Running, Done
    <3>2. Slot(t, Shop(t)) = -task[t].n BY <2>1, <3>1 DEF AsWritten, Writing, BeforeWriting, Done
    <3>3. shelf \notin DOMAIN rows BY <2>2, <2>3 DEF Stock, BoughtUnits
    <3>4. Slot(t, Shop(t))' = -task[t].n /\ SeenUnits(t)' = task[t].n
      BY <2>3, <2>5, <3>2, <3>3 DEF Slot, SeenUnits, Shop
    <3> QED BY <1>1, <2>1, <2>4, <2>5, <3>4 DEF AsWritten, SaleOps
  <2>7. \A r \in DOMAIN rows : r = BoughtUnits(d) \/ r[1] \notin StockTables BY <2>2, <2>3 DEF StockTables
  <2> QED BY <1>7, <2>1, <2>4, <2>6, <2>7
<1>25. CASE ReturnNumberTaken(t) BY <1>6, <1>25 DEF ReturnNumberTaken, Duplicate, Done
<1>26. CASE ReadForSendingAnew(t)
  <2> DEFINE value == [n |-> SeenUnits(t), fits |-> task[t].n <= Returnable(t)]
  <2>1. /\ Reads(t, value, "send_anew") /\ pc[t] = "idle" /\ task[t].op = "send_back_anew"
        /\ value.n = SeenUnits(t)
    BY <1>26 DEF ReadForSendingAnew, At
  <2> HIDE DEF value
  <2>2. Clean(t) BY <1>0, <2>1 DEF CleanBefore, BeforeWriting
  <2>3. pc'[t] = "send_anew" /\ read'[t] = value /\ UNCHANGED <<committed, task, source>>
    BY <2>1, ReadsTo DEF Base, dbVars
  <2>4. Steered(t)' /\ AsFound(t)' BY <1>5, <2>1, <2>2, <2>3 DEF Steered, Routed, AsFound, SentBackBy
  <2> QED BY <1>8, <2>1, <2>2, <2>4 DEF PurchasingWays
<1>27. CASE SendAnew(t)
  <2> DEFINE delta == read[t].n - task[t].n
             rows == Stock(Shop(t)) :> Moved(t, Shop(t), read[t].n - task[t].n)
                        @@ BoughtUnits(source[t]) :> task[t].n
  <2>1. Ends(t, rows) /\ pc[t] = "send_anew" /\ task[t].op = "send_back_anew" BY <1>2, <1>27 DEF SendAnew
  <2>2. DOMAIN rows = {shelf, BoughtUnits(d)} /\ rows[shelf] = Moved(t, Shop(t), delta)
        /\ rows[BoughtUnits(d)] = task[t].n
    BY DEF :>, @@, BoughtUnits, Stock
  <2> HIDE DEF rows
  <2>3. Clean(t) /\ task[t].op \in PurchasingOps \ {"po_status"}
    BY <1>0, <2>1 DEF CleanBefore, BeforeWriting, PurchasingOps
  <2>4. d \in PurchaseReturn /\ d \notin Purchase /\ task[t].n \in Int BY <1>1, <2>1, <2>3
  <2>5. ASSUME Apart({d})
        PROVE  Slot(t, Shop(t)) \in Int /\ Slot(t, Shop(t)) + delta = -task[t].n
    <3>1. SentBackAsMoved(d) /\ read[t].n = SentBackBy(d)
      BY <1>3, <1>4, <2>1, <2>3, <2>4, <2>5 DEF Running, Done, AsFound, Settled
    <3> QED BY <2>3, <2>4, <3>1, PlaceIsSeen DEF SentBackAsMoved
  <2>6. \A r \in DOMAIN rows :
           (r = shelf /\ rows[r] = Moved(t, Shop(t), delta)) \/ r = BoughtUnits(d)
    BY <2>2
  <2>7. shelf \in DOMAIN rows /\ BoughtUnits(d) \in DOMAIN rows BY <2>2
  <2> HIDE DEF delta
  <2>8. Apart({d}) =>
           /\ task[t].n = IF BoughtUnits(d) \in DOMAIN rows THEN rows[BoughtUnits(d)] ELSE SeenUnits(t)
           /\ -task[t].n = Slot(t, Shop(t)) + (IF shelf \in DOMAIN rows THEN delta ELSE 0)
           /\ task[t].n \in Int /\ Slot(t, Shop(t)) \in Int
    BY <2>2, <2>4, <2>5, <2>7
  <2> QED BY <1>9, <2>1, <2>3, <2>4, <2>6, <2>8
<1>28. CASE SendNotAnew(t) BY <1>6, <1>28 DEF SendNotAnew, Done
<1>29. CASE ReadForKeeping(t)
  <2> DEFINE value == SeenUnits(t)
  <2>1. Reads(t, value, "remove_send_back") /\ pc[t] = "idle" /\ task[t].op = "remove_send_back"
    BY <1>29 DEF ReadForKeeping, At
  <2>2. Clean(t) BY <1>0, <2>1 DEF CleanBefore, BeforeWriting
  <2>3. pc'[t] = "remove_send_back" /\ read'[t] = value /\ UNCHANGED <<committed, task, source>>
    BY <2>1, ReadsTo DEF Base, dbVars
  <2>4. Steered(t)' /\ AsFound(t)' BY <1>5, <2>1, <2>2, <2>3 DEF Steered, Routed, AsFound, SentBackBy
  <2> QED BY <1>8, <2>1, <2>2, <2>4 DEF PurchasingWays
<1>30. CASE KeepUnits(t)
  <2> DEFINE rest == [r \in {q \in {Numbered("PRET", n) : n \in DocumentNumber} :
                                Sees(t, q) = source[t]} |-> Nobody]
             rows == Stock(Shop(t)) :> Moved(t, Shop(t), read[t])
                        @@ BoughtUnits(source[t]) :> 0 @@ rest
  <2>1. Ends(t, rows) /\ pc[t] = "remove_send_back" /\ task[t].op = "remove_send_back"
    BY <1>2, <1>30 DEF KeepUnits
  <2>2. \A r \in DOMAIN rest : r[1] \notin StockTables BY DEF Numbered, StockTables
  <2> HIDE DEF rest
  <2>3. DOMAIN rows = {shelf, BoughtUnits(d)} \cup DOMAIN rest /\ rows[shelf] = Moved(t, Shop(t), read[t])
        /\ rows[BoughtUnits(d)] = 0
    BY DEF :>, @@, BoughtUnits, Stock
  <2> HIDE DEF rows
  <2>4. Clean(t) /\ task[t].op \in PurchasingOps \ {"po_status"}
    BY <1>0, <2>1 DEF CleanBefore, BeforeWriting, PurchasingOps
  <2>5. d \in PurchaseReturn /\ d \notin Purchase BY <1>1, <2>1, <2>4
  <2>6. ASSUME Apart({d})
        PROVE  Slot(t, Shop(t)) \in Int /\ Slot(t, Shop(t)) + read[t] = 0
    <3>1. SentBackAsMoved(d) /\ read[t] = SentBackBy(d)
      BY <1>3, <1>4, <2>1, <2>4, <2>5, <2>6 DEF Running, Done, AsFound, Settled
    <3> QED BY <2>4, <3>1, PlaceIsSeen DEF SentBackAsMoved
  <2>7. \A r \in DOMAIN rows :
           \/ r = shelf /\ rows[r] = Moved(t, Shop(t), read[t])
           \/ r = BoughtUnits(d) \/ r[1] \notin StockTables
    BY <2>2, <2>3
  <2>8. shelf \in DOMAIN rows /\ BoughtUnits(d) \in DOMAIN rows BY <2>3
  <2>9. Apart({d}) =>
           /\ 0 = IF BoughtUnits(d) \in DOMAIN rows THEN rows[BoughtUnits(d)] ELSE SeenUnits(t)
           /\ 0 = Slot(t, Shop(t)) + (IF shelf \in DOMAIN rows THEN read[t] ELSE 0)
           /\ 0 \in Int /\ Slot(t, Shop(t)) \in Int
    BY <2>3, <2>6, <2>8
  <2>10. \A n \in Int : n + n = 0 => n = -n OBVIOUS
  <2> QED BY <1>9, <2>1, <2>4, <2>5, <2>7, <2>9, <2>10
<1>31. CASE RemovedAlready(t) BY <1>6, <1>31 DEF RemovedAlready, Done
<1> QED BY <1>10, <1>11, <1>12, <1>13, <1>14, <1>15, <1>16, <1>17, <1>18, <1>19, <1>20, <1>21,
     <1>9a, <1>23, <1>24, <1>25, <1>26, <1>27, <1>28, <1>29, <1>30, <1>31
     DEF PurchasingStep

LEMMA StockProductionStep ==
    ASSUME Base, StockInv, Watch, NEW t \in Tx, Footprint(t), ProductionStep(t)
    PROVE  StockInv' /\ OthersKept(t)
<1> DEFINE d == source[t]
           shelf == Stock(Shop(t))
           parts == Stock(ComponentShelf)
<1>0. OnItsWay(t) /\ Steered(t) /\ Tasks /\ CleanBefore(t) /\ pc[t] \notin Done
  BY DoneIsDone DEF Base, StockInv
<1>1. ASSUME task[t].op \in ProductionOps
      PROVE  /\ d \in Job /\ d \in Source /\ Shop(t) \in Shelf /\ ComponentShelf \in Shelf
             /\ shelf \in Row /\ parts \in Row /\ shelf # parts /\ JobStatus(d) \in Row
             /\ Consumed[d] \in Int /\ Output[d] \in Int
  <2>1. d \in Job BY <1>0, <1>1, StockRequests
  <2>2. d \in Source /\ Shop(t) \in Shelf /\ ComponentShelf \in Shelf /\ ComponentShelf # Shop(t)
    BY <2>1, DocumentsAreStored DEF IsDocument, Shop
  <2> QED BY <2>1, <2>2, StockRowsAreRows, QuantityAssumption DEF Stock
<1>2. /\ pc[t] \in ProductionWays => task[t].op \in ProductionOps
      /\ pc[t] \in {"consume", "yield"} => task[t].op = "complete_job"
  BY <1>0 DEF OnItsWay, Steered, Routed
<1>3. ASSUME task[t].op \in ProductionOps, Apart({d}), committed[JobStatus(d)] # "COMPLETED"
      PROVE  committed[parts][d] = 0 /\ MovedBy(d) = 0
  BY <1>1, <1>3 DEF StockInv, Settled, MadeAsMoved
<1>4. ASSUME Running(t), Apart({d})
      PROVE  AsFound(t) /\ AsWritten(t)
  BY <1>4 DEF StockInv, InHand
<1>5. Clean(t) => SeenJob(t) = committed[JobStatus(d)] BY CleanSees DEF JobStatus, StockTables, SeenJob
<1>6. ASSUME NEW outcome \in Done, Throws(t, outcome)
      PROVE  StockInv' /\ OthersKept(t)
  BY <1>6, StockThrown
\* A read before anything is written.
<1>7. ASSUME Clean(t), NEW v, NEW s \in {"check_components", "set_job", "consume"}, Reads(t, v, s),
             s = "consume" => task[t].op = "complete_job",
             Apart({d}) => committed[JobStatus(d)] # "COMPLETED"
                           /\ (s # "consume" => v # "COMPLETED")
      PROVE  StockInv' /\ OthersKept(t)
  <2>1. pc'[t] = s /\ read'[t] = v /\ UNCHANGED <<committed, task, source>>
    BY <1>7, ReadsTo DEF Base, dbVars
  <2>2. Steered(t)' BY <1>7, <2>1 DEF Steered, Routed
  <2>3. Apart({d}) => InHand(t)' BY <1>7, <2>1 DEF InHand, AsFound, AsWritten, Writing, BeforeWriting
  <2> QED BY <1>7, <2>2, <2>3, StockRead
<1>8. CASE ReadForStart(t)
  <2>1. Reads(t, "IN_PROGRESS", "check_components") /\ pc[t] = "idle" /\ SeenJob(t) = "DRAFT"
    BY <1>8 DEF ReadForStart, At, StartableIn
  <2> QED BY <1>0, <1>5, <1>7, <2>1 DEF CleanBefore, BeforeWriting
<1>9. CASE CheckComponents(t)
  <2>1. pc[t] = "check_components" /\ (Reads(t, read[t], "set_job") \/ Throws(t, "refused"))
    BY <1>9 DEF CheckComponents
  <2>2. Clean(t) BY <1>0, <2>1 DEF CleanBefore, BeforeWriting
  <2>3. Apart({d}) => committed[JobStatus(d)] # "COMPLETED" /\ read[t] # "COMPLETED"
    BY <1>4, <2>1 DEF Running, Done, AsFound
  <2> QED BY <1>6, <1>7, <2>1, <2>2, <2>3 DEF Done
<1>10. CASE ReadForCancel(t)
  <2>1. Reads(t, "CANCELLED", "set_job") /\ pc[t] = "idle" /\ SeenJob(t) # "COMPLETED"
    BY <1>10 DEF ReadForCancel, At, CancellableIn
  <2> QED BY <1>0, <1>5, <1>7, <2>1 DEF CleanBefore, BeforeWriting
<1>11. CASE SetJob(t)
  <2> DEFINE rows == JobStatus(source[t]) :> read[t]
  <2>1. Stores(t, rows, "committed") /\ pc[t] = "set_job" /\ task[t].op \in ProductionOps
    BY <1>2, <1>11 DEF SetJob, ProductionWays
  <2>2. DOMAIN rows = {JobStatus(d)} /\ rows[JobStatus(d)] = read[t] BY DEF :>
  <2> HIDE DEF rows
  <2>3. Clean(t) BY <1>0, <2>1 DEF CleanBefore, BeforeWriting
  <2>4. OwnRows(t, rows) BY <2>2 DEF OwnRows, JobStatus
  <2>5. /\ UNCHANGED <<task, source>>
        /\ \A r \in Row : r[1] \in StockTables =>
              committed'[r] = IF r \in DOMAIN rows THEN rows[r] ELSE Sees(t, r)
    BY <2>1, <2>3, EndsAsSeen
  <2>6. ASSUME Apart({d})
        PROVE  Settled(d)'
    <3>1. committed[JobStatus(d)] # "COMPLETED" /\ read[t] # "COMPLETED"
      BY <1>4, <2>1, <2>6 DEF Running, Done, AsFound
    <3>2. /\ committed'[JobStatus(d)] = read[t]
          /\ committed'[shelf] = committed[shelf] /\ committed'[parts] = committed[parts]
      BY <1>1, <2>1, <2>2, <2>3, <2>5, CleanSees DEF JobStatus, Stock, StockTables
    <3>3. committed'[parts][d] = 0 /\ MovedBy(d)' = 0
      BY <1>3, <2>1, <2>5, <2>6, <3>1, <3>2 DEF MovedBy, Shop
    <3>4. MadeAsMoved(d)' BY <2>5, <3>1, <3>2, <3>3 DEF MadeAsMoved
    <3> QED BY <1>1, <2>1, <2>5, <3>4, KindsAreApart DEF Settled
  <2> QED BY <1>0, <2>1, <2>3, <2>4, <2>6, StockCommitted
<1>12. CASE ReadForCompletion(t)
  <2>1. Reads(t, Nothing, "consume") /\ pc[t] = "idle" /\ SeenJob(t) = "IN_PROGRESS"
        /\ task[t].op = "complete_job"
    BY <1>12 DEF ReadForCompletion, At, CompletableIn
  <2> QED BY <1>0, <1>5, <1>7, <2>1 DEF CleanBefore, BeforeWriting
<1>13. CASE Consume(t)
  <2> DEFINE moved == Moved(t, ComponentShelf, -Consumed[source[t]])
             rows == Stock(ComponentShelf) :> Moved(t, ComponentShelf, -Consumed[source[t]])
  <2>1. Writes(t, rows, "yield") /\ pc[t] = "consume" /\ task[t].op = "complete_job"
    BY <1>2, <1>13 DEF Consume
  <2>2. DOMAIN rows = {parts} /\ rows[parts] = moved BY DEF :>
  <2> HIDE DEF rows
  <2>3. Clean(t) /\ task[t].op \in ProductionOps BY <1>0, <2>1 DEF CleanBefore, BeforeWriting, ProductionOps
  <2>4. OwnRows(t, rows) BY <1>1, <2>2, <2>3, OwnShelf
  <2>5. /\ pc'[t] = "yield" /\ UNCHANGED <<committed, task, source>>
        /\ \A r : Sees(t, r)' = IF r \in DOMAIN rows THEN rows[r] ELSE Sees(t, r)
    BY <2>1, WritesSeen
  <2>6. Steered(t)' BY <2>1, <2>5 DEF Steered, Routed
  <2>7. ASSUME Apart({d})
        PROVE  InHand(t)'
    <3>1. committed[parts][d] = 0 /\ MovedBy(d) = 0
      BY <1>3, <1>4, <2>1, <2>3, <2>7 DEF Running, Done, AsFound
    <3>2. Slot(t, ComponentShelf) = 0 /\ Slot(t, Shop(t)) = 0 BY <2>3, <3>1, PlaceIsSeen DEF Settling
    <3>3. moved[d] = -Consumed[d] BY <1>1, <2>3, <3>2, MovedIsItsOwn
    <3>4. Slot(t, ComponentShelf)' = -Consumed[d] /\ Slot(t, Shop(t))' = 0
      BY <1>1, <2>2, <2>3, <2>5, <3>2, <3>3 DEF Slot, Shop
    <3>5. AsWritten(t)' BY <2>1, <2>5, <3>4 DEF AsWritten, SaleOps
    <3> QED BY <2>5, <3>5 DEF InHand, AsFound
  <2> QED BY <2>1, <2>3, <2>4, <2>6, <2>7, StockWritten DEF BeforeWriting, Done, StockOps
<1>14. CASE ConsumeShort(t) BY <1>6, <1>14 DEF ConsumeShort, Shortage, Done
<1>15. CASE Yield(t)
  <2> DEFINE moved == Moved(t, Shop(t), Output[source[t]])
             rows == Stock(Shop(t)) :> Moved(t, Shop(t), Output[source[t]])
                        @@ JobStatus(source[t]) :> "COMPLETED"
  <2>1. Ends(t, rows) /\ pc[t] = "yield" /\ task[t].op = "complete_job" BY <1>2, <1>15 DEF Yield
  <2>2. DOMAIN rows = {shelf, JobStatus(d)} /\ rows[shelf] = moved /\ rows[JobStatus(d)] = "COMPLETED"
    BY DEF :>, @@, JobStatus, Stock
  <2> HIDE DEF rows
  <2>3. task[t].op \in ProductionOps BY <2>1 DEF ProductionOps
  <2>4. OwnRows(t, rows) BY <1>1, <2>2, <2>3, OwnShelf DEF JobStatus, StockTables
  <2>5. /\ UNCHANGED <<task, source>>
        /\ \A r \in Row : r[1] \in StockTables =>
              committed'[r] = IF r \in DOMAIN rows THEN rows[r] ELSE Sees(t, r)
    BY <2>1, EndsAsSeen
  <2>6. ASSUME Apart({d})
        PROVE  Settled(d)'
    <3>1. Slot(t, Shop(t)) = 0 /\ Slot(t, ComponentShelf) = -Consumed[d]
      BY <1>4, <2>1, <2>6 DEF Running, Done, AsWritten, Writing, BeforeWriting
    <3>2. moved[d] = Output[d] BY <1>1, <2>3, <3>1, MovedIsItsOwn
    <3>3. committed'[shelf] = moved /\ committed'[parts] = Sees(t, parts)
          /\ committed'[JobStatus(d)] = "COMPLETED"
      BY <1>1, <2>2, <2>3, <2>5 DEF JobStatus, Stock, StockTables
    <3>4. committed'[parts][d] = -Consumed[d] /\ MovedBy(d)' = Output[d]
      BY <2>5, <3>1, <3>2, <3>3 DEF Slot, MovedBy, Shop
    <3>5. MadeAsMoved(d)' BY <2>5, <3>3, <3>4 DEF MadeAsMoved
    <3> QED BY <1>1, <2>3, <2>5, <3>5, KindsAreApart DEF Settled
  <2> QED BY <1>0, <2>1, <2>4, <2>6, StockCommitted
<1> QED BY <1>8, <1>9, <1>10, <1>11, <1>12, <1>13, <1>14, <1>15 DEF ProductionStep

-----------------------------------------------------------------------------
(* Stock at the start, and the rows of orders.                               *)

LEMMA AddUpToOne ==
    ASSUME NEW n \in Int, NEW S, NEW y \in Shelf \cap S
    PROVE  AddUp([p \in Shelf |-> IF p = y THEN n ELSE 0], n, S)
<1> DEFINE f == [p \in Shelf |-> IF p = y THEN n ELSE 0]
<1>1. f \in [Shelf -> Int] /\ f[y] = n /\ \A p \in Shelf : p # y => f[p] = 0
  OBVIOUS
<1> HIDE DEF f
<1>2. SumFunction(f) = n BY <1>1, TotalOfOneRow, SumIsTotal, FiniteAssumption
<1>3. AddUp(f, n, S) BY <1>1, <1>2 DEF AddUp
<1> QED BY <1>3 DEF f

LEMMA MovedAtStart ==
    ASSUME NEW d, IsDocument(d)
    PROVE  /\ d \in Sale => \A p : StockAtStart(p)[d] = IF p = ShelfOf[d] THEN -Existing[d] ELSE 0
           /\ d \in Return => \A p : StockAtStart(p)[d] = IF p = ShelfOf[d] THEN Existing[d] ELSE 0
           /\ d \in PurchaseOrder => StockAtStart(ShelfOf[d])[d] = 0
           /\ d \in Purchase => StockAtStart(ShelfOf[d])[d] = AtStart[d]
           /\ d \in PurchaseReturn => StockAtStart(ShelfOf[d])[d] = -AtStart[d]
           /\ d \in Job => StockAtStart(ShelfOf[d])[d] = 0 /\ StockAtStart(ComponentShelf)[d] = 0
<1>1. d \in Source /\ d \in DOMAIN ShelfOf /\ (d \in Job => ComponentShelf # ShelfOf[d])
  BY DocumentsAreStored
<1>2. \A p : StockAtStart(p)[d] = SaleMovedAtStart(p)[d] + PurchasesMoved(p)[d] BY <1>1 DEF StockAtStart
<1>3. /\ d \in Sale => \A p : SaleMovedAtStart(p)[d] = IF p = ShelfOf[d] THEN -Existing[d] ELSE 0
      /\ d \in Return => \A p : SaleMovedAtStart(p)[d] = IF p = ShelfOf[d] THEN Existing[d] ELSE 0
      /\ d \notin Sale \cup Return => SaleMovedAtStart(ShelfOf[d])[d] = 0
      /\ d \in Job => SaleMovedAtStart(ComponentShelf)[d] = 0
  BY <1>1, KindsAreApart DEF SaleMovedAtStart
<1>4. /\ d \in Purchase => PurchasesMoved(ShelfOf[d])[d] = AtStart[d]
      /\ d \in PurchaseReturn => PurchasesMoved(ShelfOf[d])[d] = -AtStart[d]
      /\ d \notin Purchase \cup PurchaseReturn => \A p : PurchasesMoved(p)[d] = 0
  BY <1>1, KindsAreApart DEF PurchasesMoved
<1> QED BY <1>2, <1>3, <1>4, KindsAreApart, QuantityAssumption

LEMMA StockInit == Init => StockInv /\ OrdersInv
<1> SUFFICES ASSUME Init PROVE StockInv /\ OrdersInv OBVIOUS
<1>2. ASSUME NEW p \in Shelf
      PROVE  committed[Stock(p)] = StockAtStart(p)
  <2>1. Stock(p) \in StockRows /\ Stock(p)[2] = p BY DEF StockRows, Stock
  <2>2. /\ Stock(p) \notin PostingRows /\ Stock(p) \notin DeskRows /\ Stock(p) \notin BackOfficeRows
        /\ Stock(p) \in Row
    BY <2>1, Tables, StockRowsAreRows DEF Stock, DeskRows, BackOfficeRows
  <2>3. InitialRow(Stock(p)) = StockAtStart(Stock(p)[2]) BY <2>1, <2>2 DEF InitialRow
  <2>4. StockAtStart(Stock(p)[2]) = StockAtStart(p) BY <2>1
  <2> QED BY Starts, <2>2, <2>3, <2>4
<1>3. ASSUME NEW d \in Sale
      PROVE  committed[Items(d)].n = Existing[d]
  <2>1. Items(d) \in SaleRows /\ Items(d)[1] = "items" /\ Items(d)[2] = d BY DEF SaleRows, Items
  <2> QED BY Starts, <2>1, StartOfRows, StockRowsAreRows DEF SaleInitialRow
<1>4. ASSUME NEW d \in Return
      PROVE  committed[Returned(d)] = Existing[d]
  <2>1. Returned(d) \in SaleRows /\ Returned(d)[1] = "return" /\ Returned(d)[2] = d
    BY DEF SaleRows, Returned
  <2> QED BY Starts, <2>1, StartOfRows, StockRowsAreRows DEF SaleInitialRow
<1>5. ASSUME NEW d \in Order
      PROVE  "status" \in DOMAIN committed[OrderRow(d)]
  <2>1. OrderRow(d) \in OrderRows /\ OrderRow(d)[1] = "order" BY DEF OrderRows, OrderRow
  <2> QED BY Starts, <2>1, StartOfRows, StockRowsAreRows DEF OrderInitialRow
<1>6. ASSUME NEW d \in PurchaseOrder
      PROVE  committed[OrderStatus(d)] = "ORDERED"
  <2>1. OrderStatus(d) \in PurchasingRows /\ OrderStatus(d)[1] = "po" /\ OrderStatus(d) # Supplier
    BY DEF PurchasingRows, OrderStatus, Supplier
  <2> QED BY Starts, <2>1, StartOfRows, StockRowsAreRows DEF PurchasingInitialRow
<1>7. ASSUME NEW d \in Purchase \cup PurchaseReturn
      PROVE  committed[BoughtUnits(d)] = AtStart[d]
  <2>1. /\ BoughtUnits(d) \in PurchasingRows /\ BoughtUnits(d)[1] = "units"
        /\ BoughtUnits(d)[2] = d /\ BoughtUnits(d) # Supplier
    BY DEF PurchasingRows, BoughtUnits, Supplier
  <2> QED BY Starts, <2>1, StartOfRows, StockRowsAreRows DEF PurchasingInitialRow
<1>8. ASSUME NEW d \in Job
      PROVE  committed[JobStatus(d)] = "DRAFT"
  <2>1. JobStatus(d) \in ProductionRows BY DEF ProductionRows
  <2> QED BY Starts, <2>1, StartOfRows, StockRowsAreRows
<1>9. Tasks /\ \A t \in Tx : Steered(t) /\ OwnRows(t, pending[t]) /\ CleanBefore(t) /\ ~Running(t)
  BY Starts DEF Tasks, Steered, Routed, OwnRows, CleanBefore, Clean, Running
<1>10. \A p \in Shelf : DOMAIN committed[Stock(p)] = Source BY <1>2 DEF StockAtStart
<1>11. ASSUME NEW d \in Source
       PROVE  Settled(d)
  <2>1. CASE ~IsDocument(d) BY <2>1 DEF IsDocument, Settled
  <2>2. CASE IsDocument(d)
    <3>1. MovedBy(d) = StockAtStart(ShelfOf[d])[d] BY <1>2, <2>2, DocumentsAreStored DEF MovedBy
    <3>2. d \in Job => committed[Stock(ComponentShelf)][d] = StockAtStart(ComponentShelf)[d]
      BY <1>2, DocumentsAreStored
    <3>3. ASSUME d \in Sale \cup Return, NEW n \in Int,
                 \A p \in Shelf : StockAtStart(p)[d] = IF p = ShelfOf[d] THEN n ELSE 0
          PROVE  AddUp(PlacesOf(d), n, ShelvesOf(d))
      <4>1. PlacesOf(d) = [p \in Shelf |-> IF p = ShelfOf[d] THEN n ELSE 0] BY <1>2, <3>3 DEF PlacesOf
      <4>2. ShelfOf[d] \in Shelf \cap ShelvesOf(d) BY <2>2, DocumentsAreStored DEF ShelvesOf
      <4> QED BY <4>1, <4>2, AddUpToOne
    <3>4. /\ d \in Sale => SoldAsMoved(d)
          /\ d \in Return => ReturnedAsMoved(d)
      <4>1. CASE d \in Sale
        <5>1. d \notin Return /\ Existing[d] \in Int BY <2>2, <4>1, KindsAreApart, QuantityAssumption
        <5>2. \A p \in Shelf : StockAtStart(p)[d] = IF p = ShelfOf[d] THEN -Existing[d] ELSE 0
          BY <2>2, <4>1, MovedAtStart
        <5>3. AddUp(PlacesOf(d), -Existing[d], ShelvesOf(d)) BY <3>3, <4>1, <5>1, <5>2
        <5> QED BY <1>3, <4>1, <5>1, <5>3 DEF SoldAsMoved, SoldBy
      <4>2. CASE d \in Return
        <5>1. d \notin Sale /\ Existing[d] \in Int BY <2>2, <4>2, KindsAreApart, QuantityAssumption
        <5>2. \A p \in Shelf : StockAtStart(p)[d] = IF p = ShelfOf[d] THEN Existing[d] ELSE 0
          BY <2>2, <4>2, MovedAtStart
        <5>3. AddUp(PlacesOf(d), Existing[d], ShelvesOf(d)) BY <3>3, <4>2, <5>1, <5>2
        <5> QED BY <1>4, <4>2, <5>1, <5>3 DEF ReturnedAsMoved, TakenBackBy
      <4> QED BY <4>1, <4>2
    <3> QED BY <1>6, <1>7, <1>8, <2>2, <3>1, <3>2, <3>4, MovedAtStart, QuantityAssumption DEF
      Settled, ReceivedAsMoved, BoughtAsMoved, SentBackAsMoved, MadeAsMoved, SentBackBy
  <2> QED BY <2>1, <2>2
<1> QED BY Starts, <1>5, <1>9, <1>10, <1>11 DEF StockInv, OrdersInv

-----------------------------------------------------------------------------
(* Orders are written only as they are committed, and keep a status.         *)

LEMMA OrdersSpared ==
    ASSUME OrdersInv, NEW t \in Tx, NEW T, Frame(t, T), "order" \notin T
    PROVE  OrdersInv'
<1>1. Spares(t, {"order"}) BY FrameSpares
<1>2. ASSUME NEW o \in Order
      PROVE  /\ committed'[OrderRow(o)] = committed[OrderRow(o)]
             /\ OrderRow(o) \notin DOMAIN pending'[t]
  <2>1. OrderRow(o) \in Row /\ OrderRow(o)[1] \in {"order"} BY StockRowsAreRows DEF OrderRow
  <2>2. OrderRow(o) \notin DOMAIN pending[t] BY DEF OrdersInv
  <2> QED BY <1>1, <2>1, <2>2 DEF Spares, Sees
<1>3. \A u \in Tx : u # t => pending'[u] = pending[u] BY DEF Frame
<1> QED BY <1>2, <1>3 DEF OrdersInv

LEMMA OrdersCommitted ==
    ASSUME Base, OrdersInv, NEW t \in Tx, NEW rows, Ends(t, rows),
           \A o \in Order : OrderRow(o) \in DOMAIN rows => "status" \in DOMAIN rows[OrderRow(o)]
    PROVE  OrdersInv'
<1> DEFINE T == {r[1] : r \in DOMAIN rows}
<1>1. InTables(rows, T) BY DEF InTables
<1> HIDE DEF T
<1>2. /\ Frame(t, T) /\ Published(t, T)
      /\ \A r \in Row : committed'[r] = IF r \in DOMAIN rows THEN rows[r] ELSE Sees(t, r)
  BY <1>1, CommitsFrame DEF Base, Ends
<1>3. \A o \in Order : OrderRow(o) \in Row /\ Sees(t, OrderRow(o)) = committed[OrderRow(o)]
  BY StockRowsAreRows DEF OrdersInv, Sees
<1> QED BY <1>2, <1>3 DEF OrdersInv, Frame, Published

LEMMA OrdersElsewhereStep ==
    ASSUME OrdersInv, NEW t \in Tx, Footprint(t), ~OrderStep(t)
    PROVE  OrdersInv'
<1>1. Elsewhere(t, {"deliver"}) BY Services
<1>2. ASSUME NEW T, NEW O, NEW W, IsService(T, O, W), Foot(t, T, O, W), {"deliver"} \cap W = {}
      PROVE  OrdersInv'
  BY <1>2, OrdersSpared, ServicesApart DEF Foot, ItemTables
<1> QED BY <1>1, <1>2, OrdersSpared DEF Elsewhere, PostingFoot, PostingTables

LEMMA OrdersOwnStep ==
    ASSUME Base, StockInv, OrdersInv, NEW t \in Tx, OrderStep(t)
    PROVE  OrdersInv'
<1> DEFINE d == source[t]
<1>0. OnItsWay(t) /\ Tasks /\ Shape /\ Locks BY DEF Base, StockInv
<1>1. pc[t] \in OrderWays => d \in Order BY <1>0, StockRequests DEF OnItsWay, Routed
<1>2. d \in Order => "status" \in DOMAIN SeenOrder(t) BY DEF OrdersInv, SeenOrder, Sees
<1>3. \A o \in Order : OrderRow(o) = OrderRow(d) => o = d BY DEF OrderRow
<1>4. ASSUME NEW v, NEW s, Reads(t, v, s)
      PROVE  OrdersInv'
  <2>1. Frame(t, {}) BY <1>0, <1>4, ReadsFrame
  <2> QED BY <2>1, OrdersSpared
<1>5. ASSUME NEW s, Throws(t, s)
      PROVE  OrdersInv'
  <2>1. Frame(t, {}) BY <1>0, <1>5, ThrowsFrame
  <2> QED BY <2>1, OrdersSpared
<1>6. ASSUME NEW rows, NEW s, Writes(t, rows, s), NEW T, InTables(rows, T), "order" \notin T
      PROVE  OrdersInv'
  <2>1. Frame(t, T) BY <1>0, <1>6, WritesFrame
  <2> QED BY <1>6, <2>1, OrdersSpared
<1>7. CASE ReadForOrderStatus(t)
  <2> DEFINE value == [n |-> Ordered(t), total |-> SeenOrder(t).total]
             next == IF task[t].status = "DELIVERED" /\ SeenOrder(t).status # "DELIVERED"
                     THEN "deliver" ELSE "set_status"
  <2>1. Reads(t, value, next) BY <1>7 DEF ReadForOrderStatus
  <2> HIDE DEF value, next
  <2> QED BY <1>4, <2>1
<1>8. CASE DeliverLines(t)
  <2> DEFINE rows == Stock(Shop(t)) :> Moved(t, Shop(t), -read[t].n)
  <2>1. Writes(t, rows, "spend") BY <1>8 DEF DeliverLines
  <2>2. InTables(rows, {"stock"}) BY DEF :>, Stock, InTables
  <2> HIDE DEF rows
  <2> QED BY <1>6, <2>1, <2>2
<1>9. CASE DeliverShort(t) BY <1>5, <1>9 DEF DeliverShort, Shortage
<1>10. CASE SpendOnOrder(t)
  <2> DEFINE rows == Customer :> [SeenCustomer(t) EXCEPT !.spent = @ + read[t].total]
  <2>1. Writes(t, rows, "set_status") BY <1>10 DEF SpendOnOrder
  <2>2. InTables(rows, {"customer"}) BY DEF :>, Customer, InTables
  <2> HIDE DEF rows
  <2> QED BY <1>6, <2>1, <2>2
<1>11. CASE SetOrderStatus(t)
  <2> DEFINE rows == OrderRow(source[t]) :> [SeenOrder(t) EXCEPT !.status = task[t].status]
  <2>1. Ends(t, rows) /\ d \in Order BY <1>1, <1>11 DEF SetOrderStatus, OrderWays
  <2>2. DOMAIN rows = {OrderRow(d)} /\ "status" \in DOMAIN rows[OrderRow(d)] BY <1>2, <2>1 DEF :>
  <2> HIDE DEF rows
  <2> QED BY <1>3, <2>1, <2>2, OrdersCommitted
<1>12. CASE ReadForDeposit(t) BY <1>4, <1>12 DEF ReadForDeposit
<1>13. CASE TakeDeposit(t)
  <2> DEFINE rows == Deposit(t) :> task[t].n @@ OrderRow(source[t]) :> [SeenOrder(t) EXCEPT !.paid = read[t]]
  <2>1. Ends(t, rows) /\ d \in Order BY <1>1, <1>13 DEF TakeDeposit, OrderWays
  <2>2. DOMAIN rows = {Deposit(t), OrderRow(d)} /\ "status" \in DOMAIN rows[OrderRow(d)]
    BY <1>2, <2>1 DEF :>, @@, Deposit, OrderRow
  <2>3. \A o \in Order : OrderRow(o) # Deposit(t) BY DEF OrderRow, Deposit
  <2> HIDE DEF rows
  <2> QED BY <1>3, <2>1, <2>2, <2>3, OrdersCommitted
<1>14. CASE ReadForOrderEdit(t) BY <1>4, <1>14 DEF ReadForOrderEdit
<1>15. CASE FindLines(t)
  <2> DEFINE value == LinesSeen(t)
  <2>1. Reads(t, value, "delete_lines") BY <1>15 DEF FindLines
  <2> HIDE DEF value
  <2> QED BY <1>4, <2>1
<1>16. CASE DeleteLines(t)
  <2> DEFINE rows == [r \in read[t] |-> 0]
  <2>1. Writes(t, rows, "replace_lines") BY <1>16 DEF DeleteLines
  <2>2. InTables(rows, {"lines"}) BY <1>0, <1>16 DEF DeleteLines, OnItsWay, LinesSought, InTables
  <2> HIDE DEF rows
  <2> QED BY <1>6, <2>1, <2>2
<1>17. CASE ReplaceLines(t)
  <2> DEFINE rows == Lines(source[t], t) :> task[t].n
                        @@ OrderRow(source[t]) :> [SeenOrder(t) EXCEPT !.total = task[t].n,
                                                                       !.status = task[t].status]
  <2>1. Ends(t, rows) /\ d \in Order BY <1>1, <1>17 DEF ReplaceLines, OrderWays
  <2>2. DOMAIN rows = {Lines(d, t), OrderRow(d)} /\ "status" \in DOMAIN rows[OrderRow(d)]
    BY <1>2, <2>1 DEF :>, @@, Lines, OrderRow
  <2>3. \A o \in Order : OrderRow(o) # Lines(d, t) BY DEF OrderRow, Lines
  <2> HIDE DEF rows
  <2> QED BY <1>3, <2>1, <2>2, <2>3, OrdersCommitted
<1>18. CASE ReadForOrderRemove(t) BY <1>4, <1>18 DEF ReadForOrderRemove
<1>19. CASE RemoveOrder(t)
  <2> DEFINE rows == [r \in {OrderRow(source[t])} \cup {Lines(source[t], by) : by \in Makers}
                               \cup {Deposit(u) : u \in {v \in Tx : source[v] = source[t]}} |->
                        IF r = OrderRow(source[t]) THEN NoOrder ELSE 0]
  <2>1. Ends(t, rows) BY <1>19 DEF RemoveOrder
  <2>2. ASSUME NEW o \in Order, OrderRow(o) \in DOMAIN rows
        PROVE  "status" \in DOMAIN rows[OrderRow(o)]
    <3>1. OrderRow(o) = OrderRow(d) BY <2>2 DEF OrderRow, Lines, Deposit
    <3> QED BY <2>2, <3>1 DEF NoOrder
  <2> HIDE DEF rows
  <2> QED BY <2>1, <2>2, OrdersCommitted
<1>20. CASE OrderGone(t) BY <1>5, <1>20 DEF OrderGone
<1> QED BY <1>7, <1>8, <1>9, <1>10, <1>11, <1>12, <1>13, <1>14, <1>15, <1>16, <1>17, <1>18, <1>19,
  <1>20 DEF OrderStep

-----------------------------------------------------------------------------
(* Every step of the tenant.                                                 *)

LEMMA LeavesOnOwnDelivery ==
    ASSUME NEW t \in Tx, UNCHANGED source, OthersKept(t), source[t] \in Order => Delivers(t)
    PROVE  LeavesOnDelivery
<1> SUFFICES ASSUME NEW o \in Order, MovedBy(o)' # MovedBy(o), Apart({o})'
             PROVE  OrderOf(o).status # "DELIVERED" /\ OrderOf(o)'.status = "DELIVERED"
  BY DEF LeavesOnDelivery
<1>1. o = source[t] BY DocumentsAreStored DEF OthersKept, IsDocument, MovedBy
<1>2. Delivers(t) /\ MovedBy(source[t])' = MovedBy(o)' /\ OrderOf(source[t])' = OrderOf(o)'
      /\ Apart({source[t]})'
  BY <1>1 DEF MovedBy, OrderOf
<1> QED BY <1>1, <1>2 DEF Delivers

LEMMA NotAboutOrders ==
    ASSUME Base, StockInv, NEW t \in Tx,
           SaleStep(t) \/ ReturnStep(t) \/ PurchasingStep(t) \/ ProductionStep(t)
    PROVE  source[t] \notin Order
<1>0. OnItsWay(t) /\ Tasks /\ Shape /\ Locks BY DEF Base, StockInv
<1>1. CASE SaleStep(t)
  <2>1. task[t].op \in SaleOps BY <1>0, <1>1, SaleFoot DEF Foot, From, OnItsWay, Routed
  <2> QED BY <1>0, <2>1, StockRequests, KindsAreApart
<1>2. CASE ReturnStep(t)
  <2>1. task[t].op \in ReturnOps BY <1>0, <1>2, ReturnFoot DEF Foot, From, OnItsWay, Routed
  <2> QED BY <1>0, <2>1, StockRequests, KindsAreApart
<1>3. CASE PurchasingStep(t)
  <2>1. task[t].op \in PurchasingOps BY <1>0, <1>3, PurchasingFoot DEF Foot, From, OnItsWay, Routed
  <2>2. source[t] \in PurchaseOrder \cup Purchase \cup PurchaseReturn
    BY <1>0, <2>1, StockRequests DEF PurchasingOps
  <2> QED BY <2>2, KindsAreApart
<1>4. CASE ProductionStep(t)
  <2>1. task[t].op \in ProductionOps BY <1>0, <1>4, ProductionFoot DEF Foot, From, OnItsWay, Routed
  <2> QED BY <1>0, <2>1, StockRequests, KindsAreApart
<1> QED BY <1>1, <1>2, <1>3, <1>4

LEMMA StockServe ==
    ASSUME Base, StockInv, OrdersInv, Watch, NEW t \in Tx, Footprint(t)
    PROVE  StockInv' /\ OrdersInv' /\ LeavesOnDelivery
<1>0. UNCHANGED source BY DEF Footprint, Foot, PostingFoot, Frame
<1>1. CASE OrderStep(t)
  <2>1. StockInv' /\ OthersKept(t) /\ Delivers(t) BY <1>1, StockOrderStep
  <2>2. OrdersInv' BY <1>1, OrdersOwnStep
  <2> QED BY <1>0, <2>1, <2>2, LeavesOnOwnDelivery
<1>2. CASE ~OrderStep(t) /\ (SaleStep(t) \/ ReturnStep(t) \/ PurchasingStep(t) \/ ProductionStep(t))
  <2>1. StockInv' /\ OthersKept(t)
    BY <1>2, StockSaleStep, StockReturnStep, StockPurchasingStep, StockProductionStep
  <2>2. OrdersInv' /\ source[t] \notin Order BY <1>2, OrdersElsewhereStep, NotAboutOrders
  <2> QED BY <1>0, <2>1, <2>2, LeavesOnOwnDelivery
<1>3. CASE ~OrderStep(t) /\ ~(SaleStep(t) \/ ReturnStep(t) \/ PurchasingStep(t) \/ ProductionStep(t))
  <2>1. StockInv' /\ StockStays BY <1>3, StockElsewhereStep
  <2>2. OrdersInv' BY <1>3, OrdersElsewhereStep
  <2>3. \A o \in Order : MovedBy(o)' = MovedBy(o)
    BY <2>1, DocumentsAreStored, StockRowsAreRows DEF StockStays, StockTables, Stock, IsDocument,
      MovedBy
  <2> QED BY <2>1, <2>2, <2>3 DEF LeavesOnDelivery
<1> QED BY <1>1, <1>2, <1>3

LEMMA StockStutters ==
    ASSUME StockInv, OrdersInv, UNCHANGED vars
    PROVE  StockInv' /\ OrdersInv' /\ \A o \in Order : MovedBy(o)' = MovedBy(o)
<1>1. UNCHANGED <<committed, pending, pc, read, amount, task, source, overlapped>>
  BY DEF vars, dbVars, postingVars
<1> USE <1>1
<1>2. Tasks' /\ \A p \in Shelf : DOMAIN committed'[Stock(p)] = Source BY DEF StockInv, Tasks
<1>3. ASSUME NEW t \in Tx
      PROVE  Steered(t)' /\ OwnRows(t, pending[t])' /\ CleanBefore(t)'
  BY DEF StockInv, Steered, Routed, OwnRows, OnlyItsOwn, CleanBefore, Clean
<1>4. ASSUME NEW d \in Source, Apart({d})'
      PROVE  Settled(d)'
  BY <1>4 DEF StockInv, Apart, Settled, SoldAsMoved, ReturnedAsMoved, BoughtAsMoved, SentBackAsMoved,
    ReceivedAsMoved, MadeAsMoved, SoldBy, TakenBackBy, SentBackBy, MovedBy, PlacesOf, ShelvesOf, Edited
<1>5. ASSUME NEW t \in Tx, Running(t)', Apart({source[t]})'
      PROVE  InHand(t)'
  <2>1. InHand(t) BY <1>5 DEF StockInv, Running, Apart
  <2>2. AsFound(t)' BY <2>1 DEF InHand, AsFound, SoldBy, TakenBackBy, SentBackBy, OrderOf
  <2>3. AsWritten(t)'
    BY <2>1 DEF InHand, AsWritten, Writing, Slot, Settling, Sees, SeenItems, SeenReturn, SeenUnits,
      OrderOf, Shop, SeenPlaces, ShelvesOf, Edited
  <2> QED BY <2>2, <2>3 DEF InHand
<1>6. OrdersInv' /\ \A o \in Order : MovedBy(o)' = MovedBy(o) BY DEF OrdersInv, MovedBy
<1> QED BY <1>2, <1>3, <1>4, <1>5, <1>6 DEF StockInv

LEMMA StockNext ==
    ASSUME Base, StockInv, OrdersInv, [Next]_vars
    PROVE  Base' /\ StockInv' /\ OrdersInv' /\ [LeavesOnDelivery]_vars
<1>1. CASE UNCHANGED vars BY <1>1, BaseNext, StockStutters
<1>2. CASE Next BY <1>2, BaseNext, ServeOnce, StockServe
<1> QED BY <1>1, <1>2

\* Whatever is created, edited, removed, refused or rolled back, a sale has moved
\* its present items out of stock and a return its units into it, on the shelves it
\* and its edits find, whichever they are, unless two requests about it ran at the
\* same time (SalesService, SalesReturnsService).
THEOREM StockFollowsDocumentsHolds == Spec => []StockFollowsDocuments
<1>1. Init => Base /\ StockInv /\ OrdersInv BY BaseInit, StockInit
<1>2. Base /\ StockInv /\ OrdersInv /\ [Next]_vars => Base' /\ StockInv' /\ OrdersInv' BY StockNext
<1>3. StockInv => StockFollowsDocuments
  BY DocumentsAreStored DEF StockInv, StockFollowsDocuments, IsDocument, Settled, SoldAsMoved,
    ReturnedAsMoved, AddUp, MovedInAll, OnItsShelves
<1> QED BY <1>1, <1>2, <1>3, PTL DEF Spec

\* What is received, bought, sent back, consumed and made is in stock once its
\* document says so and not before, unless two requests about it ran at the same
\* time (PurchaseOrdersService, PurchasesService, PurchaseReturnsService,
\* ManufacturingService).
THEOREM GoodsFollowDocumentsHolds == Spec => []GoodsFollowDocuments
<1>1. Init => Base /\ StockInv /\ OrdersInv BY BaseInit, StockInit
<1>2. Base /\ StockInv /\ OrdersInv /\ [Next]_vars => Base' /\ StockInv' /\ OrdersInv' BY StockNext
<1>3. StockInv => GoodsFollowDocuments
  <2> SUFFICES ASSUME StockInv PROVE GoodsFollowDocuments OBVIOUS
  <2>1. \A d \in Source : Apart({d}) => Settled(d) BY DEF StockInv
  <2>2. \A o \in PurchaseOrder : Apart({o}) => ReceivedAsMoved(o)
    BY <2>1, DocumentsAreStored DEF IsDocument, Settled
  <2>3. \A p \in Purchase : Apart({p}) => BoughtAsMoved(p)
    BY <2>1, DocumentsAreStored DEF IsDocument, Settled
  <2>4. \A r \in PurchaseReturn : Apart({r}) => SentBackAsMoved(r)
    BY <2>1, DocumentsAreStored DEF IsDocument, Settled
  <2>5. \A j \in Job : Apart({j}) => MadeAsMoved(j) BY <2>1, DocumentsAreStored DEF IsDocument, Settled
  <2> QED BY <2>2, <2>3, <2>4, <2>5 DEF GoodsFollowDocuments, ReceivedAsMoved, BoughtAsMoved,
    SentBackAsMoved, MadeAsMoved, SentBackBy
<1> QED BY <1>1, <1>2, <1>3, PTL DEF Spec

\* Stock leaves for an order in the step that marks it DELIVERED and in no other,
\* unless two requests about it ran at the same time (SalesOrdersService.updateStatus).
THEOREM StockLeavesOnDeliveryHolds == Spec => StockLeavesOnDelivery
<1>1. Init => Base /\ StockInv /\ OrdersInv BY BaseInit, StockInit
<1>2. Base /\ StockInv /\ OrdersInv /\ [Next]_vars => Base' /\ StockInv' /\ OrdersInv' BY StockNext
<1>3. Base /\ StockInv /\ OrdersInv /\ [Next]_vars =>
         [\A o \in Order :
            (MovedBy(o)' # MovedBy(o) /\ Apart({o})') =>
                OrderOf(o).status # "DELIVERED" /\ OrderOf(o)'.status = "DELIVERED"]_vars
  BY StockNext DEF LeavesOnDelivery
<1> QED BY <1>1, <1>2, <1>3, PTL DEF Spec, StockLeavesOnDelivery

-----------------------------------------------------------------------------
(* Payments to a supplier.                                                   *)

\* Nobody else touches the payments; and one that is cut short leaves nothing.
LEMMA SupplierElsewhere ==
    ASSUME NEW t \in Tx, Footprint(t), ~SupplierPaymentStep(t)
    PROVE  /\ \E T : Frame(t, T)
           /\ Spares(t, SupplierPaymentTables)
           /\ pc'[t] \notin SupplierPaymentWays
           /\ pc[t] \notin SupplierPaymentWays \/ Dropped(t)
  BY Services, ServicesOwn, SparedElsewhere

LEMMA PaymentsAreRows ==
    /\ Due \in Row /\ Due[1] \in SupplierPaymentTables
    /\ \A p \in SupplierPayment :
          PaymentRow(p) \in Row /\ PaymentRow(p)[1] \in SupplierPaymentTables /\ PaymentRow(p) # Due
  BY RowAssumption DEF TenantRows, BackOfficeRows, SupplierPaymentRows, SupplierPaymentTables, Due,
    PaymentRow

LEMMA DueChangeTyped ==
    ASSUME NEW payment, "n" \in DOMAIN payment, payment.n \in Int
    PROVE  DueChange(payment) \in Int
  BY DEF DueChange

\* The request of an operation on payments is about one of them.
LEMMA SupplierRequests ==
    ASSUME SupplierInv, NEW t \in Tx, task[t].op \in SupplierPaymentOps
    PROVE  /\ source[t] \in SupplierPayment
           /\ task[t].op # "delete_payment" => task[t].n \in Int
           /\ DueChange(task[t]) \in Int
           /\ task[t].op = "delete_payment" => task[t].type = "none"
  BY PaymentAssumption DEF SupplierInv, SupplierPaymentOps, DueChange

\* PaidToSupplier is a sum over the rows of the table, at any time.
DueColumn(f) == [p \in SupplierPayment |-> DueChange(f[PaymentRow(p)])]

LEMMA PaidIsTotal ==
    ASSUME NEW f
    PROVE  /\ committed = f => PaidToSupplier = Total(DueColumn(f), SupplierPayment)
           /\ committed' = f => PaidToSupplier' = Total(DueColumn(f), SupplierPayment)
<1> DEFINE g == DueColumn(f)
           S == SupplierPayment
           PaidAdds(k) == k = [s \in SUBSET S |->
                IF s = {} THEN 0 ELSE DueChange(f[PaymentRow(Chosen(s))]) + k[Without(s)]]
<1>1. IsFiniteSet(S) BY FiniteAssumption
<1>2. \A x \in S : g[x] = DueChange(f[PaymentRow(x)]) BY DEF DueColumn
<1>3. committed = f => PaidToSupplier = (CHOOSE k : PaidAdds(k))[S]
  BY DEF PaidToSupplier, MapThenSumSet, MapThenFoldSet, Chosen, Without
<1>4. committed' = f => PaidToSupplier' = (CHOOSE k : PaidAdds(k))[S]
  BY DEF PaidToSupplier, MapThenSumSet, MapThenFoldSet, Chosen, Without
<1> HIDE DEF g, S
<1>5. ASSUME NEW s \in SUBSET S, s # {}
      PROVE  g[Chosen(s)] = DueChange(f[PaymentRow(Chosen(s))])
  BY <1>2, <1>5, ChosenIsIn
<1>6. \A k : PaidAdds(k) <=> Adds(k, g, S) BY <1>5 DEF Adds
<1> HIDE DEF PaidAdds
<1>7. Adds(CHOOSE k : PaidAdds(k), g, S) BY <1>1, <1>6, AddsExists
<1> QED BY <1>1, <1>3, <1>4, <1>7, TotalUnfolds DEF g, S

LEMMA PaidChanges ==
    ASSUME NEW p \in SupplierPayment,
           \A q \in SupplierPayment : IsPayment(PaymentOf(q)) /\ IsPayment(PaymentOf(q))',
           \A q \in SupplierPayment : q # p => PaymentOf(q)' = PaymentOf(q)
    PROVE  /\ PaidToSupplier \in Int
           /\ PaidToSupplier' = PaidToSupplier - DueChange(PaymentOf(p)) + DueChange(PaymentOf(p))'
<1> PICK f, g : f = committed /\ g = committed' OBVIOUS
<1> DEFINE S == SupplierPayment
           F == DueColumn(f)
           G == DueColumn(g)
<1>1. IsFiniteSet(S) BY FiniteAssumption
<1>2. \A q \in S : f[PaymentRow(q)] = PaymentOf(q) /\ g[PaymentRow(q)] = PaymentOf(q)' BY DEF PaymentOf
<1>3. \A q \in S : DueChange(f[PaymentRow(q)]) \in Int /\ DueChange(g[PaymentRow(q)]) \in Int
  <2>1. \A q \in S : DueChange(PaymentOf(q)) \in Int BY DueChangeTyped DEF IsPayment
  <2>2. \A q \in S : IsPayment(g[PaymentRow(q)]) BY <1>2 DEF IsPayment, PaymentOf
  <2>3. \A q \in S : DueChange(g[PaymentRow(q)]) \in Int BY <2>2, DueChangeTyped DEF IsPayment
  <2> QED BY <1>2, <2>1, <2>3
<1>4. /\ F \in [S -> Int] /\ G \in [S -> Int]
      /\ \A q \in S : F[q] = DueChange(f[PaymentRow(q)]) /\ G[q] = DueChange(g[PaymentRow(q)])
  BY <1>3 DEF DueColumn
<1>5. PaidToSupplier = Total(F, S) /\ PaidToSupplier' = Total(G, S) BY PaidIsTotal
<1>6. \A q \in S : q # p => G[q] = F[q] BY <1>2, <1>4
<1>7. F[p] = DueChange(PaymentOf(p)) /\ G[p] = DueChange(PaymentOf(p))'
  BY <1>2, <1>4 DEF DueChange, PaymentOf
<1> HIDE DEF F, G
<1> QED BY <1>1, <1>4, <1>5, <1>6, <1>7, TotalChanges, TotalTyped

LEMMA SupplierInit == Init => SupplierInv
<1> SUFFICES ASSUME Init PROVE SupplierInv OBVIOUS
<1>2. committed[Due] = OpeningSupplierDue
  <2>1. Due \in SupplierPaymentRows BY DEF SupplierPaymentRows
  <2> QED BY Starts, <2>1, PaymentsAreRows, StartOfRows DEF SupplierPaymentInitialRow
<1>3. ASSUME NEW p \in SupplierPayment
      PROVE  PaymentOf(p) = NoPayment
  <2>1. PaymentRow(p) \in SupplierPaymentRows BY DEF SupplierPaymentRows
  <2> QED BY Starts, <2>1, PaymentsAreRows, StartOfRows DEF SupplierPaymentInitialRow,
    PaymentOf
<1>4. PaidToSupplier = 0
  <2> PICK f : f = committed OBVIOUS
  <2>1. \A p \in SupplierPayment : DueColumn(f)[p] = 0
    BY <1>3 DEF DueColumn, PaymentOf, DueChange, NoPayment
  <2> QED BY <2>1, PaidIsTotal, TotalOfZeros, FiniteAssumption
<1>5. DueIsInOrder
  BY Starts, <1>2, <1>3, <1>4, FiniteAssumption DEF DueIsInOrder, IsPayment, NoPayment, DueInHand
<1> QED BY Starts, <1>5 DEF SupplierInv, PaymentsWritten, PaymentsSteered, Routed

\* As long as requests about payments do not meet, one is being served.
LEMMA OnePayment ==
    ASSUME Base, SupplierInv, Watch, UNCHANGED source, NEW t \in Tx, source[t] \in SupplierPayment,
           pc'[t] # pc[t], Apart(SupplierPayment)', NEW u \in Tx, u # t
    PROVE  pc[u] \notin SupplierPaymentWays
<1> SUFFICES ASSUME pc[u] \in SupplierPaymentWays PROVE FALSE OBVIOUS
<1>1. source[u] \in SupplierPayment /\ Running(u)
  BY SupplierRequests DEF Base, OnItsWay, Routed, SupplierPaymentWays, Running, Done
<1> QED BY <1>1, Meets

\* A step that settles nothing.
LEMMA PaymentsStay ==
    ASSUME SupplierInv, Watch, NEW t \in Tx, NEW T, Frame(t, T),
           committed'[Due] = committed[Due],
           \A p \in SupplierPayment : PaymentOf(p)' = PaymentOf(p),
           \A r \in DOMAIN pending'[t] :
               r[1] \in SupplierPaymentTables => pc'[t] = "set_due" /\ r = PaymentRow(source[t]),
           PaymentsSteered(t)',
           \A u \in Tx : pc[u] \in SupplierPaymentWays => source[u] \in SupplierPayment,
           Apart(SupplierPayment)' => DueInHand(t)'
    PROVE  SupplierInv'
<1>1. /\ UNCHANGED <<task, source>>
      /\ \A u \in Tx : u # t => pc'[u] = pc[u] /\ read'[u] = read[u] /\ pending'[u] = pending[u]
  BY DEF Frame
<1>2. PaymentsWritten' /\ \A u \in Tx : PaymentsSteered(u)'
  BY <1>1 DEF SupplierInv, PaymentsWritten, PaymentsSteered, Routed
<1>3. ASSUME Apart(SupplierPayment)'
      PROVE  DueIsInOrder'
  <2>1. DueIsInOrder BY <1>1, <1>3, ApartBefore DEF SupplierInv
  <2>2. \A p \in SupplierPayment : IsPayment(PaymentOf(p))' BY <2>1 DEF DueIsInOrder, IsPayment
  <2>3. PaidToSupplier' = PaidToSupplier
    <3> PICK f, g : f = committed /\ g = committed' OBVIOUS
    <3>1. DueColumn(f) = DueColumn(g) BY DEF DueColumn, PaymentOf
    <3> QED BY <3>1, PaidIsTotal
  <2>4. ASSUME NEW u \in Tx, u # t
        PROVE  DueInHand(u)'
    <3>1. CASE pc[u] \notin SupplierPaymentWays BY <1>1, <2>4, <3>1 DEF DueInHand, SupplierPaymentWays
    <3>2. CASE pc[u] \in SupplierPaymentWays
      <4>1. DueInHand(u) /\ source[u] \in SupplierPayment BY <2>1, <3>2 DEF DueIsInOrder
      <4>2. PaymentOf(source[u])' = PaymentOf(source[u]) /\ source'[u] = source[u] /\ task'[u] = task[u]
        BY <1>1, <4>1 DEF PaymentOf
      <4> QED BY <1>1, <2>4, <4>1, <4>2 DEF DueInHand, DueWith, DueChange, IsPayment
    <3> QED BY <3>1, <3>2
  <2> QED BY <1>3, <2>1, <2>2, <2>3, <2>4 DEF DueIsInOrder
<1> QED BY <1>1, <1>2, <1>3 DEF SupplierInv

LEMMA SupplierElsewhereStep ==
    ASSUME Base, SupplierInv, NEW t \in Tx, Footprint(t), ~SupplierPaymentStep(t), Watch
    PROVE  SupplierInv'
<1>1. PICK T : Frame(t, T) BY SupplierElsewhere
<1>2. /\ Spares(t, SupplierPaymentTables) /\ pc'[t] \notin SupplierPaymentWays
      /\ pc[t] \notin SupplierPaymentWays \/ Dropped(t)
  BY SupplierElsewhere
<1>3. pc[t] \notin SupplierPaymentWays => \A r \in DOMAIN pending[t] : r[1] \notin SupplierPaymentTables
  BY DEF SupplierInv, PaymentsWritten, SupplierPaymentWays
<1>4. \A r \in DOMAIN pending'[t] : r[1] \notin SupplierPaymentTables BY <1>2, <1>3 DEF Spares, Dropped
<1>5. \A r \in Row : r[1] \in SupplierPaymentTables => committed'[r] = committed[r]
  BY <1>2, <1>3 DEF Spares, Dropped, Sees
<1>6. committed'[Due] = committed[Due] /\ \A p \in SupplierPayment : PaymentOf(p)' = PaymentOf(p)
  BY <1>5, PaymentsAreRows DEF PaymentOf
<1>7. PaymentsSteered(t)' /\ DueInHand(t)'
  BY <1>2 DEF PaymentsSteered, Routed, DueInHand, SupplierPaymentWays
<1>8. \A u \in Tx : pc[u] \in SupplierPaymentWays => source[u] \in SupplierPayment
  BY SupplierRequests DEF Base, OnItsWay, Routed
<1> QED BY <1>1, <1>4, <1>6, <1>7, <1>8, PaymentsStay

LEMMA SupplierOwnStep ==
    ASSUME Base, SupplierInv, NEW t \in Tx, Footprint(t), SupplierPaymentStep(t), Watch
    PROVE  SupplierInv'
<1> DEFINE d == source[t]
           row == PaymentRow(d)
<1>0. OnItsWay(t) /\ PaymentsSteered(t) /\ Shape /\ Locks /\ pc[t] \notin Done
  BY DoneIsDone DEF Base, SupplierInv
<1>1. task[t].op \in SupplierPaymentOps => d \in SupplierPayment /\ DueChange(task[t]) \in Int /\ row \in Row
  BY SupplierRequests, PaymentsAreRows
<1>2. pc[t] \in SupplierPaymentWays => task[t].op \in SupplierPaymentOps BY <1>0 DEF OnItsWay, Routed
<1>3. \A u \in Tx : pc[u] \in SupplierPaymentWays => source[u] \in SupplierPayment
  BY SupplierRequests DEF Base, OnItsWay, Routed
<1>4. pc[t] # "set_due" => \A r \in DOMAIN pending[t] : r[1] \notin SupplierPaymentTables
  BY DEF SupplierInv, PaymentsWritten
<1>5. ASSUME UNCHANGED source, Apart(SupplierPayment)'
      PROVE  DueIsInOrder /\ DueInHand(t)
  BY <1>5, ApartBefore DEF SupplierInv, DueIsInOrder
<1>6. ASSUME pc[t] # "set_due"
      PROVE  Sees(t, Due) = committed[Due] /\ (d \in SupplierPayment => SeenPayment(t) = PaymentOf(d))
  BY <1>4, <1>6, PaymentsAreRows DEF Sees, SeenPayment, PaymentOf
\* A read, which settles nothing.
<1>7. ASSUME pc[t] # "set_due", task[t].op \in SupplierPaymentOps, NEW v, NEW s, Reads(t, v, s),
             s \in {"number_payment", "pay_supplier"} => task[t].op = "pay_supplier",
             s \in {"edit_payment", "delete_payment"} => task[t].op = s,
             s # "set_due", Apart(SupplierPayment) => DueInHand(t)'
      PROVE  SupplierInv'
  <2>1. Frame(t, {}) /\ pc'[t] = s /\ UNCHANGED <<committed, pending, task, source>>
    BY <1>0, <1>7, ReadsFrame, ReadsTo DEF dbVars
  <2>2. PaymentsSteered(t)' BY <1>7, <2>1 DEF PaymentsSteered, Routed
  <2>3. Apart(SupplierPayment)' => DueInHand(t)' BY <1>7, <2>1, ApartBefore
  <2> QED BY <1>3, <1>4, <1>7, <2>1, <2>2, <2>3, PaymentsStay DEF PaymentOf
<1>8. ASSUME NEW s \in Done, Throws(t, s)
      PROVE  SupplierInv'
  <2>1. Frame(t, {}) /\ pc'[t] = s /\ Dropped(t) BY <1>0, <1>8, ThrowsFrame
  <2>2. PaymentsSteered(t)' /\ DueInHand(t)' BY <1>8, <2>1 DEF PaymentsSteered, Routed, DueInHand, Done
  <2>3. committed'[Due] = committed[Due] /\ \A p \in SupplierPayment : PaymentOf(p)' = PaymentOf(p)
    BY <2>1, PaymentsAreRows DEF Dropped, PaymentOf
  <2> QED BY <1>3, <2>1, <2>2, <2>3, PaymentsStay DEF Dropped
\* The payment, before the due balance.
<1>9. ASSUME pc[t] \in {"pay_supplier", "edit_payment", "delete_payment"}, NEW rows, Writes(t, rows, "set_due"),
             DOMAIN rows = {row},
             Apart(SupplierPayment) => IsPayment(rows[row]) /\ DueChange(rows[row]) = DueChange(task[t])
      PROVE  SupplierInv'
  <2>1. InTables(rows, {"payment"}) BY <1>9 DEF InTables, PaymentRow
  <2>2. /\ Frame(t, {"payment"}) /\ pc'[t] = "set_due" /\ UNCHANGED <<read, committed>>
        /\ DOMAIN pending'[t] = DOMAIN pending[t] \cup {row} /\ pending'[t][row] = rows[row]
    BY <1>0, <1>9, <2>1, WritesFrame
  <2>3. UNCHANGED <<task, source>> /\ \A p \in SupplierPayment : PaymentOf(p)' = PaymentOf(p)
    BY <2>2 DEF Frame, PaymentOf
  <2>4. PaymentsSteered(t)' BY <2>2 DEF PaymentsSteered, Routed
  <2>5. ASSUME Apart(SupplierPayment)'
        PROVE  DueInHand(t)'
    <3>1. read[t].due = DueWith(t, task[t]) /\ IsPayment(rows[row]) /\ DueChange(rows[row]) = DueChange(task[t])
      BY <1>5, <1>9, <2>3, <2>5, ApartBefore DEF DueInHand
    <3>2. DueWith(t, rows[row]) = DueWith(t, task[t]) BY <3>1 DEF DueWith
    <3>3. /\ row \in DOMAIN pending'[t] /\ IsPayment(pending'[t][row])
          /\ read'[t].due = DueWith(t, pending'[t][row])
      BY <2>2, <3>1, <3>2
    <3>4. DueWith(t, pending[t][row])' = DueWith(t, pending'[t][row])
      BY <2>2, <2>3 DEF DueWith, PaymentOf, DueChange
    <3> QED BY <2>2, <2>3, <3>3, <3>4 DEF DueInHand, IsPayment
  <2> QED BY <1>3, <1>4, <1>9, <2>2, <2>3, <2>4, <2>5, PaymentsStay
<1>10. CASE ReadForPayment(t)
  <2> DEFINE value == Sees(t, Due) + DueChange(task[t])
  <2>1. /\ Reads(t, value, "number_payment") /\ pc[t] = "idle" /\ task[t].op = "pay_supplier"
        /\ SeenPayment(t) = NoPayment
    BY <1>10 DEF ReadForPayment, At
  <2>2. d \in SupplierPayment /\ PaymentOf(d) = NoPayment /\ value = committed[Due] + DueChange(task[t])
        /\ DueChange(task[t]) \in Int
    BY <1>1, <1>6, <2>1 DEF SupplierPaymentOps
  <2> HIDE DEF value
  <2>3. pc'[t] = "number_payment" /\ read'[t] = value /\ UNCHANGED <<committed, task, source>>
    BY <1>0, <2>1, ReadsTo DEF dbVars
  <2>4. ASSUME Apart(SupplierPayment)
        PROVE  DueInHand(t)'
    <3>1. committed[Due] \in Int BY <2>4 DEF SupplierInv, DueIsInOrder
    <3>2. value = DueWith(t, task[t]) BY <2>2, <3>1 DEF DueWith, DueChange, NoPayment
    <3>3. DueWith(t, task[t])' = DueWith(t, task[t]) BY <2>3 DEF DueWith, PaymentOf, DueChange
    <3> QED BY <2>2, <2>3, <3>2, <3>3 DEF DueInHand, PaymentOf
  <2> QED BY <1>7, <2>1, <2>4 DEF SupplierPaymentOps
<1>11. CASE NumberPayment(t)
  <2> DEFINE serial == NextSerial(t, task[t].type)
             value == [due |-> read[t], serial |-> serial]
  <2>1. Reads(t, value, "pay_supplier") /\ pc[t] = "number_payment" /\ task[t].op = "pay_supplier"
    BY <1>0, <1>11 DEF NumberPayment, PaymentsSteered, Routed
  <2> HIDE DEF serial
  <2>2. value.due = read[t] OBVIOUS
  <2> HIDE DEF value
  <2>3. pc'[t] = "pay_supplier" /\ read'[t] = value /\ UNCHANGED <<committed, task, source>>
    BY <1>0, <2>1, ReadsTo DEF dbVars
  <2>4. ASSUME Apart(SupplierPayment)
        PROVE  DueInHand(t)'
    <3>1. read[t] = DueWith(t, task[t]) BY <2>1, <2>4 DEF SupplierInv, DueIsInOrder, DueInHand
    <3>2. DueWith(t, task[t])' = DueWith(t, task[t]) BY <2>3 DEF DueWith, PaymentOf, DueChange
    <3> QED BY <2>2, <2>3, <3>1, <3>2 DEF DueInHand
  <2> QED BY <1>7, <2>1, <2>4 DEF SupplierPaymentOps
<1>12. CASE PaySupplier(t)
  <2> DEFINE value == [type |-> task[t].type, n |-> task[t].n, serial |-> read[t].serial]
             rows == PaymentRow(source[t]) :> value
  <2>1. Writes(t, rows, "set_due") /\ pc[t] = "pay_supplier" /\ task[t].op = "pay_supplier"
    BY <1>0, <1>12 DEF PaySupplier, PaymentsSteered, Routed
  <2>2. IsPayment(value) /\ DueChange(value) = DueChange(task[t])
    BY <2>1, SupplierRequests DEF IsPayment, DueChange, SupplierPaymentOps
  <2> HIDE DEF value
  <2>3. DOMAIN rows = {row} /\ rows[row] = value BY DEF :>
  <2> HIDE DEF rows
  <2> QED BY <1>9, <2>1, <2>2, <2>3
<1>13. CASE SerialTaken(t) BY <1>8, <1>13 DEF SerialTaken, Done
<1>14. CASE FindPayment(t)
  <2>1. /\ Reads(t, SeenPayment(t), "read_due") /\ pc[t] = "idle"
        /\ task[t].op \in SupplierPaymentOps
    BY <1>14 DEF FindPayment, SupplierPaymentOps
  <2>2. pc'[t] = "read_due" /\ read'[t] = PaymentOf(d) /\ UNCHANGED <<committed, source>>
    BY <1>0, <1>1, <1>6, <2>1, ReadsTo DEF dbVars
  <2>3. DueInHand(t)' BY <2>2 DEF DueInHand, PaymentOf
  <2> QED BY <1>7, <2>1, <2>3
<1>15. CASE ReadDue(t)
  <2> DEFINE value == [due |-> DueReplaced(t)]
  <2>1. /\ Reads(t, value, task[t].op) /\ pc[t] = "read_due"
        /\ task[t].op \in {"edit_payment", "delete_payment"}
    BY <1>0, <1>15 DEF ReadDue, OnItsWay, PaymentFound
  <2>2. d \in SupplierPayment /\ value.due = committed[Due] - DueChange(read[t]) + DueChange(task[t])
    BY <1>1, <1>6, <2>1 DEF DueReplaced, SupplierPaymentOps
  <2> HIDE DEF value
  <2>3. pc'[t] = task[t].op /\ read'[t] = value /\ UNCHANGED <<committed, task, source>>
    BY <1>0, <2>1, ReadsTo DEF dbVars
  <2>4. ASSUME Apart(SupplierPayment)
        PROVE  DueInHand(t)'
    <3>1. read[t] = PaymentOf(d) BY <2>1, <2>4 DEF SupplierInv, DueIsInOrder, DueInHand
    <3>2. DueWith(t, task[t])' = DueWith(t, task[t]) BY <2>3 DEF DueWith, PaymentOf, DueChange
    <3> QED BY <2>1, <2>2, <2>3, <3>1, <3>2 DEF DueInHand, DueWith
  <2> QED BY <1>7, <2>1, <2>4 DEF SupplierPaymentOps
<1>16. CASE EditPayment(t)
  <2> DEFINE value == [SeenPayment(t) EXCEPT !.type = task[t].type, !.n = task[t].n]
             rows == PaymentRow(source[t]) :> value
  <2>1. Writes(t, rows, "set_due") /\ pc[t] = "edit_payment" /\ task[t].op = "edit_payment"
    BY <1>0, <1>16 DEF EditPayment, PaymentsSteered, Routed
  <2>2. ASSUME Apart(SupplierPayment)
        PROVE  IsPayment(value) /\ DueChange(value) = DueChange(task[t])
    <3>1. SeenPayment(t) = PaymentOf(d) /\ IsPayment(PaymentOf(d)) /\ task[t].n \in Int
      BY <1>1, <1>6, <2>1, <2>2, SupplierRequests DEF SupplierPaymentOps, SupplierInv, DueIsInOrder
    <3> QED BY <3>1 DEF IsPayment, DueChange
  <2> HIDE DEF value
  <2>3. DOMAIN rows = {row} /\ rows[row] = value BY DEF :>
  <2> HIDE DEF rows
  <2> QED BY <1>9, <2>1, <2>2, <2>3
<1>17. CASE DropPayment(t)
  <2> DEFINE rows == PaymentRow(source[t]) :> NoPayment
  <2>1. Writes(t, rows, "set_due") /\ pc[t] = "delete_payment" /\ task[t].op = "delete_payment"
    BY <1>0, <1>17 DEF DropPayment, PaymentsSteered, Routed
  <2>2. IsPayment(NoPayment) /\ DueChange(NoPayment) = DueChange(task[t])
    BY <2>1, SupplierRequests DEF IsPayment, DueChange, NoPayment, SupplierPaymentOps
  <2>3. DOMAIN rows = {row} /\ rows[row] = NoPayment BY DEF :>
  <2> HIDE DEF rows
  <2> QED BY <1>9, <2>1, <2>2, <2>3
<1>18. CASE NoSuchPayment(t) BY <1>8, <1>18 DEF NoSuchPayment, Done
<1>19. CASE SetDue(t)
  <2> DEFINE rows == Due :> read[t].due
  <2>1. CommitsTo(t, rows, "committed") /\ pc[t] = "set_due" BY <1>19 DEF SetDue, Ends
  <2>2. DOMAIN rows = {Due} /\ rows[Due] = read[t].due BY DEF :>
  <2> HIDE DEF rows
  <2>3. InTables(rows, {"due"}) BY <2>2 DEF InTables, Due
  <2>4. /\ Frame(t, {"due"}) /\ pc'[t] = "committed" /\ DOMAIN pending'[t] = {}
        /\ \A r \in Row : committed'[r] = IF r \in DOMAIN rows THEN rows[r] ELSE Sees(t, r)
    BY <1>0, <2>1, <2>3, CommitsFrame DEF Published
  <2>5. /\ UNCHANGED <<task, source>>
        /\ \A u \in Tx : u # t => pc'[u] = pc[u] /\ read'[u] = read[u] /\ pending'[u] = pending[u]
    BY <2>4 DEF Frame
  <2>6. d \in SupplierPayment BY <1>1, <1>2, <2>1 DEF SupplierPaymentWays
  <2>7. PaymentsWritten' /\ \A u \in Tx : PaymentsSteered(u)'
    BY <2>4, <2>5 DEF SupplierInv, PaymentsWritten, PaymentsSteered, Routed
  <2>8. ASSUME Apart(SupplierPayment)'
        PROVE  DueIsInOrder'
    <3>1. /\ DueIsInOrder /\ row \in DOMAIN pending[t] /\ IsPayment(pending[t][row])
          /\ read[t].due = DueWith(t, pending[t][row])
      BY <1>5, <2>1, <2>5, <2>8 DEF DueInHand
    <3>2. committed'[Due] = DueWith(t, pending[t][row]) /\ PaymentOf(d)' = pending[t][row]
      BY <2>2, <2>4, <2>5, <2>6, <3>1, PaymentsAreRows DEF Sees, PaymentOf
    <3>3. ASSUME NEW p \in SupplierPayment, p # d
          PROVE  PaymentOf(p)' = PaymentOf(p)
      <4>1. PaymentRow(p) \notin DOMAIN pending[t]
        BY <3>3, PaymentsAreRows DEF SupplierInv, PaymentsWritten, PaymentRow
      <4> QED BY <2>2, <2>4, <4>1, PaymentsAreRows DEF Sees, PaymentOf
    <3>0. PICK p \in SupplierPayment : p = d /\ PaymentOf(p)' = pending[t][row]
      BY <2>5, <2>6, <3>2 DEF PaymentOf
    <3>4. ASSUME NEW q \in SupplierPayment
          PROVE  IsPayment(PaymentOf(q)) /\ IsPayment(PaymentOf(q))'
      <4>1. IsPayment(PaymentOf(q)) BY <3>1 DEF DueIsInOrder
      <4>2. PaymentOf(q)' = IF q = p THEN pending[t][row] ELSE PaymentOf(q) BY <3>3, <3>0
      <4> QED BY <3>1, <4>1, <4>2 DEF IsPayment
    <3>5. /\ PaidToSupplier \in Int
          /\ PaidToSupplier' = PaidToSupplier - DueChange(PaymentOf(p)) + DueChange(PaymentOf(p))'
      BY <3>3, <3>4, <3>0, PaidChanges
    <3>6. DueChange(PaymentOf(p))' = DueChange(pending[t][row]) BY <3>0 DEF DueChange
    <3>7. DueChange(PaymentOf(d)) \in Int /\ DueChange(pending[t][row]) \in Int
      BY <2>6, <3>1, <3>4, DueChangeTyped DEF IsPayment
    <3>8. committed'[Due] \in Int /\ committed'[Due] = OpeningSupplierDue + PaidToSupplier'
      <4>1. committed[Due] \in Int /\ committed[Due] = OpeningSupplierDue + PaidToSupplier
        BY <3>1 DEF DueIsInOrder
      <4> QED BY <3>2, <3>5, <3>6, <3>7, <3>0, <4>1, FiniteAssumption DEF DueWith
    <3>9. ASSUME NEW u \in Tx
          PROVE  DueInHand(u)'
      <4>1. pc'[u] \notin SupplierPaymentWays
        BY <2>1, <2>4, <2>5, <2>6, <2>8, OnePayment DEF SupplierPaymentWays
      <4> QED BY <4>1 DEF DueInHand, SupplierPaymentWays
    <3> QED BY <3>4, <3>8, <3>9 DEF DueIsInOrder
  <2> QED BY <2>5, <2>7, <2>8 DEF SupplierInv
<1> QED BY <1>10, <1>11, <1>12, <1>13, <1>14, <1>15, <1>16, <1>17, <1>18, <1>19 DEF
  SupplierPaymentStep

\* The due balance is the opening one with the payments on record, whatever was
\* edited, deleted, refused or rolled back, unless two requests about payments ran
\* at the same time (SuppliersService).
THEOREM SupplierDueIsExplainedHolds == Spec => []SupplierDueIsExplained
<1>1. Init => Base /\ SupplierInv BY BaseInit, SupplierInit
<1>2. Base /\ SupplierInv /\ [Next]_vars => Base' /\ SupplierInv'
  <2> SUFFICES ASSUME Base, SupplierInv, [Next]_vars PROVE Base' /\ SupplierInv' OBVIOUS
  <2>1. CASE UNCHANGED vars
    <3>1. UNCHANGED <<committed, pending, pc, read, task, source, overlapped>>
      BY <2>1 DEF vars, dbVars, postingVars
    <3>2. Apart(SupplierPayment)' = Apart(SupplierPayment) /\ PaidToSupplier' = PaidToSupplier
      <4>1. PICK f : f = committed OBVIOUS
      <4>2. PaidToSupplier' = PaidToSupplier BY <3>1, <4>1, PaidIsTotal
      <4> QED BY <3>1, <4>2 DEF Apart
    <3>3. ASSUME NEW t \in Tx, DueInHand(t)
          PROVE  DueInHand(t)'
      <4>3. PaymentOf(source[t])' = PaymentOf(source[t]) BY <3>1 DEF PaymentOf
      <4>4. DueChange(task[t])' = DueChange(task[t]) BY <3>1 DEF DueChange
      <4>5. PaymentRow(source[t])' = PaymentRow(source[t]) BY <3>1
      <4>6. pending[t][PaymentRow(source[t])]' = pending[t][PaymentRow(source[t])] BY <3>1, <4>5
      <4>7. DueChange(pending[t][PaymentRow(source[t])])' = DueChange(pending[t][PaymentRow(source[t])])
        BY <4>6 DEF DueChange
      <4>8. DueChange(PaymentOf(source[t]))' = DueChange(PaymentOf(source[t])) BY <4>3 DEF DueChange
      <4>2. /\ DueWith(t, task[t])' = DueWith(t, task[t])
            /\ DueWith(t, pending[t][PaymentRow(source[t])])' = DueWith(t, pending[t][PaymentRow(source[t])])
        BY <3>1, <4>4, <4>7, <4>8 DEF DueWith
      <4> QED BY <3>1, <3>3, <4>2, <4>3, <4>6 DEF DueInHand, IsPayment
    <3>4. DueIsInOrder => DueIsInOrder' BY <3>1, <3>2, <3>3 DEF DueIsInOrder, IsPayment, PaymentOf
    <3>5. PaymentsWritten' /\ \A t \in Tx : PaymentsSteered(t)'
      BY <3>1 DEF SupplierInv, PaymentsWritten, PaymentsSteered, Routed
    <3> QED BY <2>1, <3>1, <3>2, <3>4, <3>5, BaseNext DEF SupplierInv
  <2>2. CASE Next BY <2>2, BaseNext, ServeOnce, SupplierElsewhereStep, SupplierOwnStep
  <2> QED BY <2>1, <2>2
<1>3. SupplierInv => SupplierDueIsExplained
  BY DEF SupplierInv, DueIsInOrder, SupplierDueIsExplained, PaidToSupplier
<1> QED BY <1>1, <1>2, <1>3, PTL DEF Spec

-----------------------------------------------------------------------------
(* Loyalty points.                                                           *)

LEMMA CustomerIsARow == Customer \in Row /\ Customer[1] = "customer"
  BY RowAssumption DEF TenantRows, DeskRows, LoyaltyRows, Customer

LEMMA StartOfLoyalty ==
    ASSUME Init
    PROVE  "points" \in DOMAIN committed[Customer] /\ committed[Customer].points = OpeningPoints
<1>1. Customer[1] = "customer" /\ Customer \in LoyaltyRows /\ Customer \in DeskRows
  BY CustomerIsARow DEF LoyaltyRows, DeskRows
<1>2. /\ Customer \notin PostingRows /\ Customer \notin StockRows /\ Customer \notin BackOfficeRows
      /\ Customer \notin SaleRows /\ Customer \notin OrderRows /\ Customer \notin ClaimRows
  BY <1>1, Tables DEF BackOfficeRows
<1>3. InitialRow(Customer) = DeskInitialRow(Customer) BY <1>1, <1>2 DEF InitialRow
<1>4. committed[Customer] = InitialRow(Customer) BY CustomerIsARow DEF Init, RequestsInit, DbInit
<1> QED BY <1>1, <1>2, <1>3, <1>4 DEF DeskInitialRow, LoyaltyInitialRow

LEMMA PointsInit == Init => PointsInv
<1> SUFFICES ASSUME Init PROVE PointsInv OBVIOUS
<1>2. \A t \in Tx : PointsInHand(t) BY Starts DEF PointsInHand, PointsRead, Routed, Asking, Selling
<1> QED BY Starts, <1>2, StartOfLoyalty, PointsAssumption DEF PointsInv

\* The points that may be redeemed are no more than there are, and the discount no
\* more than the total.
LEMMA RedeemableWithin ==
    ASSUME NEW points \in Int, NEW asked \in Nat, NEW total \in Nat,
           NEW redeemed, redeemed = Redeemable(points, asked, total)
    PROVE  /\ "points" \in DOMAIN redeemed /\ redeemed.points \in Int
           /\ total - redeemed.discount \in Nat
           /\ points >= 0 => redeemed.points <= points
<1> DEFINE requested == Least(asked, points)
           full == requested * RedeemRate
           discount == Least(full, total)
           rounded == (discount + RedeemRate - 1) \div RedeemRate
<1>1. requested \in Int /\ requested <= points /\ RedeemRate \in Nat /\ RedeemRate > 0
  BY RatesAssumption DEF Least
<1>2. full \in Int /\ discount \in Int /\ discount <= full /\ discount <= total
  <2>1. full \in Int BY <1>1
  <2> HIDE DEF full
  <2> QED BY <2>1 DEF Least
<1>3. rounded \in Int BY <1>1, <1>2
<1>4. discount < full => rounded <= requested
  <2> SUFFICES ASSUME discount < full, rounded > requested PROVE FALSE BY <1>1, <1>3
  <2>1. rounded * RedeemRate <= discount + RedeemRate - 1 BY <1>1, <1>2
  <2>2. rounded * RedeemRate >= (requested + 1) * RedeemRate BY <1>1, <1>3
  <2>3. (requested + 1) * RedeemRate = full + RedeemRate BY <1>1
  <2> HIDE DEF rounded, full, discount, requested
  <2> QED BY <1>1, <1>2, <1>3, <2>1, <2>2, <2>3
<1>5. redeemed = [discount |-> discount, points |-> IF discount < full THEN rounded ELSE requested]
  BY DEF Redeemable
<1> HIDE DEF rounded, full, discount, requested
<1> QED BY <1>1, <1>2, <1>3, <1>4, <1>5

\* What t sees of the customer it may write back, with other spending too.
LEMMA SeenCustomerIsNew ==
    ASSUME PointsInv, NEW t \in Tx
    PROVE  /\ NewPoints(t, SeenCustomer(t))
           /\ \A v : NewPoints(t, [SeenCustomer(t) EXCEPT !.spent = v])
<1>1. NewPoints(t, SeenCustomer(t)) BY DEF PointsInv, PointsInHand, NewPoints, SeenCustomer, Sees
<1> QED BY <1>1 DEF NewPoints

\* Nobody but t has lost points, or found more than there are.
LEMMA PointsByOne ==
    ASSUME PointsInv, Watch, NEW t \in Tx, NEW T, Frame(t, T), PointsInHand(t)',
           committed'[Customer] = committed[Customer] \/
               (NewPoints(t, committed'[Customer]) /\ (t \in Redeeming => pc'[t] # pc[t]))
    PROVE  PointsInv'
<1>1. UNCHANGED <<task, source>> /\ Redeeming' = Redeeming BY DEF Frame, Redeeming
<1>2. TakenApart' => TakenApart BY <1>1 DEF TakenApart, Watch
<1>3. /\ "points" \in DOMAIN committed'[Customer] /\ committed'[Customer].points \in Int
      /\ TakenApart' => committed'[Customer].points >= 0
  BY <1>2 DEF PointsInv, NewPoints
<1>4. ASSUME NEW u \in Tx, u # t
      PROVE  PointsInHand(u)'
  <2>1. /\ PointsInHand(u) /\ task'[u] = task[u]
        /\ pc'[u] = pc[u] /\ read'[u] = read[u] /\ amount'[u] = amount[u] /\ pending'[u] = pending[u]
    BY <1>1, <1>4 DEF PointsInv, Frame
  <2>2. Customer \in DOMAIN pending[u] => committed'[Customer] = committed[Customer]
    BY <1>4, CustomerIsARow DEF Frame
  <2>3. ASSUME TakenApart', pc[u] \in Asking
        PROVE  /\ TakenApart /\ committed'[Customer].points >= committed[Customer].points
               /\ committed'[Customer].points \in Int /\ committed[Customer].points \in Int
    <3>1. Running(u) /\ u \in Redeeming
      BY <2>1, <2>3 DEF Running, Done, Asking, Selling, PointsInHand, Routed, Redeeming
    <3>2. ASSUME committed'[Customer] # committed[Customer]
          PROVE  t \notin Redeeming
      <4> SUFFICES ASSUME t \in Redeeming PROVE FALSE OBVIOUS
      <4>1. {u, t} \in overlapped' BY <1>4, <3>1, <3>2 DEF Watch
      <4> QED BY <1>1, <2>3, <3>1, <4>1 DEF TakenApart
    <3> QED BY <1>2, <2>3, <3>2 DEF PointsInv, NewPoints
  <2>4. PointsRead(u)' BY <2>1, <2>3 DEF PointsInHand, PointsRead, Asking, Selling, PointsInv
  <2>5. Customer \in DOMAIN pending[u] => NewPoints(u, pending[u][Customer])'
    BY <1>1, <1>2, <2>1, <2>2 DEF PointsInHand, NewPoints
  <2> QED BY <2>1, <2>4, <2>5 DEF PointsInHand, Routed
<1>5. \A u \in Tx : PointsInHand(u)' BY <1>4
<1> QED BY <1>1, <1>3, <1>5 DEF PointsInv

\* Nobody but the desk touches the customer.
LEMMA PointsElsewhere ==
    ASSUME NEW t \in Tx, OnItsWay(t), Footprint(t), ~SaleStep(t), ~ReturnStep(t), ~OrderStep(t), ~LoyaltyStep(t)
    PROVE  /\ \E T : Frame(t, T)
           /\ Spares(t, PointsTables)
           /\ pc'[t] \notin Asking \cup {"idle", "edit_sale", "edit_total"}
           /\ t \in Redeeming => committed'[Customer] = committed[Customer]
<1> DEFINE ways == {"sell", "take_back", "deliver", "move_points"}
           Ways == Asking \cup {"edit_sale", "edit_total"}
<1>1. Elsewhere(t, ways) BY Services
<1>3. (\E T : Frame(t, T)) /\ Spares(t, PointsTables) /\ pc'[t] \notin Ways
  BY <1>1, ServicesOwn, SparedElsewhere
<1>4. ASSUME NEW T, NEW O, NEW W, IsService(T, O, W), Foot(t, T, O, W), ways \cap W = {}
      PROVE  pc'[t] # "idle" /\ t \notin Redeeming
  <2>1. O \cap (SaleOps \cup LoyaltyOps) = {} /\ W \cap {"idle"} = {} /\ Routed(t, O, W)
    BY <1>4, ServicesApart, ServiceRouted
  <2> QED BY <1>4, <2>1 DEF Foot, From, Onwards, Done, Routed, Redeeming, SaleOps, LoyaltyOps
<1>5. CASE PostingFoot(t) BY <1>3, <1>5 DEF PostingFoot
<1>6. CASE pc'[t] = "failed" /\ Dropped(t) BY <1>3, <1>6, CustomerIsARow DEF Dropped
<1> QED BY <1>1, <1>3, <1>4, <1>5, <1>6 DEF Elsewhere

\* A step that writes nothing of the customer, but may commit what was written.
LEMMA PointsSpared ==
    ASSUME PointsInv, Watch, NEW t \in Tx, NEW T, Frame(t, T), Spares(t, PointsTables),
           pc'[t] \notin Asking \cup {"idle", "edit_total"}, pc'[t] = "edit_sale" => task[t].op = "edit_sale",
           t \in Redeeming => committed'[Customer] = committed[Customer] \/ pc'[t] # pc[t]
    PROVE  PointsInv'
<1>1. /\ committed'[Customer] \in {committed[Customer], Sees(t, Customer)}
      /\ Customer \in DOMAIN pending'[t] =>
            Customer \in DOMAIN pending[t] /\ pending'[t][Customer] = pending[t][Customer]
  BY CustomerIsARow DEF Spares, PointsTables
<1>2. NewPoints(t, Sees(t, Customer)) BY SeenCustomerIsNew DEF SeenCustomer
<1>3. committed'[Customer] = committed[Customer] \/
          (NewPoints(t, committed'[Customer]) /\ (t \in Redeeming => pc'[t] # pc[t]))
  BY <1>1, <1>2
<1>4. UNCHANGED task BY DEF Frame
<1>5. Customer \in DOMAIN pending'[t] => NewPoints(t, pending[t][Customer])'
  <2> SUFFICES ASSUME Customer \in DOMAIN pending'[t] PROVE NewPoints(t, pending[t][Customer])' OBVIOUS
  <2>1. /\ Customer \in DOMAIN pending[t] /\ pending'[t][Customer] = pending[t][Customer]
        /\ NewPoints(t, pending[t][Customer])
    BY <1>1 DEF PointsInv, PointsInHand
  <2>2. committed'[Customer] \in {committed[Customer], pending[t][Customer]} BY <1>1, <2>1 DEF Sees
  <2>3. (TakenApart' => TakenApart) /\ Redeeming' = Redeeming BY <1>4 DEF TakenApart, Watch, Redeeming
  <2> QED BY <2>1, <2>2, <2>3 DEF NewPoints
<1>6. PointsInHand(t)' BY <1>4, <1>5 DEF PointsInHand, PointsRead, Routed, Asking, Selling
<1> QED BY <1>3, <1>6, PointsByOne

LEMMA PointsElsewhereStep ==
    ASSUME Base, PointsInv, Watch, NEW t \in Tx, Footprint(t), ~SaleStep(t), ~ReturnStep(t), ~OrderStep(t),
           ~LoyaltyStep(t)
    PROVE  PointsInv'
<1>1. PICK T : Frame(t, T) BY PointsElsewhere DEF Base
<1> QED BY <1>1, PointsElsewhere, PointsSpared DEF Base

\* A statement of t that writes the customer...
LEMMA PointsWritten ==
    ASSUME Base, PointsInv, Watch, NEW t \in Tx, NEW rows, NEW s, Writes(t, rows, s), NEW T, InTables(rows, T),
           Customer \in DOMAIN rows, NewPoints(t, rows[Customer]),
           s \notin Asking \cup {"idle", "edit_sale", "edit_total"}
    PROVE  PointsInv'
<1>1. /\ Frame(t, T) /\ pc'[t] = s /\ committed' = committed
      /\ Customer \in DOMAIN pending'[t] /\ pending'[t][Customer] = rows[Customer]
  BY WritesFrame DEF Base
<1>2. UNCHANGED task /\ Redeeming' = Redeeming BY <1>1 DEF Frame, Redeeming
<1>3. NewPoints(t, pending[t][Customer])' BY <1>1, <1>2 DEF NewPoints, TakenApart, Watch
<1>4. PointsInHand(t)' BY <1>1, <1>2, <1>3 DEF PointsInHand, PointsRead, Routed, Asking, Selling
<1> QED BY <1>1, <1>4, PointsByOne

\* ...and one that commits it.
LEMMA PointsCommitted ==
    ASSUME Base, PointsInv, Watch, NEW t \in Tx, NEW rows, Ends(t, rows), NEW T, InTables(rows, T),
           Customer \in DOMAIN rows, NewPoints(t, rows[Customer]), pc[t] \notin Done
    PROVE  PointsInv'
<1>1. /\ Frame(t, T) /\ pc'[t] = "committed" /\ Published(t, T)
      /\ committed'[Customer] = rows[Customer]
  BY CommitsFrame, CustomerIsARow DEF Base, Ends
<1>2. UNCHANGED task BY <1>1 DEF Frame
<1>3. PointsInHand(t)' BY <1>1, <1>2 DEF Published, PointsInHand, PointsRead, Routed, Asking, Selling
<1>4. pc'[t] # pc[t] BY <1>1 DEF Done
<1> QED BY <1>1, <1>3, <1>4, PointsByOne

LEMMA PointsThrown ==
    ASSUME Base, PointsInv, Watch, NEW t \in Tx, NEW outcome \in Done, Throws(t, outcome)
    PROVE  PointsInv'
<1>1. Frame(t, {}) /\ pc'[t] = outcome /\ Dropped(t) BY ThrowsFrame DEF Base
<1>2. committed'[Customer] = committed[Customer] /\ Spares(t, PointsTables)
  BY <1>1, CustomerIsARow DEF Dropped, Spares
<1> QED BY <1>1, <1>2, PointsSpared DEF Done, Asking, Selling

\* A statement of a sale that keeps what it has read of the points.
LEMMA PointsKept ==
    ASSUME Base, PointsInv, Watch, NEW t \in Tx, NEW T, Frame(t, T), Kept(t, T), "customer" \notin T,
           pc[t] \in Selling, pc'[t] \in Selling, amount' = amount,
           "points" \in DOMAIN read'[t], read'[t].points = read[t].points
    PROVE  PointsInv'
<1>1. /\ committed'[Customer] = committed[Customer] /\ UNCHANGED task
      /\ Customer \notin DOMAIN pending'[t]
  BY CustomerIsARow DEF Frame, Kept, PointsInv, PointsInHand, Asking
<1>2. TakenApart' => TakenApart BY <1>1 DEF TakenApart, Watch, Redeeming
<1>3. task[t].op = "sale" /\ PointsRead(t) BY DEF PointsInv, PointsInHand, Routed
<1>4. PointsRead(t)' BY <1>1, <1>2, <1>3 DEF PointsRead, Selling
<1>5. PointsInHand(t)' BY <1>1, <1>3, <1>4 DEF PointsInHand, Routed, Selling
<1> QED BY <1>1, <1>5, PointsByOne

LEMMA PointsSaleStep ==
    ASSUME Base, PointsInv, Watch, NEW t \in Tx, Footprint(t), SaleStep(t)
    PROVE  PointsInv'
<1>0. Shape /\ Locks /\ PointsInHand(t) /\ pc[t] \notin Done BY DoneIsDone DEF Base, PointsInv
<1>1. /\ task[t].op = "sale" => task[t].n \in Nat /\ task[t].points \in Nat
      /\ pc[t] \in Selling => task[t].op = "sale" /\ PointsRead(t)
  BY <1>0, PointsAssumption DEF PointsInv, PointsInHand, Routed
<1> DEFINE Others == {"items", "total", "stock", "serial"}
<1>2. CASE PreviewSale(t)
  <2> DEFINE value == Redeemable(SeenCustomer(t).points, task[t].points, task[t].n)
             sum == task[t].n - value.discount
  <2>1. ReadsToPost(t, value, sum, "sell") /\ pc[t] = "idle" /\ task[t].op = "sale"
    BY <1>2 DEF PreviewSale, At
  <2>2. SeenCustomer(t) = committed[Customer] /\ committed[Customer].points \in Int
    BY <1>0, <2>1 DEF PointsInHand, SeenCustomer, Sees, PointsInv
  <2>3. /\ "points" \in DOMAIN value /\ value.points \in Int /\ sum \in Nat
        /\ TakenApart => value.points <= committed[Customer].points
    BY <1>1, <2>1, <2>2, RedeemableWithin DEF PointsInv
  <2> HIDE DEF value, sum
  <2>4. /\ Frame(t, {}) /\ pc'[t] = "sell" /\ read'[t] = value /\ UNCHANGED <<committed, pending>>
    BY <1>0, <2>1, ReadsFrame DEF dbVars
  <2>5. amount'[t] = sum /\ UNCHANGED task BY <1>0, <2>1 DEF ReadsToPost, Shape, Frame
  <2>6. TakenApart' => TakenApart BY <2>5 DEF TakenApart, Watch, Redeeming
  <2>7. PointsRead(t)' BY <2>3, <2>4, <2>5, <2>6 DEF PointsRead
  <2>8. PointsInHand(t)' BY <1>0, <2>1, <2>4, <2>5, <2>7 DEF PointsInHand, Routed, Selling
  <2> QED BY <2>4, <2>8, PointsByOne
<1>3. CASE Sell(t)
  <2> DEFINE rows == Items(source[t]) :> [by |-> t, n |-> task[t].n]
                        @@ TotalAmount(source[t]) :> amount[t]
                        @@ Stock(Shop(t)) :> Moved(t, Shop(t), -task[t].n)
  <2>1. /\ Writes(t, rows, IF task[t].serial = NoSerial THEN "book" ELSE "serial")
        /\ pc[t] = "sell"
    BY <1>3 DEF Sell
  <2>2. InTables(rows, Others) BY DEF :>, @@, InTables, Items, TotalAmount, Stock
  <2> HIDE DEF rows
  <2>3. /\ Frame(t, Others) /\ Kept(t, Others) /\ read' = read
        /\ pc'[t] \in {"book", "serial"}
    BY <1>0, <2>1, <2>2, WritesFrame
  <2>4. amount' = amount BY <2>1 DEF Writes, locals
  <2>5. "points" \in DOMAIN read[t] BY <1>1, <2>1 DEF PointsRead, Selling
  <2> QED BY <2>1, <2>3, <2>4, <2>5, PointsKept DEF Selling
<1>4. CASE CheckSerial(t)
  <2> DEFINE serial == Sees(t, Serial(task[t].serial))
             value == read[t] @@ ("known" :> (serial # Unsold))
  <2>1. CASE Throws(t, "refused") BY <2>1, PointsThrown DEF Done
  <2>2. CASE Reads(t, value, "register")
    <3>1. pc[t] = "serial" /\ "points" \in DOMAIN read[t] BY <1>1, <1>4 DEF CheckSerial, PointsRead, Selling
    <3>2. "points" \in DOMAIN value /\ value.points = read[t].points BY <3>1 DEF :>, @@
    <3> HIDE DEF value
    <3>3. /\ Frame(t, Others) /\ Kept(t, Others) /\ pc'[t] = "register" /\ read'[t] = value
          /\ amount' = amount
      BY <1>0, <2>2, ReadsFrame, ReadsTo
    <3> QED BY <3>1, <3>2, <3>3, PointsKept DEF Selling
  <2> QED BY <1>4, <2>1, <2>2 DEF CheckSerial
<1>5. CASE RegisterSerial(t)
  <2> DEFINE rows == Serial(task[t].serial) :> [status |-> "SOLD", sale |-> source[t]]
  <2>1. Writes(t, rows, "book") /\ pc[t] = "register" BY <1>5 DEF RegisterSerial
  <2>2. InTables(rows, Others) BY DEF :>, InTables, Serial
  <2> HIDE DEF rows
  <2>3. Frame(t, Others) /\ Kept(t, Others) /\ read' = read /\ pc'[t] = "book"
    BY <1>0, <2>1, <2>2, WritesFrame
  <2>4. amount' = amount BY <2>1 DEF Writes, locals
  <2>5. "points" \in DOMAIN read[t] BY <1>1, <2>1 DEF PointsRead, Selling
  <2> QED BY <2>1, <2>3, <2>4, <2>5, PointsKept DEF Selling
<1>6. CASE BookSale(t)
  <2> DEFINE rows == SaleBooked(t, amount[t], read[t].points)
             earned == Earned(amount[t])
  <2>1. Writes(t, rows, "post") /\ pc[t] = "book" BY <1>6 DEF BookSale
  <2>2. earned \in Nat BY <1>1, <2>1, RatesAssumption DEF PointsRead, Selling, Earned
  <2>3. /\ InTables(rows, {"customer", "entry"}) /\ Customer \in DOMAIN rows
        /\ "points" \in DOMAIN rows[Customer]
        /\ rows[Customer].points = SeenCustomer(t).points + (earned - read[t].points)
    BY DEF SaleBooked, :>, @@, InTables, Customer, Entry
  <2> HIDE DEF rows, earned
  <2>4. SeenCustomer(t) = committed[Customer] /\ committed[Customer].points \in Int
    BY <1>0, <2>1 DEF PointsInHand, Asking, Selling, SeenCustomer, Sees, PointsInv
  <2>5. t \in Redeeming /\ PointsRead(t) BY <1>1, <2>1 DEF Redeeming, Selling
  <2>6. NewPoints(t, rows[Customer]) BY <2>1, <2>2, <2>3, <2>4, <2>5 DEF NewPoints, PointsRead, Selling
  <2> QED BY <2>1, <2>3, <2>6, PointsWritten DEF Asking, Selling
<1>7. CASE FinishSale(t)
  <2>1. Ends(t, << >>) /\ pc[t] = "commit" BY <1>7 DEF FinishSale, At
  <2>2. Frame(t, {}) /\ pc'[t] = "committed" BY <1>0, <2>1, NoRows, CommitsFrame DEF Ends
  <2> QED BY <2>1, <2>2, FrameSpares, PointsSpared DEF PointsTables, Asking, Selling
<1>8. CASE ReadSale(t)
  <2> DEFINE value == [n |-> SeenItems(t, source[t]).n, total |-> Sees(t, TotalAmount(source[t]))]
  <2>1. Reads(t, value, "edit_sale") /\ task[t].op = "edit_sale" BY <1>8 DEF ReadSale, At
  <2> HIDE DEF value
  <2>2. Frame(t, {}) /\ pc'[t] = "edit_sale" /\ committed' = committed BY <1>0, <2>1, ReadsFrame DEF dbVars
  <2> QED BY <2>1, <2>2, FrameSpares, PointsSpared DEF PointsTables, Asking, Selling
<1>9. CASE ReplaceItems(t)
  <2> DEFINE rows == Stock(EditShop(t)) :> Moved(t, EditShop(t), ItemsChanged(t))
                        @@ Items(source[t]) :> [by |-> t, n |-> task[t].n]
  <2>1. Writes(t, rows, "edit_total") /\ pc[t] = "edit_sale" BY <1>9 DEF ReplaceItems
  <2>2. InTables(rows, Others) BY DEF :>, @@, InTables, Items, Stock
  <2> HIDE DEF rows
  <2>3. /\ Frame(t, Others) /\ Kept(t, Others) /\ pc'[t] = "edit_total" /\ committed' = committed
        /\ UNCHANGED task
    BY <1>0, <2>1, <2>2, WritesFrame DEF Frame
  <2>4. /\ Customer \in DOMAIN pending'[t] =>
              Customer \in DOMAIN pending[t] /\ pending'[t][Customer] = pending[t][Customer]
    BY <2>3, CustomerIsARow DEF Kept
  <2>5. Customer \in DOMAIN pending'[t] => NewPoints(t, pending[t][Customer])'
    BY <1>0, <2>3, <2>4 DEF PointsInHand, NewPoints, TakenApart, Watch, Redeeming
  <2>6. PointsInHand(t)' BY <1>0, <2>1, <2>3, <2>5 DEF PointsInHand, PointsRead, Routed, Asking, Selling
  <2> QED BY <2>3, <2>6, PointsByOne
<1>10. CASE EditTotal(t)
  <2> DEFINE customer == [SeenCustomer(t) EXCEPT !.spent = @ + task[t].n - read[t].total]
             rows == TotalAmount(source[t]) :> task[t].n @@ Customer :> customer
  <2>1. Ends(t, rows) BY <1>10 DEF EditTotal
  <2>2. InTables(rows, {"total", "customer"}) /\ Customer \in DOMAIN rows /\ rows[Customer] = customer
    BY DEF :>, @@, InTables, TotalAmount, Customer
  <2>3. NewPoints(t, customer) BY SeenCustomerIsNew
  <2> HIDE DEF rows, customer
  <2> QED BY <1>0, <2>1, <2>2, <2>3, PointsCommitted
<1>11. CASE SellShort(t) \/ SerialExists(t) \/ EditShort(t) \/ ItemsHaveReturns(t)
  BY <1>11, PointsThrown DEF SellShort, SerialExists, EditShort, ItemsHaveReturns, Shortage, Done
<1> QED BY <1>2, <1>3, <1>4, <1>5, <1>6, <1>7, <1>8, <1>9, <1>10, <1>11 DEF SaleStep

\* A statement without the customer, of a request that takes no points.
LEMMA PointsAside ==
    ASSUME Base, PointsInv, Watch, NEW t \in Tx, t \notin Redeeming, NEW v, NEW n, NEW rows, NEW s, NEW T,
           "customer" \notin T, InTables(rows, T), s \notin Asking \cup {"idle", "edit_sale", "edit_total"},
           Reads(t, v, s) \/ ReadsToPost(t, v, n, s) \/ Writes(t, rows, s) \/ CommitsTo(t, rows, s)
    PROVE  PointsInv'
<1>0. Shape /\ Locks BY DEF Base
<1>1. Frame(t, T) /\ pc'[t] = s
  <2>1. CASE Reads(t, v, s) \/ ReadsToPost(t, v, n, s) BY <1>0, <2>1, ReadsFrame
  <2>2. CASE Writes(t, rows, s) BY <1>0, <2>2, WritesFrame
  <2>3. CASE CommitsTo(t, rows, s) BY <1>0, <2>3, CommitsFrame
  <2> QED BY <2>1, <2>2, <2>3
<1>2. Spares(t, PointsTables) BY <1>1, FrameSpares DEF PointsTables
<1> QED BY <1>1, <1>2, PointsSpared

LEMMA PointsReturnStep ==
    ASSUME Base, PointsInv, Watch, NEW t \in Tx, Footprint(t), ReturnStep(t)
    PROVE  PointsInv'
<1>0. Shape /\ Locks /\ pc[t] \notin Done /\ t \notin Redeeming
  BY DoneIsDone, ReturnFoot DEF Base, OnItsWay, Routed, Foot, From, ReturnOps, Redeeming
<1>01. ReturnWays \cap (Asking \cup {"idle", "edit_sale", "edit_total"}) = {}
  BY DEF ReturnWays, Asking, Selling
<1> DEFINE Others == {"stock", "return"}
<1>1. CASE ReadForReturn(t) \/ ReadForReturnEdit(t) \/ ReadForRemove(t)
  BY <1>0, <1>01, <1>1, NoRows, PointsAside DEF ReadForReturn, ReadForReturnEdit, ReadForRemove,
    ReturnWays
<1>2. CASE TakeBack(t)
  <2> DEFINE rows == Stock(Shop(t)) :> Moved(t, Shop(t), Units(t)) @@ Returned(source[t]) :> Units(t)
  <2>1. InTables(rows, Others) BY DEF :>, @@, InTables, Returned, Stock
  <2>2. Writes(t, rows, "refund") BY <1>2 DEF TakeBack
  <2> HIDE DEF rows
  <2> QED BY <1>0, <1>01, <2>1, <2>2, PointsAside DEF ReturnWays
<1>3. CASE Refund(t)
  <2> DEFINE customer == [SeenCustomer(t) EXCEPT !.spent = @ - Units(t)]
             rows == Customer :> customer
  <2>1. InTables(rows, ReturnTables) /\ Customer \in DOMAIN rows /\ rows[Customer] = customer
    BY DEF :>, InTables, Customer, ReturnTables
  <2>2. Writes(t, rows, "post") BY <1>3 DEF Refund
  <2>3. NewPoints(t, customer) BY SeenCustomerIsNew
  <2> HIDE DEF rows, customer
  <2> QED BY <2>1, <2>2, <2>3, PointsWritten DEF Asking, Selling
<1>4. CASE FinishReturn(t) BY <1>0, <1>4, NoRows, PointsAside DEF FinishReturn, Ends, Asking, Selling
<1>5. CASE ReverseReturn(t)
  <2> DEFINE customer == [SeenCustomer(t) EXCEPT !.spent = @ + read[t].n]
             rows == Stock(EditShop(t)) :> Moved(t, EditShop(t), -read[t].n) @@ Customer :> customer
  <2>1. InTables(rows, ReturnTables) /\ Customer \in DOMAIN rows /\ rows[Customer] = customer
    BY DEF :>, @@, InTables, Stock, Customer, ReturnTables
  <2>2. Writes(t, rows, "return_anew") BY <1>5 DEF ReverseReturn
  <2>3. NewPoints(t, customer) BY SeenCustomerIsNew
  <2> HIDE DEF rows, customer
  <2> QED BY <2>1, <2>2, <2>3, PointsWritten DEF Asking, Selling
<1>6. CASE ReturnAnew(t)
  <2> DEFINE customer == [SeenCustomer(t) EXCEPT !.spent = @ - Units(t)]
             rows == Stock(EditShop(t)) :> Moved(t, EditShop(t), Units(t))
                        @@ Returned(source[t]) :> Units(t) @@ Customer :> customer
  <2>1. InTables(rows, ReturnTables) /\ Customer \in DOMAIN rows /\ rows[Customer] = customer
    BY DEF :>, @@, InTables, Returned, Stock, Customer, ReturnTables
  <2>2. Ends(t, rows) BY <1>6 DEF ReturnAnew
  <2>3. NewPoints(t, customer) BY SeenCustomerIsNew
  <2> HIDE DEF rows, customer
  <2> QED BY <1>0, <2>1, <2>2, <2>3, PointsCommitted
<1>7. CASE RemoveReturn(t)
  <2> DEFINE rows == Stock(Shop(t)) :> Moved(t, Shop(t), -read[t].n) @@ Returned(source[t]) :> 0
  <2>1. InTables(rows, Others) BY DEF :>, @@, InTables, Returned, Stock
  <2>2. CommitsTo(t, rows, "committed") BY <1>7 DEF RemoveReturn, Ends
  <2> HIDE DEF rows
  <2> QED BY <1>0, <2>1, <2>2, PointsAside DEF Asking, Selling
<1>8. CASE ItemReplaced(t) \/ ReverseShort(t) \/ ReturnNotAnew(t) \/ RemoveShort(t)
  BY <1>8, PointsThrown DEF ItemReplaced, ReverseShort, ReturnNotAnew, RemoveShort, Shortage, Done
<1> QED BY <1>1, <1>2, <1>3, <1>4, <1>5, <1>6, <1>7, <1>8 DEF ReturnStep

LEMMA PointsOrderStep ==
    ASSUME Base, PointsInv, Watch, NEW t \in Tx, Footprint(t), OrderStep(t)
    PROVE  PointsInv'
<1>0. Shape /\ Locks /\ pc[t] \notin Done /\ LinesSought(t) BY DoneIsDone DEF Base, OnItsWay
<1>1. /\ Frame(t, OrderTables) /\ t \notin Redeeming
      /\ pc'[t] \notin Asking \cup {"idle", "edit_sale", "edit_total"}
  <2>1. Foot(t, OrderTables, OrderOps, OrderWays) BY <1>0, OrderFoot
  <2>2. pc'[t] \notin Asking \cup {"idle", "edit_sale", "edit_total"}
    BY <2>1 DEF Foot, Onwards, OrderWays, Done, Asking, Selling
  <2>3. t \notin Redeeming BY <2>1 DEF Base, OnItsWay, Routed, Foot, From, OrderOps, Redeeming
  <2> QED BY <2>1, <2>2, <2>3 DEF Foot
<1>2. CASE SpendOnOrder(t)
  <2> DEFINE customer == [SeenCustomer(t) EXCEPT !.spent = @ + read[t].total]
             rows == Customer :> customer
  <2>1. InTables(rows, OrderTables) /\ Customer \in DOMAIN rows /\ rows[Customer] = customer
    BY DEF :>, InTables, Customer, OrderTables
  <2>2. Writes(t, rows, "set_status") BY <1>2 DEF SpendOnOrder
  <2>3. NewPoints(t, customer) BY SeenCustomerIsNew
  <2> HIDE DEF rows, customer
  <2> QED BY <2>1, <2>2, <2>3, PointsWritten DEF Asking, Selling
<1>3. CASE ReadForOrderStatus(t)
  <2> DEFINE value == [n |-> Ordered(t), total |-> SeenOrder(t).total]
             next == IF task[t].status = "DELIVERED" /\ SeenOrder(t).status # "DELIVERED"
                     THEN "deliver" ELSE "set_status"
  <2>1. Reads(t, value, next) BY <1>3 DEF ReadForOrderStatus
  <2>2. next \in {"deliver", "set_status"} OBVIOUS
  <2> HIDE DEF value, next
  <2> QED BY <1>1, <2>1, <2>2, NoRows, PointsAside DEF Asking, Selling
<1>4. CASE DeliverLines(t)
  <2> DEFINE rows == Stock(Shop(t)) :> Moved(t, Shop(t), -read[t].n)
  <2>1. Writes(t, rows, "spend") BY <1>4 DEF DeliverLines
  <2>2. InTables(rows, {"stock"}) BY DEF :>, Stock, InTables
  <2> HIDE DEF rows
  <2> QED BY <1>1, <2>1, <2>2, PointsAside DEF Asking, Selling
<1>5. CASE SetOrderStatus(t)
  <2> DEFINE rows == OrderRow(source[t]) :> [SeenOrder(t) EXCEPT !.status = task[t].status]
  <2>1. CommitsTo(t, rows, "committed") BY <1>5 DEF SetOrderStatus, Ends
  <2>2. InTables(rows, {"order"}) BY DEF :>, OrderRow, InTables
  <2> HIDE DEF rows
  <2> QED BY <1>1, <2>1, <2>2, PointsAside DEF Asking, Selling
<1>6. CASE ReadForDeposit(t) \/ ReadForOrderEdit(t) \/ ReadForOrderRemove(t)
  BY <1>1, <1>6, NoRows, PointsAside DEF ReadForDeposit, ReadForOrderEdit, ReadForOrderRemove, Asking,
    Selling
<1>7. CASE TakeDeposit(t)
  <2> DEFINE rows == Deposit(t) :> task[t].n @@ OrderRow(source[t]) :> [SeenOrder(t) EXCEPT !.paid = read[t]]
  <2>1. CommitsTo(t, rows, "committed") BY <1>7 DEF TakeDeposit, Ends
  <2>2. InTables(rows, {"deposit", "order"}) BY DEF :>, @@, OrderRow, Deposit, InTables
  <2> HIDE DEF rows
  <2> QED BY <1>1, <2>1, <2>2, PointsAside DEF Asking, Selling
<1>8. CASE FindLines(t)
  <2> DEFINE value == LinesSeen(t)
  <2>1. Reads(t, value, "delete_lines") BY <1>8 DEF FindLines
  <2> HIDE DEF value
  <2> QED BY <1>1, <2>1, NoRows, PointsAside DEF Asking, Selling
<1>9. CASE DeleteLines(t)
  <2> DEFINE rows == [r \in read[t] |-> 0]
  <2>1. Writes(t, rows, "replace_lines") BY <1>9 DEF DeleteLines
  <2>2. InTables(rows, {"lines"}) BY <1>0, <1>9 DEF DeleteLines, LinesSought, InTables
  <2> HIDE DEF rows
  <2> QED BY <1>1, <2>1, <2>2, PointsAside DEF Asking, Selling
<1>10. CASE ReplaceLines(t)
  <2> DEFINE rows == Lines(source[t], t) :> task[t].n
                        @@ OrderRow(source[t]) :> [SeenOrder(t) EXCEPT !.total = task[t].n,
                                                                       !.status = task[t].status]
  <2>1. CommitsTo(t, rows, "committed") BY <1>10 DEF ReplaceLines, Ends
  <2>2. InTables(rows, {"lines", "order"}) BY DEF :>, @@, Lines, OrderRow, InTables
  <2> HIDE DEF rows
  <2> QED BY <1>1, <2>1, <2>2, PointsAside DEF Asking, Selling
<1>11. CASE RemoveOrder(t)
  <2> DEFINE rows == [r \in {OrderRow(source[t])} \cup {Lines(source[t], by) : by \in Makers}
                               \cup {Deposit(u) : u \in {v \in Tx : source[v] = source[t]}} |->
                        IF r = OrderRow(source[t]) THEN NoOrder ELSE 0]
  <2>1. CommitsTo(t, rows, "committed") BY <1>11 DEF RemoveOrder, Ends
  <2>2. InTables(rows, {"order", "lines", "deposit"}) BY DEF InTables, OrderRow, Lines, Deposit
  <2> HIDE DEF rows
  <2> QED BY <1>1, <2>1, <2>2, PointsAside DEF Asking, Selling
<1>12. CASE DeliverShort(t) \/ OrderGone(t)
  BY <1>12, PointsThrown DEF DeliverShort, OrderGone, Shortage, Done
<1> QED BY <1>2, <1>3, <1>4, <1>5, <1>6, <1>7, <1>8, <1>9, <1>10, <1>11, <1>12 DEF OrderStep

LEMMA PointsLoyaltyStep ==
    ASSUME Base, PointsInv, Watch, NEW t \in Tx, Footprint(t), LoyaltyStep(t)
    PROVE  PointsInv'
<1>0. Shape /\ Locks /\ PointsInHand(t) /\ pc[t] \notin Done BY DoneIsDone DEF Base, PointsInv
<1>1. /\ task[t].op = "order_online" => task[t].n \in Nat /\ task[t].points \in Nat
      /\ task[t].op \in {"earn_points", "redeem_points", "adjust_points"} => task[t].n \in Int
      /\ pc[t] = "move_points" => task[t].op \in {"redeem_points", "adjust_points"}
      /\ pc[t] = "order_online" => task[t].op = "order_online"
  BY <1>0, PointsAssumption DEF PointsInv, PointsInHand, Routed
<1>2. /\ committed[Customer].points \in Int
      /\ TakenApart => committed[Customer].points >= 0
      /\ pc[t] \in {"idle", "move_points", "order_online"} => SeenCustomer(t) = committed[Customer]
  BY <1>0 DEF PointsInv, PointsInHand, Asking, SeenCustomer, Sees
\* Points that are read to be moved, and points that are moved.
<1>3. ASSUME NEW v, NEW s \in {"move_points", "order_online"}, Reads(t, v, s), pc[t] = "idle",
             s = "move_points" => /\ v \in Int
                                  /\ TakenApart => committed[Customer].points + v >= 0
                                  /\ task[t].op \in {"redeem_points", "adjust_points"},
             s = "order_online" => /\ task[t].n - v.discount \in Nat /\ v.points \in Int
                                   /\ TakenApart => v.points <= committed[Customer].points
                                   /\ task[t].op = "order_online"
      PROVE  PointsInv'
  <2>1. Frame(t, {}) /\ pc'[t] = s /\ read'[t] = v /\ UNCHANGED <<committed, pending, task>>
    BY <1>0, <1>3, ReadsFrame DEF dbVars, Frame
  <2>2. TakenApart' => TakenApart BY <2>1 DEF TakenApart, Watch, Redeeming
  <2>3. PointsRead(t)'
    <3>1. CASE s = "move_points" BY <1>3, <2>1, <2>2, <3>1 DEF PointsRead, Selling
    <3>2. CASE s = "order_online" BY <1>3, <2>1, <2>2, <3>2 DEF PointsRead, Selling
    <3> QED BY <3>1, <3>2
  <2>4. PointsInHand(t)' BY <1>0, <1>3, <2>1, <2>3 DEF PointsInHand, Routed, Selling
  <2> QED BY <2>1, <2>4, PointsByOne
<1>4. ASSUME NEW n \in Int, Ends(t, PointsMoved(t, n)), pc[t] \in {"idle", "move_points", "order_online"},
             TakenApart => committed[Customer].points + n >= 0 /\ (t \notin Redeeming => n >= 0)
      PROVE  PointsInv'
  <2> DEFINE rows == PointsMoved(t, n)
  <2>1. /\ InTables(rows, LoyaltyTables) /\ Customer \in DOMAIN rows
        /\ rows[Customer] = [SeenCustomer(t) EXCEPT !.points = @ + n]
    BY DEF PointsMoved, :>, @@, InTables, Customer, Entry, LoyaltyTables
  <2>2. "points" \in DOMAIN SeenCustomer(t) /\ SeenCustomer(t).points = committed[Customer].points
    BY <1>2, <1>4, SeenCustomerIsNew DEF NewPoints
  <2>4. "points" \in DOMAIN rows[Customer] /\ rows[Customer].points = committed[Customer].points + n
    BY <2>1, <2>2
  <2> HIDE DEF rows
  <2>3. NewPoints(t, rows[Customer]) BY <1>2, <1>4, <2>4 DEF NewPoints
  <2> HIDE DEF rows
  <2> QED BY <1>0, <1>4, <2>1, <2>3, PointsCommitted DEF rows
<1>5. CASE EarnPoints(t)
  <2>1. Ends(t, PointsMoved(t, Earned(task[t].n))) /\ pc[t] = "idle" /\ task[t].op = "earn_points"
        /\ Earned(task[t].n) > 0
    BY <1>5 DEF EarnPoints, At
  <2>2. Earned(task[t].n) \in Int
    <3>1. task[t].n \in Int /\ EarnRate \in Int BY <1>1, <2>1, RatesAssumption
    <3> QED BY <3>1 DEF Earned
  <2> QED BY <1>2, <1>4, <2>1, <2>2
<1>6. CASE CheckRedeem(t)
  <2>1. /\ Reads(t, -task[t].n, "move_points") /\ pc[t] = "idle" /\ task[t].op = "redeem_points"
        /\ SeenCustomer(t).points >= task[t].n
    BY <1>6 DEF CheckRedeem, At, EnoughPoints
  <2>2. -task[t].n \in Int /\ (TakenApart => committed[Customer].points + (-task[t].n) >= 0)
    BY <1>1, <1>2, <2>1
  <2> QED BY <1>3, <2>1, <2>2
<1>7. CASE CheckAdjust(t)
  <2>1. /\ Reads(t, task[t].n, "move_points") /\ pc[t] = "idle" /\ task[t].op = "adjust_points"
        /\ SeenCustomer(t).points + task[t].n >= 0
    BY <1>7 DEF CheckAdjust, At
  <2>2. task[t].n \in Int /\ (TakenApart => committed[Customer].points + task[t].n >= 0) BY <1>1, <1>2, <2>1
  <2> QED BY <1>3, <2>1, <2>2
<1>8. CASE MovePoints(t)
  <2>1. Ends(t, PointsMoved(t, read[t])) /\ pc[t] = "move_points" BY <1>8 DEF MovePoints
  <2>2. t \in Redeeming /\ PointsRead(t) BY <1>0, <1>1, <2>1 DEF Redeeming, PointsInHand
  <2> QED BY <1>4, <2>1, <2>2 DEF PointsRead
<1>9. CASE CheckOnlineOrder(t)
  <2> DEFINE value == Redeemable(SeenCustomer(t).points, task[t].points, task[t].n)
  <2>1. Reads(t, value, "order_online") /\ pc[t] = "idle" /\ task[t].op = "order_online"
    BY <1>9 DEF CheckOnlineOrder, At
  <2>3. /\ SeenCustomer(t) = committed[Customer] /\ committed[Customer].points \in Int
        /\ task[t].n \in Nat /\ task[t].points \in Nat
    BY <1>1, <1>2, <2>1
  <2>2. /\ value.points \in Int /\ task[t].n - value.discount \in Nat
        /\ TakenApart => value.points <= committed[Customer].points
    BY <1>2, <2>3, RedeemableWithin
  <2> HIDE DEF value
  <2> QED BY <1>3, <2>1, <2>2
<1>10. CASE PlaceOnlineOrder(t)
  <2> DEFINE earned == Earned(task[t].n - read[t].discount)
  <2>1. Ends(t, PointsMoved(t, earned - read[t].points)) /\ pc[t] = "order_online"
    BY <1>10 DEF PlaceOnlineOrder
  <2>2. t \in Redeeming /\ PointsRead(t) BY <1>0, <1>1, <2>1 DEF Redeeming, PointsInHand
  <2>3. earned \in Nat BY <2>1, <2>2, RatesAssumption DEF PointsRead, Earned
  <2> HIDE DEF earned
  <2>4. /\ earned - read[t].points \in Int
        /\ TakenApart => committed[Customer].points + (earned - read[t].points) >= 0
    <3>1. read[t].points \in Int /\ (TakenApart => read[t].points <= committed[Customer].points)
      BY <2>1, <2>2 DEF PointsRead
    <3> QED BY <1>2, <2>3, <3>1
  <2> QED BY <1>4, <2>1, <2>2, <2>4
<1> QED BY <1>5, <1>6, <1>7, <1>8, <1>9, <1>10 DEF LoyaltyStep

\* The customer's points are never below zero, through sales, returns, adjustments
\* and online orders, unless two requests that take points ran at the same time
\* (loyalty-sale.utils.ts, LoyaltyService, StorefrontService).
THEOREM PointsAreCoveredHolds == Spec => []PointsAreCovered
<1>1. Init => Base /\ PointsInv BY BaseInit, PointsInit
<1>2. Base /\ PointsInv /\ [Next]_vars => Base' /\ PointsInv'
  <2> SUFFICES ASSUME Base, PointsInv, [Next]_vars PROVE Base' /\ PointsInv' OBVIOUS
  <2>1. CASE UNCHANGED vars
    <3>1. UNCHANGED <<committed, pending, pc, read, task, amount, overlapped>>
      BY <2>1 DEF vars, dbVars, postingVars
    <3>2. PointsInv'
      BY <3>1 DEF PointsInv, PointsInHand, PointsRead, NewPoints, Routed, TakenApart, Redeeming
    <3> QED BY <2>1, <3>2, BaseNext
  <2>2. CASE Next BY <2>2, BaseNext, ServeOnce, PointsElsewhereStep, PointsSaleStep, PointsReturnStep,
      PointsOrderStep, PointsLoyaltyStep
  <2> QED BY <2>1, <2>2
<1>3. PointsInv => PointsAreCovered BY DEF PointsInv, PointsAreCovered, Points, TakenApart
<1> QED BY <1>1, <1>2, <1>3, PTL DEF Spec

-----------------------------------------------------------------------------
(* The lines of an order.                                                    *)

\* Nobody else touches the orders; and one that is cut short leaves nothing.
LEMMA OrderElsewhere ==
    ASSUME NEW t \in Tx, Footprint(t), ~OrderStep(t)
    PROVE  /\ \E T : Frame(t, T)
           /\ Spares(t, ItemTables)
           /\ pc'[t] \notin OrderWays
           /\ pc[t] \notin OrderWays \/ Dropped(t)
  BY Services, ServicesOwn, SparedElsewhere

LEMMA LinesAreRows ==
    \A o \in Order :
        /\ OrderRow(o) \in OrderRows /\ OrderRow(o) \in Row /\ OrderRow(o)[1] = "order"
        /\ \A by \in Makers :
              Lines(o, by) \in OrderRows /\ Lines(o, by) \in Row /\ Lines(o, by)[1] = "lines"
<1>1. \A o \in Order :
         OrderRow(o) \in OrderRows /\ \A by \in Makers : Lines(o, by) \in OrderRows
  BY DEF OrderRows
<1>2. OrderRows \subseteq Row BY RowAssumption DEF TenantRows, DeskRows
<1> QED BY <1>1, <1>2 DEF OrderRow, Lines

\* LinesOf is a sum over the lines, at any time.
LineColumn(f, o) == [by \in Makers |-> f[Lines(o, by)]]

LEMMA LinesAreTotal ==
    ASSUME NEW f, NEW o
    PROVE  /\ committed = f => LinesOf(o) = Total(LineColumn(f, o), Makers)
           /\ committed' = f => LinesOf(o)' = Total(LineColumn(f, o), Makers)
<1> DEFINE g == LineColumn(f, o)
           S == Makers
           LinesAdd(k) == k = [s \in SUBSET S |->
                IF s = {} THEN 0 ELSE f[Lines(o, Chosen(s))] + k[Without(s)]]
<1>1. IsFiniteSet(S) BY FiniteAssumption, FS_AddElement DEF Makers
<1>2. \A x \in S : g[x] = f[Lines(o, x)] BY DEF LineColumn
<1>3. committed = f => LinesOf(o) = (CHOOSE k : LinesAdd(k))[S]
  BY DEF LinesOf, MapThenSumSet, MapThenFoldSet, Chosen, Without
<1>4. committed' = f => LinesOf(o)' = (CHOOSE k : LinesAdd(k))[S]
  BY DEF LinesOf, MapThenSumSet, MapThenFoldSet, Chosen, Without
<1> HIDE DEF g, S
<1>5. ASSUME NEW s \in SUBSET S, s # {}
      PROVE  g[Chosen(s)] = f[Lines(o, Chosen(s))]
  BY <1>2, <1>5, ChosenIsIn
<1>6. \A k : LinesAdd(k) <=> Adds(k, g, S) BY <1>5 DEF Adds
<1> HIDE DEF LinesAdd
<1>7. Adds(CHOOSE k : LinesAdd(k), g, S) BY <1>1, <1>6, AddsExists
<1> QED BY <1>1, <1>3, <1>4, <1>7, TotalUnfolds DEF g, S

\* Of lines that are one, the sum is that one.
LEMMA TotalOfOne ==
    ASSUME NEW f, NEW o, NEW m \in Makers, f[Lines(o, m)] \in Int,
           \A by \in Makers : by # m => f[Lines(o, by)] = 0
    PROVE  Total(LineColumn(f, o), Makers) = f[Lines(o, m)]
<1> DEFINE g == LineColumn(f, o)
<1>1. IsFiniteSet(Makers) BY FiniteAssumption, FS_AddElement DEF Makers
<1>2. g \in [Makers -> Int] /\ g[m] = f[Lines(o, m)] /\ \A by \in Makers : by # m => g[by] = 0
  BY DEF LineColumn
<1> HIDE DEF g
<1> QED BY <1>1, <1>2, TotalOfOneRow DEF g

LEMMA SameLines ==
    ASSUME NEW o, \A by \in Makers : committed'[Lines(o, by)] = committed[Lines(o, by)]
    PROVE  LinesOf(o)' = LinesOf(o)
<1> PICK f, g : f = committed /\ g = committed' OBVIOUS
<1>1. LineColumn(f, o) = LineColumn(g, o) BY DEF LineColumn
<1> QED BY <1>1, LinesAreTotal

LEMMA LinesInit == Init => LinesInv
<1> SUFFICES ASSUME Init PROVE LinesInv OBVIOUS
<1>2. ASSUME NEW o \in Order
      PROVE  /\ OrderOf(o) = [status |-> "CONFIRMED", total |-> OrderedUnits[o], paid |-> 0]
             /\ \A by \in Makers : committed[Lines(o, by)] = IF by = NoTx THEN OrderedUnits[o] ELSE 0
  <2>1. OrderOf(o) = OrderInitialRow(OrderRow(o)) BY Starts, LinesAreRows, StartOfRows DEF OrderOf
  <2>2. \A by \in Makers : committed[Lines(o, by)] = OrderInitialRow(Lines(o, by))
    BY Starts, LinesAreRows, StartOfRows
  <2> QED BY <2>1, <2>2 DEF OrderInitialRow, OrderRow, Lines
<1>3. ASSUME NEW o \in Order
      PROVE  LinesOf(o) = OrderedUnits[o]
  <2> PICK f : f = committed OBVIOUS
  <2>1. OrderedUnits[o] \in Int /\ NoTx \in Makers BY QuantityAssumption DEF Makers
  <2> QED BY <1>2, <2>1, LinesAreTotal, TotalOfOne
<1> QED BY Starts, <1>2, <1>3, QuantityAssumption DEF LinesInv, LinesDeleted, LinesInHand, Routed

\* A step of one request, whose statement is on to another, or changes no line.
LEMMA LinesByOne ==
    ASSUME LinesInv, Watch, NEW t \in Tx, NEW T, Frame(t, T), LinesDeleted(t)',
           \A o \in Order :
              /\ "total" \in DOMAIN OrderOf(o)'
              /\ \A by \in Makers : committed'[Lines(o, by)] \in Int
              /\ Apart({o})' => LinesOf(o)' = OrderOf(o)'.total,
           \A o \in Order, by \in Makers :
              committed'[Lines(o, by)] # committed[Lines(o, by)] => o = source[t] /\ pc'[t] # pc[t],
           Apart({source[t]})' => LinesInHand(t)',
           \A u \in Tx : pc[u] \in {"delete_lines", "replace_lines"} => source[u] \in Order
    PROVE  LinesInv'
<1>1. /\ UNCHANGED <<task, source>>
      /\ \A u \in Tx : u # t => pc'[u] = pc[u] /\ read'[u] = read[u] /\ pending'[u] = pending[u]
  BY DEF Frame
<1>2. ASSUME NEW u \in Tx, u # t, Apart({source[u]})'
      PROVE  LinesInHand(u)'
  <2> SUFFICES ASSUME pc[u] \in {"delete_lines", "replace_lines"} PROVE LinesInHand(u)'
    BY <1>1, <1>2 DEF LinesInHand
  <2>1. source[u] \in Order /\ LinesInHand(u) /\ Running(u)
    BY <1>1, <1>2, ApartBefore DEF LinesInv, Running, Done
  <2>2. \A by \in Makers : committed'[Lines(source[u], by)] = committed[Lines(source[u], by)]
    <3>1. source[t] = source[u] => pc'[t] = pc[t] BY <1>1, <1>2, <2>1, Meets
    <3> QED BY <2>1, <3>1
  <2> QED BY <1>1, <1>2, <2>1, <2>2 DEF LinesInHand
<1>3. \A u \in Tx : LinesDeleted(u)' BY <1>1 DEF LinesInv, LinesDeleted, LinesOfItsOrder, Routed
<1> QED BY <1>1, <1>2, <1>3 DEF LinesInv

LEMMA LineDeleters ==
    ASSUME Base, LinesInv, NEW u \in Tx, pc[u] \in OrderWays
    PROVE  source[u] \in Order
  BY RequestAssumption DEF Base, OnItsWay, Routed, LinesInv, OrderOps, OrderWays

\* A step that touches no order.
LEMMA LinesSpared ==
    ASSUME Base, LinesInv, Watch, NEW t \in Tx, NEW T, Frame(t, T), Spares(t, ItemTables),
           pc[t] # "replace_lines" \/ Dropped(t), pc'[t] \notin {"find_lines", "delete_lines", "replace_lines"}
    PROVE  LinesInv'
<1>1. pc[t] # "replace_lines" => \A r \in DOMAIN pending[t] : r[1] \notin ItemTables
  BY DEF LinesInv, LinesDeleted
<1>2. \A r \in Row : r[1] \in ItemTables => committed'[r] = committed[r] BY <1>1 DEF Spares, Dropped, Sees
<1>3. LinesDeleted(t)' BY <1>1 DEF Spares, Dropped, LinesDeleted, Routed
<1>4. ASSUME NEW o \in Order
      PROVE  /\ OrderOf(o)' = OrderOf(o)
             /\ \A by \in Makers : committed'[Lines(o, by)] = committed[Lines(o, by)]
  BY <1>2, LinesAreRows DEF OrderOf, ItemTables
<1>5. \A o \in Order : LinesOf(o)' = LinesOf(o) BY <1>4, SameLines
<1>6. LinesInHand(t)' BY DEF LinesInHand
<1>7. \A o \in Order : Apart({o})' => Apart({o}) BY ApartBefore DEF Frame
<1> QED BY <1>3, <1>4, <1>5, <1>6, <1>7, LinesByOne, LineDeleters DEF LinesInv, OrderWays

LEMMA LinesElsewhereStep ==
    ASSUME Base, LinesInv, Watch, NEW t \in Tx, Footprint(t), ~OrderStep(t)
    PROVE  LinesInv'
<1>1. PICK T : Frame(t, T) BY OrderElsewhere
<1>2. Spares(t, ItemTables) /\ pc'[t] \notin OrderWays /\ (pc[t] \notin OrderWays \/ Dropped(t))
  BY OrderElsewhere
<1> QED BY <1>1, <1>2, LinesSpared DEF OrderWays

\* The last statement of a transaction on order d, that leaves it with what lines
\* and total rows says.
LEMMA LinesCommitted ==
    ASSUME Base, LinesInv, Watch, NEW t \in Tx, NEW d \in Order, d = source[t], pc[t] # "committed",
           NEW rows, Ends(t, rows),
           \A o \in Order : OrderRow(o) \in DOMAIN rows =>
               o = d /\ "total" \in DOMAIN rows[OrderRow(o)],
           \A o \in Order, by \in Makers : Lines(o, by) \in DOMAIN rows =>
               o = d /\ rows[Lines(o, by)] \in Int,
           Apart({d})' => LinesOf(d)' = OrderOf(d)'.total
    PROVE  LinesInv'
<1> DEFINE T == {r[1] : r \in DOMAIN rows}
<1>1. InTables(rows, T) BY DEF InTables
<1> HIDE DEF T
<1>2. /\ Frame(t, T) /\ Published(t, T) /\ pc'[t] = "committed"
      /\ \A r \in Row : committed'[r] = IF r \in DOMAIN rows THEN rows[r] ELSE Sees(t, r)
  BY <1>1, CommitsFrame DEF Base, Ends
<1>3. \A o \in Order : OrderOf(o)' = IF OrderRow(o) \in DOMAIN rows THEN rows[OrderRow(o)] ELSE OrderOf(o)
  BY <1>2, LinesAreRows DEF LinesInv, LinesDeleted, LinesOfItsOrder, Lines, Sees, OrderOf, ItemTables
<1>4. \A o \in Order, by \in Makers : Sees(t, Lines(o, by)) \in Int
  <2> SUFFICES ASSUME NEW o \in Order, NEW by \in Makers PROVE Sees(t, Lines(o, by)) \in Int OBVIOUS
  <2>1. Lines(o, by)[1] \in ItemTables /\ LinesDeleted(t) /\ committed[Lines(o, by)] \in Int
    BY LinesAreRows DEF LinesInv, ItemTables
  <2> QED BY <2>1 DEF LinesDeleted, Sees
<1>5. \A o \in Order, by \in Makers : committed'[Lines(o, by)] \in Int BY <1>2, <1>4, LinesAreRows
<1>6. LinesDeleted(t)' /\ LinesInHand(t)' BY <1>2 DEF Published, LinesDeleted, LinesInHand, Routed
<1>7. ASSUME NEW o \in Order, o # d, NEW by \in Makers
      PROVE  committed'[Lines(o, by)] = committed[Lines(o, by)]
  <2>1. Lines(o, by) \notin DOMAIN pending[t]
    BY <1>7, LinesAreRows DEF LinesInv, LinesDeleted, LinesOfItsOrder, ItemTables, Lines
  <2> QED BY <1>2, <1>7, <2>1, LinesAreRows DEF Sees
<1>8. ASSUME NEW o \in Order, Apart({o})'
      PROVE  LinesOf(o)' = OrderOf(o)'.total
  <2>1. CASE o = d BY <1>8, <2>1
  <2>2. CASE o # d BY <1>2, <1>3, <1>7, <1>8, <2>2, SameLines, ApartBefore DEF LinesInv, Frame
  <2> QED BY <2>1, <2>2
<1>9. \A o \in Order : "total" \in DOMAIN OrderOf(o)' BY <1>3 DEF LinesInv
<1> QED BY <1>2, <1>5, <1>6, <1>7, <1>8, <1>9, LinesByOne, LineDeleters DEF OrderWays

LEMMA LinesOwnStep ==
    ASSUME Base, LinesInv, Watch, NEW t \in Tx, Footprint(t), OrderStep(t)
    PROVE  LinesInv'
<1> PICK d : d = source[t] OBVIOUS
<1>0. Shape /\ Locks /\ LinesDeleted(t) /\ pc[t] \notin Done BY DoneIsDone DEF Base, LinesInv
<1>1. pc[t] \in OrderWays => d \in Order BY LineDeleters
<1>2. task[t].op = "edit_order" => task[t].n \in Int BY RequestAssumption DEF LinesInv
<1>3. pc[t] # "replace_lines" => \A r \in DOMAIN pending[t] : r[1] \notin ItemTables
  BY <1>0 DEF LinesDeleted
<1>4. ASSUME NEW o \in Order, pc[t] # "replace_lines"
      PROVE  \A by \in Makers : Sees(t, Lines(o, by)) = committed[Lines(o, by)]
  BY <1>3, <1>4, LinesAreRows DEF Sees, ItemTables
<1>5. d \in Order => SeenOrder(t) = OrderOf(d) /\ "total" \in DOMAIN OrderOf(d)
  <2> SUFFICES ASSUME d \in Order PROVE SeenOrder(t) = OrderOf(d) /\ "total" \in DOMAIN OrderOf(d) OBVIOUS
  <2>1. OrderRow(d) \notin DOMAIN pending[t]
    BY <1>0, LinesAreRows DEF LinesDeleted, LinesOfItsOrder, ItemTables
  <2> QED BY <2>1 DEF LinesInv, SeenOrder, Sees, OrderOf
<1>6. ASSUME NEW v, NEW s, Reads(t, v, s), pc[t] # "replace_lines",
             s \notin {"find_lines", "delete_lines", "replace_lines"}
      PROVE  LinesInv'
  <2>1. Frame(t, {}) /\ pc'[t] = s BY <1>0, <1>6, ReadsFrame
  <2> QED BY <1>6, <2>1, LinesSpared, FrameSpares
<1>7. ASSUME NEW s, Throws(t, s), s \notin {"find_lines", "delete_lines", "replace_lines"}
      PROVE  LinesInv'
  <2>1. Frame(t, {}) /\ Dropped(t) /\ pc'[t] = s BY <1>0, <1>7, ThrowsFrame
  <2> QED BY <1>7, <2>1, LinesSpared, FrameSpares
<1>8. ASSUME NEW rows, NEW s, Writes(t, rows, s), NEW T, InTables(rows, T), T \cap ItemTables = {},
             pc[t] # "replace_lines", s \notin {"find_lines", "delete_lines", "replace_lines"}
      PROVE  LinesInv'
  <2>1. Frame(t, T) /\ pc'[t] = s BY <1>0, <1>8, WritesFrame
  <2> QED BY <1>8, <2>1, LinesSpared, FrameSpares
\* The order is written, and its lines are not.
<1>9. ASSUME NEW rows, Ends(t, rows), d \in Order, pc[t] \in {"set_status", "set_paid"},
             \A r \in DOMAIN rows : r[1] \in ItemTables => r = OrderRow(d),
             OrderRow(d) \in DOMAIN rows, "total" \in DOMAIN rows[OrderRow(d)],
             rows[OrderRow(d)].total = OrderOf(d).total
      PROVE  LinesInv'
  <2>1. \A r \in Row : committed'[r] = IF r \in DOMAIN rows THEN rows[r] ELSE Sees(t, r)
    BY <1>9 DEF Ends, CommitsTo
  <2>2. \A by \in Makers : Lines(d, by) \notin DOMAIN rows
    BY <1>9, LinesAreRows DEF ItemTables, OrderRow, Lines
  <2>3. \A by \in Makers : committed'[Lines(d, by)] = committed[Lines(d, by)]
    BY <1>4, <1>9, <2>1, <2>2, LinesAreRows
  <2>4. OrderOf(d)' = rows[OrderRow(d)]
    <3>1. committed'[OrderRow(d)] = rows[OrderRow(d)] BY <1>9, <2>1, LinesAreRows
    <3>2. UNCHANGED source BY <1>9 DEF Ends, CommitsTo, locals
    <3> QED BY <3>1, <3>2 DEF OrderOf
  <2>5. Apart({d})' => LinesOf(d)' = OrderOf(d)'.total
    <3>1. LinesOf(d)' = LinesOf(d) BY <1>9, <2>3, SameLines DEF Ends, CommitsTo, locals
    <3>2. UNCHANGED source BY <1>9 DEF Ends, CommitsTo, locals
    <3>3. Apart({d})' => Apart({d}) BY <3>2, ApartBefore
    <3> QED BY <1>9, <2>4, <3>1, <3>3 DEF LinesInv
  <2>6. \A o \in Order : OrderRow(o) \in DOMAIN rows =>
             o = d /\ "total" \in DOMAIN rows[OrderRow(o)]
    BY <1>9, LinesAreRows DEF ItemTables, OrderRow
  <2>7. \A o \in Order, by \in Makers : Lines(o, by) \notin DOMAIN rows
    BY <1>9, LinesAreRows DEF ItemTables, OrderRow, Lines
  <2>8. UNCHANGED source BY <1>9 DEF Ends, CommitsTo, locals
  <2> QED BY <1>9, <2>5, <2>6, <2>7, <2>8, LinesCommitted
<1>10. CASE ReadForOrderStatus(t)
  <2> DEFINE value == [n |-> Ordered(t), total |-> SeenOrder(t).total]
             next == IF task[t].status = "DELIVERED" /\ SeenOrder(t).status # "DELIVERED"
                     THEN "deliver" ELSE "set_status"
  <2>1. Reads(t, value, next) /\ pc[t] = "idle" BY <1>10 DEF ReadForOrderStatus, At
  <2>2. next \in {"deliver", "set_status"} OBVIOUS
  <2> HIDE DEF value, next
  <2> QED BY <1>6, <2>1, <2>2
<1>11. CASE DeliverLines(t)
  <2> DEFINE rows == Stock(Shop(t)) :> Moved(t, Shop(t), -read[t].n)
  <2>1. Writes(t, rows, "spend") /\ pc[t] = "deliver" BY <1>11 DEF DeliverLines
  <2>2. InTables(rows, {"stock"}) BY DEF :>, Stock, InTables
  <2> HIDE DEF rows
  <2> QED BY <1>8, <2>1, <2>2 DEF ItemTables
<1>12. CASE SpendOnOrder(t)
  <2> DEFINE rows == Customer :> [SeenCustomer(t) EXCEPT !.spent = @ + read[t].total]
  <2>1. Writes(t, rows, "set_status") /\ pc[t] = "spend" BY <1>12 DEF SpendOnOrder
  <2>2. InTables(rows, {"customer"}) BY DEF :>, Customer, InTables
  <2> HIDE DEF rows
  <2> QED BY <1>8, <2>1, <2>2 DEF ItemTables
<1>13. CASE DeliverShort(t) \/ OrderGone(t) BY <1>7, <1>13 DEF DeliverShort, OrderGone, Shortage
<1>14. CASE ReadForDeposit(t) \/ ReadForOrderRemove(t)
  BY <1>6, <1>14 DEF ReadForDeposit, ReadForOrderRemove, At
<1>15. CASE SetOrderStatus(t)
  <2> DEFINE rows == OrderRow(source[t]) :> [SeenOrder(t) EXCEPT !.status = task[t].status]
  <2>1. Ends(t, rows) /\ pc[t] = "set_status" /\ d \in Order BY <1>1, <1>15 DEF SetOrderStatus, OrderWays
  <2>2. /\ DOMAIN rows = {OrderRow(d)} /\ "total" \in DOMAIN rows[OrderRow(d)]
        /\ rows[OrderRow(d)].total = OrderOf(d).total
    BY <1>5, <2>1 DEF :>
  <2> HIDE DEF rows
  <2> QED BY <1>9, <2>1, <2>2
<1>16. CASE TakeDeposit(t)
  <2> DEFINE rows == Deposit(t) :> task[t].n @@ OrderRow(source[t]) :> [SeenOrder(t) EXCEPT !.paid = read[t]]
  <2>1. Ends(t, rows) /\ pc[t] = "set_paid" /\ d \in Order BY <1>1, <1>16 DEF TakeDeposit, OrderWays
  <2>2. /\ DOMAIN rows = {Deposit(t), OrderRow(d)} /\ "total" \in DOMAIN rows[OrderRow(d)]
        /\ rows[OrderRow(d)].total = OrderOf(d).total
    BY <1>5, <2>1 DEF :>, @@, Deposit, OrderRow
  <2>3. Deposit(t)[1] \notin ItemTables BY DEF Deposit, ItemTables
  <2> HIDE DEF rows
  <2> QED BY <1>9, <2>1, <2>2, <2>3
<1>21. CASE ReadForOrderEdit(t)
  <2>1. Reads(t, Nothing, "find_lines") /\ pc[t] = "idle" /\ task[t].op = "edit_order"
    BY <1>21 DEF ReadForOrderEdit, At
  <2>3. Frame(t, {}) /\ pc'[t] = "find_lines" /\ UNCHANGED dbVars BY <1>0, <2>1, ReadsFrame
  <2>4. Frame(t, {}) /\ pc'[t] = "find_lines" /\ UNCHANGED <<committed, pending, source, task>>
    BY <2>3 DEF dbVars, Frame
  <2>5. LinesDeleted(t)' /\ LinesInHand(t)' BY <1>3, <2>1, <2>4 DEF LinesDeleted, LinesInHand, Routed
  <2>6. \A o \in Order : LinesOf(o)' = LinesOf(o) /\ OrderOf(o)' = OrderOf(o) BY <2>4, SameLines DEF OrderOf
  <2>7. \A o \in Order : Apart({o})' => Apart({o}) BY <2>4, ApartBefore
  <2> QED BY <2>4, <2>5, <2>6, <2>7, LinesByOne, LineDeleters DEF LinesInv, OrderWays
<1>17. CASE FindLines(t)
  <2> DEFINE value == LinesSeen(t)
  <2>1. Reads(t, value, "delete_lines") /\ pc[t] = "find_lines" /\ d \in Order
    BY <1>1, <1>17 DEF FindLines, OrderWays
  <2>2. value \subseteq LinesOfItsOrder(t) BY DEF LinesSeen, LinesOfItsOrder
  <2>3. \A by \in Makers : committed[Lines(d, by)] # 0 => Lines(d, by) \in value BY <1>4, <2>1 DEF LinesSeen
  <2> HIDE DEF value
  <2>4. /\ Frame(t, {}) /\ pc'[t] = "delete_lines" /\ read'[t] = value
        /\ UNCHANGED <<committed, pending, source>>
    BY <1>0, <2>1, ReadsFrame DEF dbVars, Frame
  <2>5. LinesDeleted(t)' /\ LinesInHand(t)'
    BY <1>0, <1>3, <2>1, <2>2, <2>3, <2>4 DEF LinesDeleted, LinesOfItsOrder, LinesInHand, Routed,
      Frame
  <2>6. \A o \in Order : LinesOf(o)' = LinesOf(o) /\ OrderOf(o)' = OrderOf(o) BY <2>4, SameLines DEF OrderOf
  <2>7. \A o \in Order : Apart({o})' => Apart({o}) BY <2>4, ApartBefore
  <2> QED BY <2>4, <2>5, <2>6, <2>7, LinesByOne, LineDeleters DEF LinesInv, OrderWays
<1>18. CASE DeleteLines(t)
  <2> DEFINE rows == [r \in read[t] |-> 0]
  <2>1. Writes(t, rows, "replace_lines") /\ pc[t] = "delete_lines" /\ d \in Order
    BY <1>1, <1>18 DEF DeleteLines, OrderWays
  <2>2. DOMAIN rows = read[t] /\ \A r \in read[t] : rows[r] = 0 /\ r \in LinesOfItsOrder(t) /\ r[1] = "lines"
    BY <1>0, <2>1, LinesAreRows DEF LinesDeleted, LinesOfItsOrder
  <2>3. InTables(rows, {"lines"}) BY <2>2 DEF InTables
  <2> HIDE DEF rows
  <2>4. /\ Frame(t, {"lines"}) /\ pc'[t] = "replace_lines" /\ UNCHANGED <<committed, source>>
        /\ DOMAIN pending'[t] = DOMAIN pending[t] \cup DOMAIN rows
        /\ \A r \in DOMAIN rows : pending'[t][r] = rows[r]
    BY <1>0, <2>1, <2>3, WritesFrame DEF Frame
  <2>5. LinesDeleted(t)' BY <1>0, <1>3, <2>1, <2>2, <2>4 DEF LinesDeleted, LinesOfItsOrder, Routed, Frame
  <2>6. ASSUME Apart({d})'
        PROVE  LinesInHand(t)'
    <3>1. LinesInHand(t) BY <2>4, <2>6, ApartBefore DEF LinesInv
    <3> QED BY <2>1, <2>2, <2>4, <3>1 DEF LinesInHand
  <2>7. \A o \in Order : LinesOf(o)' = LinesOf(o) /\ OrderOf(o)' = OrderOf(o) BY <2>4, SameLines DEF OrderOf
  <2>8. \A o \in Order : Apart({o})' => Apart({o}) BY <2>4, ApartBefore
  <2> QED BY <2>4, <2>5, <2>6, <2>7, <2>8, LinesByOne, LineDeleters DEF LinesInv, OrderWays
<1>19. CASE ReplaceLines(t)
  <2> DEFINE rows == Lines(source[t], t) :> task[t].n
                        @@ OrderRow(source[t]) :> [SeenOrder(t) EXCEPT !.total = task[t].n,
                                                                       !.status = task[t].status]
             n == task[t].n
  <2>1. Ends(t, rows) /\ pc[t] = "replace_lines" /\ d \in Order BY <1>1, <1>19 DEF ReplaceLines, OrderWays
  <2>2. /\ DOMAIN rows = {Lines(d, t), OrderRow(d)} /\ "total" \in DOMAIN rows[OrderRow(d)]
        /\ rows[OrderRow(d)].total = n /\ rows[Lines(d, t)] = n
    BY <1>5, <2>1 DEF :>, @@, Lines, OrderRow
  <2>3. n \in Int BY <1>0, <1>2, <2>1 DEF LinesDeleted, Routed
  <2> HIDE DEF rows
  <2>4. \A r \in Row : committed'[r] = IF r \in DOMAIN rows THEN rows[r] ELSE Sees(t, r)
    BY <2>1 DEF Ends, CommitsTo
  <2>5. UNCHANGED source BY <2>1 DEF Ends, CommitsTo, locals
  <2>6. ASSUME Apart({d})'
        PROVE  LinesOf(d)' = OrderOf(d)'.total
    <3>1. LinesInHand(t) BY <2>5, <2>6, ApartBefore DEF LinesInv
    <3>2. \A by \in Makers : by # t => Lines(d, by) \notin DOMAIN rows BY <2>2 DEF Lines, OrderRow
    <3>3. \A by \in Makers : by # t => committed'[Lines(d, by)] = 0
      <4>1. ASSUME NEW by \in Makers, by # t
            PROVE  Sees(t, Lines(d, by)) = 0
        BY <1>0, <2>1, <3>1, LinesAreRows DEF LinesInHand, LinesDeleted, Sees, ItemTables
      <4> QED BY <2>1, <2>4, <3>2, <4>1, LinesAreRows
    <3>4. t \in Makers /\ committed'[Lines(d, t)] = n /\ committed'[OrderRow(d)].total = n
      BY <2>1, <2>2, <2>4, LinesAreRows DEF Makers
    <3> PICK g : g = committed' OBVIOUS
    <3>5. LinesOf(d)' = n BY <2>3, <3>3, <3>4, LinesAreTotal, TotalOfOne
    <3> QED BY <2>5, <3>4, <3>5 DEF OrderOf
  <2>7. \A o \in Order : OrderRow(o) \in DOMAIN rows =>
             o = d /\ "total" \in DOMAIN rows[OrderRow(o)]
    BY <2>2 DEF OrderRow, Lines
  <2>8. \A o \in Order, by \in Makers : Lines(o, by) \in DOMAIN rows =>
             o = d /\ rows[Lines(o, by)] \in Int
    BY <2>2, <2>3 DEF OrderRow, Lines
  <2> QED BY <2>1, <2>5, <2>6, <2>7, <2>8, LinesCommitted
<1>20. CASE RemoveOrder(t)
  <2> DEFINE rows == [r \in {OrderRow(source[t])} \cup {Lines(source[t], by) : by \in Makers}
                               \cup {Deposit(u) : u \in {v \in Tx : source[v] = source[t]}} |->
                        IF r = OrderRow(source[t]) THEN NoOrder ELSE 0]
  <2>1. Ends(t, rows) /\ pc[t] = "remove_order" /\ d \in Order BY <1>1, <1>20 DEF RemoveOrder, OrderWays
  <2>2. /\ OrderRow(d) \in DOMAIN rows /\ rows[OrderRow(d)] = NoOrder
        /\ \A by \in Makers : Lines(d, by) \in DOMAIN rows /\ rows[Lines(d, by)] = 0
    BY DEF OrderRow, Lines
  <2>3. /\ \A o \in Order : OrderRow(o) \in DOMAIN rows => o = d
        /\ \A o \in Order, by \in Makers : Lines(o, by) \in DOMAIN rows => o = d
    BY DEF OrderRow, Lines, Deposit
  <2> HIDE DEF rows
  <2>4. \A r \in Row : committed'[r] = IF r \in DOMAIN rows THEN rows[r] ELSE Sees(t, r)
    BY <2>1 DEF Ends, CommitsTo
  <2>5. UNCHANGED source BY <2>1 DEF Ends, CommitsTo, locals
  <2>6. committed'[OrderRow(d)] = NoOrder /\ \A by \in Makers : committed'[Lines(d, by)] = 0
    BY <2>1, <2>2, <2>4, LinesAreRows
  <2>7. LinesOf(d)' = OrderOf(d)'.total
    <3> PICK g : g = committed' OBVIOUS
    <3>1. \A by \in Makers : LineColumn(g, d)[by] = 0 BY <2>6 DEF LineColumn
    <3>2. IsFiniteSet(Makers) BY FiniteAssumption, FS_AddElement DEF Makers
    <3>3. LinesOf(d)' = 0 BY <3>1, <3>2, LinesAreTotal, TotalOfZeros
    <3> QED BY <2>5, <2>6, <3>3 DEF OrderOf, NoOrder
  <2>8. "total" \in DOMAIN rows[OrderRow(d)] /\ 0 \in Int BY <2>2 DEF NoOrder
  <2>9. /\ \A o \in Order : OrderRow(o) \in DOMAIN rows => o = d /\ "total" \in DOMAIN rows[OrderRow(o)]
        /\ \A o \in Order, by \in Makers : Lines(o, by) \in DOMAIN rows => o = d /\ rows[Lines(o, by)] \in Int
    BY <2>2, <2>3, <2>8
  <2> QED BY <2>1, <2>5, <2>7, <2>9, LinesCommitted
<1> QED BY <1>10, <1>11, <1>12, <1>13, <1>14, <1>15, <1>16, <1>17, <1>18, <1>19, <1>20, <1>21 DEF
  OrderStep

\* The lines of an order add up to its total, whatever was edited, aborted or
\* delivered, unless requests about the order ran at the same time
\* (SalesOrdersService.update).
THEOREM OrderIsOneEditHolds == Spec => []OrderIsOneEdit
<1>1. Init => Base /\ LinesInv BY BaseInit, LinesInit
<1>2. Base /\ LinesInv /\ [Next]_vars => Base' /\ LinesInv'
  <2> SUFFICES ASSUME Base, LinesInv, [Next]_vars PROVE Base' /\ LinesInv' OBVIOUS
  <2>1. CASE UNCHANGED vars
    <3>1. UNCHANGED <<committed, pending, pc, read, task, source, overlapped>>
      BY <2>1 DEF vars, dbVars, postingVars
    <3>2. \A o \in Order : LinesOf(o)' = LinesOf(o) BY <3>1, SameLines
    <3>3. LinesInv'
      BY <3>1, <3>2 DEF LinesInv, LinesDeleted, LinesOfItsOrder, LinesInHand, OrderOf, Apart, Routed
    <3> QED BY <2>1, <3>3, BaseNext
  <2>2. CASE Next BY <2>2, BaseNext, ServeOnce, LinesElsewhereStep, LinesOwnStep
  <2> QED BY <2>1, <2>2
<1>3. LinesInv => OrderIsOneEdit BY DEF LinesInv, OrderIsOneEdit
<1> QED BY <1>1, <1>2, <1>3, PTL DEF Spec

-----------------------------------------------------------------------------
(* Loans and their payments.                                                 *)

\* Nobody else touches the loans; and one that is cut short leaves nothing.
LEMMA LoanElsewhere ==
    ASSUME NEW t \in Tx, Footprint(t), ~LoanStep(t)
    PROVE  /\ \E T : Frame(t, T)
           /\ Spares(t, LoanTables)
           /\ pc'[t] \notin LoanWays
           /\ pc[t] \notin LoanWays \/ (Dropped(t) /\ pc'[t] = "failed")
  BY Services, ServicesOwn, SparedElsewhere

LEMMA LoansAreRows ==
    /\ \A l \in Loan : LoanRow(l) \in LoanRows /\ LoanRow(l) \in Row /\ LoanRow(l)[1] \in LoanTables
    /\ \A p \in LoanPayment : Repaid(p) \in LoanRows /\ Repaid(p) \in Row /\ Repaid(p)[1] \in LoanTables
    /\ \A l, p : LoanRow(l) # Repaid(p)
    /\ \A p, q : Repaid(p) = Repaid(q) => p = q
    /\ \A k, l : LoanRow(k) = LoanRow(l) => k = l
<1>1. LoanRows \subseteq Row BY RowAssumption DEF TenantRows, BackOfficeRows
<1> QED BY <1>1 DEF LoanRows, LoanTables, LoanRow, Repaid

\* The request of an operation on loans is about one loan.
LEMMA LoanRequests ==
    ASSUME LoanInv, NEW t \in Tx, task[t].op \in LoanOps
    PROVE  /\ LoanFor(t) \in Loan /\ source[t] \in {LoanFor(t)} \cup PaymentsOf(LoanFor(t))
           /\ task[t].op \in {"lend", "edit_loan", "delete_loan"} => LoanFor(t) = source[t]
           /\ task[t].op \in {"repay", "unpay"} =>
                 source[t] \in LoanPayment /\ source[t] \in PaymentsOf(LoanFor(t))
           /\ task[t].op \in {"lend", "repay"} => task[t].n \in Nat \ {0}
  BY LoanAssumption DEF LoanInv, LoanOps, LoanFor, PaymentsOf

LEMMA LoanDoers ==
    ASSUME Base, LoanInv, NEW u \in Tx,
           pc[u] \in LoanWays \/ PostsLoan(u, "lend") \/ PostsLoan(u, "repay")
    PROVE  task[u].op \in LoanOps /\ Running(u)
  BY DEF Base, OnItsWay, Routed, PostsLoan, Posting, LoanOps, LoanWays, Running, Done

\* RepaidOf is a sum over the payments, at any time.
RepaidColumn(f, S) == [p \in S |-> f[Repaid(p)]]

LEMMA RepaidIsTotal ==
    ASSUME NEW f, NEW l
    PROVE  /\ committed = f => RepaidOf(l) = Total(RepaidColumn(f, PaymentsOf(l)), PaymentsOf(l))
           /\ committed' = f => RepaidOf(l)' = Total(RepaidColumn(f, PaymentsOf(l)), PaymentsOf(l))
           /\ IsFiniteSet(PaymentsOf(l))
<1> DEFINE S == PaymentsOf(l)
           g == RepaidColumn(f, S)
           RepaidAdds(k) == k = [s \in SUBSET S |->
                IF s = {} THEN 0 ELSE f[Repaid(Chosen(s))] + k[Without(s)]]
<1>1. IsFiniteSet(S) BY FiniteAssumption, FS_Subset DEF PaymentsOf
<1>2. \A x \in S : g[x] = f[Repaid(x)] BY DEF RepaidColumn
<1>3. committed = f => RepaidOf(l) = (CHOOSE k : RepaidAdds(k))[S]
  BY DEF RepaidOf, MapThenSumSet, MapThenFoldSet, Chosen, Without
<1>4. committed' = f => RepaidOf(l)' = (CHOOSE k : RepaidAdds(k))[S]
  BY DEF RepaidOf, MapThenSumSet, MapThenFoldSet, Chosen, Without
<1> HIDE DEF g, S
<1>5. ASSUME NEW s \in SUBSET S, s # {}
      PROVE  g[Chosen(s)] = f[Repaid(Chosen(s))]
  BY <1>2, <1>5, ChosenIsIn
<1>6. \A k : RepaidAdds(k) <=> Adds(k, g, S) BY <1>5 DEF Adds
<1> HIDE DEF RepaidAdds
<1>7. Adds(CHOOSE k : RepaidAdds(k), g, S) BY <1>1, <1>6, AddsExists
<1> QED BY <1>1, <1>3, <1>4, <1>7, TotalUnfolds DEF g, S

LEMMA SeenIsRepaid ==
    ASSUME NEW t, NEW l, l = LoanFor(t), \A p \in PaymentsOf(l) : Sees(t, Repaid(p)) = committed[Repaid(p)]
    PROVE  SeenRepaid(t) = RepaidOf(l)
<1> DEFINE S == PaymentsOf(l)
           g == RepaidColumn(committed, S)
           SeenAdds(k) == k = [s \in SUBSET S |->
                IF s = {} THEN 0 ELSE Sees(t, Repaid(Chosen(s))) + k[Without(s)]]
<1>1. IsFiniteSet(S) BY RepaidIsTotal
<1>2. \A x \in S : g[x] = Sees(t, Repaid(x)) BY DEF RepaidColumn
<1>3. SeenRepaid(t) = (CHOOSE k : SeenAdds(k))[S]
  BY DEF SeenRepaid, MapThenSumSet, MapThenFoldSet, Chosen, Without
<1>4. RepaidOf(l) = Total(g, S) BY RepaidIsTotal
<1> HIDE DEF g, S
<1>5. PICK h : Adds(h, g, S) BY <1>1, AddsExists
<1>6. \A k : Adds(k, g, S) => k[S] = h[S] BY <1>1, <1>5, AddsAgree
<1>7. ASSUME NEW s \in SUBSET S, s # {}
      PROVE  g[Chosen(s)] = Sees(t, Repaid(Chosen(s)))
  BY <1>2, <1>7, ChosenIsIn
<1>8. \A k : SeenAdds(k) <=> Adds(k, g, S) BY <1>7 DEF Adds
<1> HIDE DEF SeenAdds
<1>9. (CHOOSE k : SeenAdds(k))[S] = h[S] BY <1>5, <1>6, <1>8
<1> QED BY <1>1, <1>3, <1>4, <1>5, <1>9, TotalUnfolds

LEMMA SameRepaid ==
    ASSUME NEW l, \A p \in PaymentsOf(l) : committed'[Repaid(p)] = committed[Repaid(p)]
    PROVE  RepaidOf(l)' = RepaidOf(l)
<1> PICK f, g : f = committed /\ g = committed' OBVIOUS
<1>1. RepaidColumn(f, PaymentsOf(l)) = RepaidColumn(g, PaymentsOf(l)) BY DEF RepaidColumn
<1> QED BY <1>1, RepaidIsTotal

LEMMA RepaidTyped ==
    ASSUME NEW l, \A p \in PaymentsOf(l) : committed[Repaid(p)] \in Nat
    PROVE  /\ RepaidOf(l) \in Int
           /\ (\A p \in PaymentsOf(l) : committed[Repaid(p)] = 0) => RepaidOf(l) = 0
<1> PICK f : f = committed OBVIOUS
<1> DEFINE S == PaymentsOf(l)
           g == RepaidColumn(f, S)
<1>1. g \in [S -> Int] /\ \A p \in S : g[p] = committed[Repaid(p)] BY DEF RepaidColumn
<1>2. RepaidOf(l) = Total(g, S) /\ IsFiniteSet(S) BY RepaidIsTotal
<1> HIDE DEF g, S
<1>3. RepaidOf(l) \in Int BY <1>1, <1>2, TotalTyped
<1>4. (\A p \in S : committed[Repaid(p)] = 0) => RepaidOf(l) = 0 BY <1>1, <1>2, TotalOfZeros
<1> QED BY <1>3, <1>4 DEF S

LEMMA RepaidChanges ==
    ASSUME NEW l, NEW p \in PaymentsOf(l),
           \A q \in PaymentsOf(l) : committed[Repaid(q)] \in Nat /\ committed'[Repaid(q)] \in Nat,
           \A q \in PaymentsOf(l) : q # p => committed'[Repaid(q)] = committed[Repaid(q)]
    PROVE  RepaidOf(l)' = RepaidOf(l) - committed[Repaid(p)] + committed'[Repaid(p)]
<1> PICK e, f : e = committed /\ f = committed' OBVIOUS
<1> DEFINE S == PaymentsOf(l)
           g == RepaidColumn(e, S)
           h == RepaidColumn(f, S)
<1>1. /\ g \in [S -> Int] /\ h \in [S -> Int]
      /\ \A q \in S : g[q] = committed[Repaid(q)] /\ h[q] = committed'[Repaid(q)]
  BY DEF RepaidColumn
<1>2. RepaidOf(l) = Total(g, S) /\ RepaidOf(l)' = Total(h, S) /\ IsFiniteSet(S) BY RepaidIsTotal
<1> HIDE DEF g, h
<1> QED BY <1>1, <1>2, TotalChanges

LEMMA LoanInit == Init => LoanInv
<1> SUFFICES ASSUME Init PROVE LoanInv OBVIOUS
<1>2. \A p \in LoanPayment : committed[Repaid(p)] = 0
  <2>1. \A p \in LoanPayment : committed[Repaid(p)] = LoanInitialRow(Repaid(p))
    BY Starts, LoansAreRows, StartOfRows
  <2> QED BY <2>1 DEF LoanInitialRow, Repaid
<1>3. \A l \in Loan : committed[LoanRow(l)] = IF Principal[l] = 0 THEN NoLoan ELSE NewLoan(Principal[l])
  <2>1. \A l \in Loan : committed[LoanRow(l)] = LoanInitialRow(LoanRow(l))
    BY Starts, LoansAreRows, StartOfRows
  <2> QED BY <2>1 DEF LoanInitialRow, LoanRow
<1>4. ASSUME NEW l \in Loan
      PROVE  LoanInOrder(l)
  <2>1. \A p \in PaymentsOf(l) : committed[Repaid(p)] = 0 BY <1>2 DEF PaymentsOf
  <2>2. RepaidOf(l) = 0 BY <2>1, RepaidTyped
  <2>3. Principal[l] \in Nat BY LoanAssumption
  <2>4. CASE Principal[l] = 0 BY <1>3, <2>1, <2>4 DEF LoanInOrder, IsLoan, NoLoan
  <2>5. CASE Principal[l] # 0
    <3>1. committed[LoanRow(l)] = [status |-> "ACTIVE", principal |-> Principal[l]]
      BY <1>3, <2>5 DEF NewLoan
    <3> QED BY <2>1, <2>2, <2>3, <2>5, <3>1 DEF LoanInOrder, IsLoan
  <2> QED BY <2>4, <2>5
<1>5. ASSUME NEW t \in Tx
      PROVE  LoansWritten(t) /\ LoanSteered(t) /\ LoanInHand(t)
  <2>1. task[t].op = "repay" => source[t] \in LoanPayment BY Starts, LoanAssumption
  <2> QED BY Starts, <1>2, <2>1 DEF LoansWritten, LoanSteered, Routed, LoanInHand, PostsLoan, Posting
<1> QED BY Starts, <1>4, <1>5 DEF LoanInv

\* What t has in hand depends on the loan's rows and on what t has read and written.
LEMMA SameLoanInHand ==
    ASSUME NEW t, NEW l, l = LoanFor(t), LoanInHand(t),
           UNCHANGED <<task, source>>,
           committed'[LoanRow(l)] = committed[LoanRow(l)], RepaidOf(l)' = RepaidOf(l),
           pc'[t] = pc[t] \/ (pc[t] \in Posting /\ pc'[t] \in Posting \cup {"commit"}), read'[t] = read[t],
           LoanRow(l) \in DOMAIN pending'[t] <=> LoanRow(l) \in DOMAIN pending[t],
           LoanRow(l) \in DOMAIN pending[t] => pending'[t][LoanRow(l)] = pending[t][LoanRow(l)],
           Repaid(source[t]) \in DOMAIN pending[t] =>
               /\ Repaid(source[t]) \in DOMAIN pending'[t]
               /\ pending'[t][Repaid(source[t])] = pending[t][Repaid(source[t])]
    PROVE  LoanInHand(t)'
<1>1. LoanFor(t)' = l /\ source'[t] = source[t] /\ task'[t] = task[t] BY DEF LoanFor
<1>2. /\ LoanRow(LoanFor(t))' = LoanRow(l) /\ RepaidOf(LoanFor(t))' = RepaidOf(l)
      /\ committed[LoanRow(LoanFor(t))]' = committed[LoanRow(l)]
  BY <1>1 DEF LoanRow, RepaidOf
<1>3. Fits(t)' = Fits(t) /\ Closes(t)' = Closes(t) BY <1>1, <1>2 DEF Fits, Closes
<1> QED BY <1>1, <1>2, <1>3 DEF LoanInHand, PostsLoan, Posting

\* A step of one request, about its own loan if it changes any.
LEMMA LoanByOne ==
    ASSUME Base, LoanInv, Watch, NEW t \in Tx, NEW T, Frame(t, T), NEW l, l = LoanFor(t),
           LoansWritten(t)', LoanSteered(t)',
           \A k \in Loan :
              \/ k = l /\ pc'[t] # pc[t] /\ task[t].op \in LoanOps
              \/ /\ committed'[LoanRow(k)] = committed[LoanRow(k)]
                 /\ Unpaying(k) \subseteq Unpaying(k)'
                 /\ \A p \in PaymentsOf(k) : committed'[Repaid(p)] = committed[Repaid(p)],
           \A p \in LoanPayment :
              committed'[Repaid(p)] \in {committed[Repaid(p)], 0}
                 \/ (task[t].op = "repay" /\ source[t] = p),
           task[t].op \in LoanOps /\ OneByOne(l)' => LoanInOrder(l)' /\ LoanInHand(t)'
    PROVE  LoanInv'
<1>1. /\ UNCHANGED <<task, source>>
      /\ \A u \in Tx : u # t => pc'[u] = pc[u] /\ read'[u] = read[u] /\ pending'[u] = pending[u]
  BY DEF Frame
<1>2. \A k : OneByOne(k)' => OneByOne(k) BY <1>1, ApartBefore DEF OneByOne, Edited
<1>3. \A u \in Tx : u # t => LoansWritten(u)' BY <1>1 DEF LoanInv, LoansWritten, PostsLoan, LoanFor
<1>4. ASSUME NEW u \in Tx, u # t
      PROVE  LoanSteered(u)'
  <2>1. LoanSteered(u) BY DEF LoanInv
  <2>2. ASSUME task[u].op = "repay", pc[u] \notin Done
        PROVE  committed'[Repaid(source[u])] = 0
    <3>1. source[u] \in LoanPayment /\ committed[Repaid(source[u])] = 0
      BY <2>1, <2>2, LoanRequests DEF LoanSteered, LoanOps
    <3>2. ~(task[t].op = "repay" /\ source[t] = source[u])
      BY <1>4, <2>2, WorkloadAssumption DEF LoanInv, Creations
    <3> QED BY <3>1, <3>2
  <2> QED BY <1>1, <1>4, <2>1, <2>2 DEF LoanSteered, Routed
<1>5. ASSUME NEW k \in Loan, OneByOne(k)', k # l \/ task[t].op \notin LoanOps
      PROVE  LoanInOrder(k)'
  <2>1. LoanInOrder(k) /\ RepaidOf(k)' = RepaidOf(k) BY <1>2, <1>5, SameRepaid DEF LoanInv
  <2>2. committed'[LoanRow(k)] = committed[LoanRow(k)] /\ Unpaying(k) \subseteq Unpaying(k)' BY <1>5
  <2>3. \A p \in PaymentsOf(k) : committed'[Repaid(p)] = committed[Repaid(p)] BY <1>5
  <2> QED BY <2>1, <2>2, <2>3 DEF LoanInOrder, IsLoan
<1>6. ASSUME NEW u \in Tx, u # t, task[u].op \in LoanOps, OneByOne(LoanFor(u))'
      PROVE  LoanInHand(u)'
  <2> PICK k : k = LoanFor(u) OBVIOUS
  <2>1. k \in Loan /\ source[u] \in {k} \cup PaymentsOf(k) /\ LoanFor(u)' = k
    BY <1>1, <1>6, LoanRequests DEF LoanFor
  <2>2. LoanInHand(u) /\ OneByOne(k)'
    BY <1>1, <1>2, <1>6, <2>1 DEF LoanInv, OneByOne, PaymentsOf, Apart, Edited
  <2>3. CASE pc[u] \notin LoanWays /\ ~PostsLoan(u, "lend") /\ ~PostsLoan(u, "repay")
    BY <1>1, <1>6, <2>3 DEF LoanInHand, LoanWays, PostsLoan
  <2>4. CASE pc[u] \in LoanWays \/ PostsLoan(u, "lend") \/ PostsLoan(u, "repay")
    <3>1. Running(u) BY <2>4, LoanDoers
    <3>2. ~(k = l /\ pc'[t] # pc[t] /\ task[t].op \in LoanOps)
      <4> SUFFICES ASSUME k = l, pc'[t] # pc[t], task[t].op \in LoanOps PROVE FALSE OBVIOUS
      <4>1. source[t] \in {k} \cup PaymentsOf(k) BY LoanRequests
      <4> QED BY <1>1, <1>6, <2>1, <2>2, <3>1, <4>1, Meets DEF OneByOne
    <3>3. /\ committed'[LoanRow(k)] = committed[LoanRow(k)]
          /\ \A p \in PaymentsOf(k) : committed'[Repaid(p)] = committed[Repaid(p)]
      BY <2>1, <3>2
    <3>4. RepaidOf(k)' = RepaidOf(k) BY <3>3, SameRepaid
    <3> QED BY <1>1, <1>6, <2>2, <3>3, <3>4, SameLoanInHand
  <2> QED BY <2>3, <2>4
<1>7. ASSUME NEW k \in Loan, OneByOne(k)'
      PROVE  LoanInOrder(k)'
  BY <1>5, <1>7
<1>8. ASSUME NEW u \in Tx, (task[u].op \in LoanOps)', OneByOne(LoanFor(u))'
      PROVE  LoanInHand(u)'
  <2>1. task[u].op \in LoanOps BY <1>1, <1>8
  <2>2. CASE u # t BY <1>6, <1>8, <2>1, <2>2
  <2>3. CASE u = t
    <3>1. LoanFor(t)' = l BY <1>1 DEF LoanFor
    <3>2. OneByOne(l)' BY <1>8, <2>3, <3>1 DEF OneByOne, PaymentsOf, Apart, Edited
    <3> QED BY <2>1, <2>3, <3>2
  <2> QED BY <2>2, <2>3
<1> QED BY <1>1, <1>3, <1>4, <1>7, <1>8 DEF LoanInv

\* A request about a loan that does nothing with loans posts, or is cut short.
LEMMA LoanIsPosted ==
    ASSUME Base, NEW t \in Tx, Footprint(t), ~LoanStep(t), task[t].op \in LoanOps
    PROVE  PostingFoot(t) \/ (pc'[t] = "failed" /\ Dropped(t))
<1> USE DEF Base, OnItsWay, Routed, Foot, From, LoanOps
<1>1. ~Foot(t, SaleTables, SaleOps, SaleWays) BY DEF SaleOps
<1>2. ~Foot(t, ReturnTables, ReturnOps, ReturnWays) BY DEF ReturnOps
<1>3. ~Foot(t, OrderTables, OrderOps, OrderWays) BY DEF OrderOps
<1>4. ~Foot(t, LoyaltyTables, LoyaltyOps, LoyaltyWays) BY DEF LoyaltyOps
<1>5. ~Foot(t, ClaimTables, ClaimOps, ClaimWays) BY DEF ClaimOps
<1>6. ~Foot(t, PurchasingTables, PurchasingOps, PurchasingWays) BY DEF PurchasingOps
<1>7. ~Foot(t, ProductionTables, ProductionOps, ProductionWays) BY DEF ProductionOps
<1>8. ~Foot(t, SupplierPaymentTables, SupplierPaymentOps, SupplierPaymentWays) BY DEF SupplierPaymentOps
<1>9. ~Foot(t, FundTables, FundOps, FundWays) BY DEF FundOps
<1>10. ~Foot(t, TillTables, TillOps, TillWays) BY DEF TillOps
<1>11. ~Foot(t, CommissionTables, CommissionOps, CommissionWays) BY DEF CommissionOps
<1>12. ~Foot(t, JournalTables, JournalOps, JournalWays) BY DEF JournalOps
<1>13. ~Foot(t, LeaveTables, LeaveOps, LeaveWays) BY DEF LeaveOps
<1>14. ~Foot(t, DepreciationTables, DepreciationOps, DepreciationWays) BY DEF DepreciationOps
<1>15. ~Foot(t, CampaignTables, CampaignOps, CampaignWays) BY DEF CampaignOps
<1> QED BY <1>1, <1>2, <1>3, <1>4, <1>5, <1>6, <1>7, <1>8,
     <1>9, <1>10, <1>11, <1>12, <1>13, <1>14, <1>15 DEF Footprint

LEMMA LoanElsewhereStep ==
    ASSUME Base, LoanInv, NEW t \in Tx, Footprint(t), ~LoanStep(t), Watch
    PROVE  LoanInv'
<1> PICK l : l = LoanFor(t) OBVIOUS
<1>1. PICK T : Frame(t, T) BY LoanElsewhere
<1>2. /\ Spares(t, LoanTables) /\ pc'[t] \notin LoanWays
      /\ pc[t] \notin LoanWays \/ (Dropped(t) /\ pc'[t] = "failed")
  BY LoanElsewhere
<1>3. /\ UNCHANGED <<task, source>> /\ LoansWritten(t) /\ LoanSteered(t) /\ pc[t] \notin Done
      /\ \A u \in Tx : u # t => pc'[u] = pc[u]
  BY <1>1, DoneIsDone DEF Frame, LoanInv
<1>4. task[t].op \notin LoanOps => \A r \in DOMAIN pending[t] : r[1] \notin LoanTables
  BY <1>3 DEF LoansWritten, PostsLoan, LoanOps
\* A request that posts what it lent or repaid goes on, or has dropped it.
<1>5. task[t].op \in LoanOps =>
         \/ Dropped(t) /\ pc'[t] \in Done
         \/ /\ pc[t] \in Posting /\ pc'[t] \in Posting \cup {"commit"} /\ read'[t] = read[t]
            /\ Kept(t, PostingTables) /\ committed' = committed
  BY LoanIsPosted DEF PostingFoot, Posting, Done
<1>6. \A r \in Row : r[1] \in LoanTables => committed'[r] = committed[r]
  BY <1>2, <1>4, <1>5 DEF Spares, Dropped, Sees
<1>7. /\ \A k \in Loan : committed'[LoanRow(k)] = committed[LoanRow(k)]
      /\ \A p \in LoanPayment : committed'[Repaid(p)] = committed[Repaid(p)]
      /\ \A k, p : p \in PaymentsOf(k) => p \in LoanPayment
  BY <1>6, LoansAreRows DEF PaymentsOf
<1>8. \A k : Unpaying(k) \subseteq Unpaying(k)' BY <1>2, <1>3 DEF Unpaying, LoanFor, LoanWays, Done
<1>9. LoansWritten(t)'
  <2>1. CASE task[t].op \notin LoanOps BY <1>2, <1>4, <2>1 DEF Spares, LoansWritten
  <2>2. CASE Dropped(t) BY <2>2 DEF Dropped, LoansWritten
  <2>3. CASE /\ pc[t] \in Posting /\ pc'[t] \in Posting \cup {"commit"}
             /\ Kept(t, PostingTables)
    <3>1. \A r \in DOMAIN pending'[t] : r[1] \in LoanTables => r \in DOMAIN pending[t]
      BY <2>3 DEF Kept, LoanTables, PostingTables
    <3> QED BY <1>3, <2>3, <3>1 DEF LoansWritten, PostsLoan, LoanFor
  <2> QED BY <1>5, <2>1, <2>2, <2>3
<1>10. LoanSteered(t)'
  <2>1. task[t].op = "repay" => source[t] \in LoanPayment BY LoanRequests DEF LoanOps
  <2> QED BY <1>2, <1>3, <1>7, <2>1 DEF LoanSteered, Routed, LoanWays
<1>11. ASSUME task[t].op \in LoanOps, OneByOne(l)'
       PROVE  LoanInOrder(l)' /\ LoanInHand(t)'
  <2>1. l \in Loan /\ OneByOne(l) BY <1>3, <1>11, LoanRequests, ApartBefore DEF OneByOne, Edited
  <2>2. RepaidOf(l)' = RepaidOf(l) BY <1>7, SameRepaid
  <2>3. LoanInOrder(l)' BY <1>7, <1>8, <2>1, <2>2 DEF LoanInv, LoanInOrder, IsLoan
  <2>4. CASE Dropped(t) /\ pc'[t] \in Done
    BY <1>2, <2>3, <2>4 DEF LoanInHand, LoanWays, PostsLoan, Posting, Done
  <2>5. CASE /\ pc[t] \in Posting /\ pc'[t] \in Posting \cup {"commit"} /\ read'[t] = read[t]
             /\ Kept(t, PostingTables)
    <3>1. LoanInHand(t) BY <1>11, <2>1 DEF LoanInv
    <3>2. \A r : r[1] \in LoanTables =>
             /\ r \in DOMAIN pending'[t] <=> r \in DOMAIN pending[t]
             /\ r \in DOMAIN pending[t] => pending'[t][r] = pending[t][r]
      BY <2>5 DEF Kept, LoanTables, PostingTables
    <3>3. LoanRow(l)[1] \in LoanTables /\ Repaid(source[t])[1] \in LoanTables
      BY DEF LoanRow, Repaid, LoanTables
    <3>4. LoanInHand(t)' BY <1>3, <1>7, <2>1, <2>2, <2>5, <3>1, <3>2, <3>3, SameLoanInHand
    <3> QED BY <2>3, <3>4
  <2> QED BY <1>5, <1>11, <2>4, <2>5
<1> QED BY <1>1, <1>7, <1>8, <1>9, <1>10, <1>11, LoanByOne

LEMMA LoanOwnStep ==
    ASSUME Base, LoanInv, NEW t \in Tx, Footprint(t), LoanStep(t), Watch
    PROVE  LoanInv'
<1> PICK l, d : l = LoanFor(t) /\ d = source[t] OBVIOUS
<1> DEFINE row == LoanRow(l)
           loan == committed[row]
<1>0. Shape /\ Locks /\ LoansWritten(t) /\ LoanSteered(t) /\ pc[t] \notin Done
  BY DoneIsDone DEF Base, LoanInv
<1>1. task[t].op \in LoanOps BY LoanFoot, <1>0 DEF Base, OnItsWay, Routed, Foot, From
<1>2. /\ l \in Loan /\ row \in Row /\ d \in {l} \cup PaymentsOf(l)
      /\ task[t].op \in {"lend", "edit_loan", "delete_loan"} => d = l
      /\ task[t].op \in {"repay", "unpay"} =>
            d \in LoanPayment /\ d \in PaymentsOf(l) /\ Repaid(d) \in Row
      /\ task[t].op \in {"lend", "repay"} => task[t].n \in Nat \ {0}
  BY <1>1, LoanRequests, LoansAreRows
<1>3. pc[t] # "commit" =>
         /\ \A r \in DOMAIN pending[t] : r[1] \notin LoanTables
         /\ SeenLoan(t) = loan
         /\ \A p \in LoanPayment : Sees(t, Repaid(p)) = committed[Repaid(p)]
  <2> SUFFICES ASSUME pc[t] # "commit"
               PROVE  /\ \A r \in DOMAIN pending[t] : r[1] \notin LoanTables
                      /\ SeenLoan(t) = loan
                      /\ \A p \in LoanPayment : Sees(t, Repaid(p)) = committed[Repaid(p)]
    OBVIOUS
  <2>1. pc[t] \notin Posting BY <1>0, LoanFoot DEF Base, OnItsWay, Foot, From, LoanWays, Posting
  <2>2. \A r \in DOMAIN pending[t] : r[1] \notin LoanTables BY <1>0, <2>1 DEF LoansWritten, PostsLoan
  <2> QED BY <1>2, <2>2, LoansAreRows DEF SeenLoan, Sees
<1>4. ASSUME UNCHANGED <<task, source>>, OneByOne(l)'
      PROVE  OneByOne(l) /\ LoanInOrder(l) /\ LoanInHand(t)
  <2>1. OneByOne(l) BY <1>4, ApartBefore DEF OneByOne, Edited
  <2> QED BY <1>1, <1>2, <2>1 DEF LoanInv
<1>5. ASSUME UNCHANGED <<task, source>>
      PROVE  LoanFor(t)' = l /\ LoanRow(LoanFor(t))' = row /\ RepaidOf(LoanFor(t))' = RepaidOf(l)'
  BY <1>5 DEF LoanFor, LoanRow, RepaidOf
<1> HIDE DEF row
\* A statement that leaves the rows of loans as they are.
<1>6. ASSUME NEW T, Frame(t, T), LoansWritten(t)',
             \A r \in Row : r[1] \in LoanTables => committed'[r] = committed[r],
             pc[t] = "reopen" => pc'[t] = "failed",
             pc'[t] = "total_paid" => task[t].op = "repay",
             pc'[t] = "reopen" => FALSE,
             pc'[t] \in {"lend", "edit_loan", "delete_loan", "repay", "unpay"} => task[t].op = pc'[t],
             OneByOne(l) /\ LoanInOrder(l) /\ LoanInHand(t) /\ RepaidOf(l)' = RepaidOf(l)
                => LoanInHand(t)'
      PROVE  LoanInv'
  <2>1. UNCHANGED <<task, source>> /\ \A u \in Tx : u # t => pc'[u] = pc[u] BY <1>6 DEF Frame
  <2>2. /\ \A k \in Loan : committed'[LoanRow(k)] = committed[LoanRow(k)]
        /\ \A p \in LoanPayment : committed'[Repaid(p)] = committed[Repaid(p)]
        /\ \A k, p : p \in PaymentsOf(k) => p \in LoanPayment
    BY <1>6, LoansAreRows DEF PaymentsOf
  <2>3. \A k : Unpaying(k) \subseteq Unpaying(k)' BY <1>0, <1>6, <2>1 DEF Unpaying, LoanFor, Done
  <2>4. LoanSteered(t)' BY <1>0, <1>2, <1>6, <2>1, <2>2 DEF LoanSteered, Routed
  <2>5. ASSUME OneByOne(l)'
        PROVE  LoanInOrder(l)' /\ LoanInHand(t)'
    <3>1. RepaidOf(l)' = RepaidOf(l) BY <2>2, SameRepaid
    <3>2. LoanInOrder(l)' BY <1>2, <1>4, <2>1, <2>2, <2>3, <2>5, <3>1 DEF LoanInOrder, IsLoan
    <3> QED BY <1>4, <1>6, <2>1, <2>5, <3>1, <3>2
  <2> QED BY <1>6, <2>2, <2>3, <2>4, <2>5, LoanByOne
<1>7. ASSUME NEW s \in Done, Throws(t, s), pc[t] = "reopen" => s = "failed"
      PROVE  LoanInv'
  <2>1. Frame(t, {}) /\ pc'[t] = s /\ Dropped(t) BY <1>0, <1>7, ThrowsFrame
  <2>2. LoansWritten(t)' /\ LoanInHand(t)'
    BY <1>7, <2>1 DEF LoansWritten, Dropped, LoanInHand, PostsLoan, Posting, Done
  <2> QED BY <1>6, <1>7, <2>1, <2>2 DEF Dropped, Routed, Done
<1>8. ASSUME NEW v, NEW n, NEW s, Reads(t, v, s) \/ ReadsToPost(t, v, n, s), pc[t] \notin {"commit", "reopen"},
             s \in {"lend", "edit_loan", "delete_loan", "repay", "unpay"} => task[t].op = s,
             s \in {"lend", "edit_loan", "delete_loan", "repay", "unpay", "total_paid"},
             s = "total_paid" => task[t].op = "repay",
             s = "lend" => loan = NoLoan,
             s = "total_paid" => loan # NoLoan /\ v = loan,
             s = "repay" /\ OneByOne(l) => Fits(t) /\ v = Closes(t)
      PROVE  LoanInv'
  <2>1. /\ Frame(t, {}) /\ pc'[t] = s /\ read'[t] = v /\ UNCHANGED <<committed, pending>>
    BY <1>0, <1>8, ReadsFrame DEF dbVars
  <2>2. UNCHANGED <<task, source>> BY <2>1 DEF Frame
  <2>3. LoansWritten(t)' BY <1>3, <1>8, <2>1 DEF LoansWritten
  <2>4. ASSUME OneByOne(l), RepaidOf(l)' = RepaidOf(l)
        PROVE  LoanInHand(t)'
    <3>1. s = "repay" => (Fits(t) /\ v = Closes(t))' BY <1>5, <1>8, <2>1, <2>2, <2>4 DEF Fits, Closes, row
    <3>2. committed[LoanRow(LoanFor(t))]' = loan BY <1>5, <2>1, <2>2
    <3> QED BY <1>8, <2>1, <3>1, <3>2 DEF LoanInHand, PostsLoan, Posting
  <2> QED BY <1>6, <1>8, <2>1, <2>3, <2>4 DEF Routed
\* The last statement, or the one before a loan is opened again.
<1>9. ASSUME NEW T, Frame(t, T), LoansWritten(t)', pc'[t] # pc[t], pc'[t] \in Done \cup {"reopen"},
             pc'[t] = "reopen" => task[t].op = "unpay",
             \A k \in Loan : k # l => committed'[LoanRow(k)] = committed[LoanRow(k)],
             \A p \in LoanPayment :
                 \/ committed'[Repaid(p)] = committed[Repaid(p)]
                 \/ committed'[Repaid(p)] = 0 /\ p \in PaymentsOf(l)
                 \/ task[t].op = "repay" /\ p = d,
             OneByOne(l) /\ LoanInOrder(l) /\ LoanInHand(t) =>
                 /\ LoanInOrder(l)'
                 /\ pc'[t] = "reopen" =>
                       (committed'[row] # NoLoan => RepaidOf(l)' < committed'[row].principal)
      PROVE  LoanInv'
  <2>1. UNCHANGED <<task, source>> /\ \A u \in Tx : u # t => pc'[u] = pc[u] BY <1>9 DEF Frame
  <2>2. LoanSteered(t)' BY <1>9, <2>1 DEF LoanSteered, Routed, Done
  <2>3. ASSUME NEW k \in Loan, k # l
        PROVE  /\ Unpaying(k) \subseteq Unpaying(k)'
               /\ \A p \in PaymentsOf(k) : committed'[Repaid(p)] = committed[Repaid(p)]
    <3>1. \A p \in PaymentsOf(k) : p \in LoanPayment /\ p \notin PaymentsOf(l) BY <2>3 DEF PaymentsOf
    <3>2. task[t].op = "repay" => d \in PaymentsOf(l) BY <1>2
    <3>3. Unpaying(k) \subseteq Unpaying(k)' BY <2>1, <2>3 DEF Unpaying, LoanFor
    <3> QED BY <1>9, <3>1, <3>2, <3>3
  <2>4. ASSUME OneByOne(l)'
        PROVE  LoanInOrder(l)' /\ LoanInHand(t)'
    <3>1. LoanInOrder(l)' BY <1>4, <1>9, <2>1, <2>4
    <3>2. pc'[t] = "reopen" =>
             (committed'[LoanRow(LoanFor(t))'] # NoLoan =>
                 RepaidOf(LoanFor(t))' < committed'[LoanRow(LoanFor(t))'].principal)
      BY <1>4, <1>5, <1>9, <2>1, <2>4
    <3> QED BY <1>9, <3>1, <3>2 DEF LoanInHand, PostsLoan, Posting, Done
  <2> QED BY <1>1, <1>9, <2>2, <2>3, <2>4, LoanByOne
<1>10. CASE Lend(t)
  <2>1. /\ ReadsToPost(t, Nothing, task[t].n, "lend") /\ pc[t] = "idle" /\ task[t].op = "lend"
        /\ SeenLoan(t) = NoLoan
    BY <1>10 DEF Lend, At
  <2> QED BY <1>3, <1>8, <2>1
<1>11. CASE FindLoan(t)
  <2>1. /\ Reads(t, Nothing, task[t].op) /\ pc[t] = "idle"
        /\ task[t].op \in {"edit_loan", "delete_loan"}
    BY <1>11 DEF FindLoan
  <2> QED BY <1>8, <2>1
<1>12. CASE ReadForRepayment(t)
  <2>1. /\ Reads(t, SeenLoan(t), "total_paid") /\ pc[t] = "idle" /\ task[t].op = "repay"
        /\ SeenLoan(t) # NoLoan
    BY <1>12 DEF ReadForRepayment, At
  <2> QED BY <1>3, <1>8, <2>1
<1>13. CASE ReadForUnpaying(t)
  <2>1. Reads(t, Nothing, "unpay") /\ pc[t] = "idle" /\ task[t].op = "unpay"
    BY <1>13 DEF ReadForUnpaying, At
  <2> QED BY <1>8, <2>1
<1>14. CASE CheckOutstanding(t)
  <2> DEFINE value == SeenRepaid(t) + task[t].n >= read[t].principal /\ read[t].status # "CLOSED"
  <2>1. pc[t] = "total_paid" /\ task[t].op = "repay"
    BY <1>0, <1>14 DEF CheckOutstanding, LoanSteered, Routed
  <2>2. SeenRepaid(t) = RepaidOf(l) BY <1>3, <2>1, SeenIsRepaid DEF PaymentsOf
  <2>3. CASE Covers(read[t], SeenRepaid(t), task[t].n)
    <3>1. ReadsToPost(t, value, task[t].n, "repay") BY <1>14, <2>3 DEF CheckOutstanding
    <3>2. ASSUME OneByOne(l)
          PROVE  Fits(t) /\ value = Closes(t)
      <4>1. LoanInOrder(l) /\ loan # NoLoan /\ read[t] = loan
        BY <1>1, <1>2, <2>1, <3>2 DEF LoanInv, LoanInHand, row
      <4>2. RepaidOf(l) \in Int /\ loan.principal \in Int /\ task[t].n \in Int
        BY <1>2, <2>1, <4>1, RepaidTyped DEF LoanInOrder, IsLoan, row
      <4> QED BY <2>2, <2>3, <4>1, <4>2 DEF Covers, Fits, Closes, row
    <3> HIDE DEF value
    <3> QED BY <1>8, <2>1, <3>1, <3>2
  <2>4. CASE ~Covers(read[t], SeenRepaid(t), task[t].n)
    BY <1>7, <1>14, <2>1, <2>4 DEF CheckOutstanding, Done
  <2> QED BY <2>3, <2>4
<1>15. CASE LoanGone(t) \/ PaymentGone(t) BY <1>7, <1>15 DEF LoanGone, PaymentGone, Done
<1>16. CASE InsertLoan(t)
  <2> DEFINE rows == LoanRow(source[t]) :> NewLoan(task[t].n)
  <2>1. Writes(t, rows, "post") /\ pc[t] = "lend" /\ task[t].op = "lend"
    BY <1>0, <1>16 DEF InsertLoan, LoanSteered, Routed
  <2>2. /\ InTables(rows, {"loan"}) /\ DOMAIN rows = {LoanRow(d)}
        /\ rows[LoanRow(d)] = NewLoan(task[t].n)
    BY DEF :>, InTables, LoanRow
  <2>3. d = l /\ row = LoanRow(d) BY <1>2, <2>1 DEF row
  <2> HIDE DEF rows
  <2>4. /\ Frame(t, {"loan"}) /\ pc'[t] = "post" /\ committed' = committed
        /\ DOMAIN pending'[t] = DOMAIN pending[t] \cup DOMAIN rows
        /\ \A r \in DOMAIN rows : pending'[t][r] = rows[r]
    BY <1>0, <2>1, <2>2, WritesFrame
  <2>5. UNCHANGED <<task, source>> BY <2>4 DEF Frame
  <2>6. LoansWritten(t)'
    <3>1. \A r \in DOMAIN pending'[t] : r[1] \in LoanTables => r = LoanRow(l)
      BY <1>3, <2>1, <2>2, <2>3, <2>4
    <3>2. PostsLoan(t, "lend")' /\ LoanRow(LoanFor(t))' = LoanRow(l)
      BY <1>5, <2>1, <2>4, <2>5 DEF PostsLoan, Posting, row
    <3> QED BY <3>1, <3>2 DEF LoansWritten
  <2>7. ASSUME LoanInHand(t)
        PROVE  LoanInHand(t)'
    <3>1. /\ loan = NoLoan /\ row \in DOMAIN pending'[t] /\ pending'[t][row] = NewLoan(task[t].n)
      BY <2>1, <2>2, <2>3, <2>4, <2>7 DEF LoanInHand, row
    <3>2. committed[LoanRow(LoanFor(t))]' = loan BY <1>5, <2>4, <2>5
    <3> QED BY <1>5, <2>1, <2>4, <2>5, <3>1, <3>2 DEF LoanInHand, PostsLoan, Posting, NewLoan
  <2> QED BY <1>6, <2>1, <2>4, <2>6, <2>7
<1>17. CASE Repay(t)
  <2> DEFINE closed == [SeenLoan(t) EXCEPT !.status = "CLOSED"]
             rows == Repaid(source[t]) :> task[t].n
                        @@ IF read[t] THEN LoanRow(LoanFor(t)) :> closed ELSE << >>
  <2>1. Writes(t, rows, "post") /\ pc[t] = "repay" /\ task[t].op = "repay"
    BY <1>0, <1>17 DEF Repay, LoanSteered, Routed
  <2>2. Repaid(d) # row BY LoansAreRows DEF row
  <2>3. /\ DOMAIN rows = IF read[t] THEN {Repaid(d), row} ELSE {Repaid(d)}
        /\ rows[Repaid(d)] = task[t].n
        /\ read[t] => rows[row] = closed
    BY <2>2 DEF :>, @@, row
  <2>4. InTables(rows, LoanTables) BY <2>3 DEF InTables, row, LoanRow, Repaid, LoanTables
  <2>5. closed = [loan EXCEPT !.status = "CLOSED"] BY <1>3, <2>1
  <2> HIDE DEF rows, closed
  <2>6. /\ Frame(t, LoanTables) /\ pc'[t] = "post" /\ committed' = committed
        /\ DOMAIN pending'[t] = DOMAIN pending[t] \cup DOMAIN rows
        /\ \A r \in DOMAIN rows : pending'[t][r] = rows[r]
    BY <1>0, <2>1, <2>4, WritesFrame
  <2>7. UNCHANGED <<task, source>> BY <2>6 DEF Frame
  <2>8. LoansWritten(t)'
    <3>1. \A r \in DOMAIN pending'[t] : r[1] \in LoanTables => r = row \/ r = Repaid(d)
      BY <1>3, <2>1, <2>3, <2>6
    <3>2. /\ PostsLoan(t, "repay")' /\ LoanRow(LoanFor(t))' = row
          /\ task'[t].op = "repay" /\ Repaid(source[t])' = Repaid(d)
      BY <1>5, <2>1, <2>6, <2>7 DEF PostsLoan, Posting, Repaid
    <3> QED BY <3>1, <3>2 DEF LoansWritten
  <2>9. ASSUME LoanInHand(t), RepaidOf(l)' = RepaidOf(l)
        PROVE  LoanInHand(t)'
    <3>1. Fits(t) /\ read[t] = Closes(t) BY <2>1, <2>9 DEF LoanInHand
    <3>2. row \notin DOMAIN pending[t] BY <1>3, <2>1, LoansAreRows, <1>2 DEF row
    <3>3. row \in DOMAIN pending'[t] <=> Closes(t) BY <2>2, <2>3, <2>6, <3>1, <3>2
    <3>4. /\ Repaid(d) \in DOMAIN pending'[t] /\ pending'[t][Repaid(d)] = task[t].n
          /\ row \in DOMAIN pending'[t] => pending'[t][row] = [loan EXCEPT !.status = "CLOSED"]
      BY <2>2, <2>3, <2>5, <2>6, <3>2
    <3>5. Fits(t)' = Fits(t) /\ Closes(t)' = Closes(t) BY <1>5, <2>6, <2>7, <2>9 DEF Fits, Closes, row
    <3>6. committed[LoanRow(LoanFor(t))]' = loan /\ Repaid(source[t])' = Repaid(d)
      BY <1>5, <2>6, <2>7 DEF Repaid
    <3> QED BY <1>5, <2>1, <2>6, <2>7, <3>1, <3>3, <3>4, <3>5, <3>6 DEF LoanInHand, PostsLoan, Posting
  <2> QED BY <1>6, <2>1, <2>6, <2>8, <2>9
<1>18. CASE EditLoan(t)
  <2> DEFINE rows == LoanRow(source[t]) :> [status |-> task[t].status, principal |-> task[t].n]
  <2>1. Stores(t, rows, "committed") /\ pc[t] = "edit_loan" /\ task[t].op = "edit_loan"
    BY <1>0, <1>18 DEF EditLoan, LoanSteered, Routed
  <2>2. DOMAIN rows = {row} /\ InTables(rows, {"loan"}) BY <1>2, <2>1 DEF :>, InTables, LoanRow, row
  <2> HIDE DEF rows
  <2>3. /\ Frame(t, {"loan"}) /\ pc'[t] = "committed" /\ pending' = pending
        /\ \A r \in Row : committed'[r] = IF r \in DOMAIN rows THEN rows[r] ELSE committed[r]
    BY <1>0, <2>1, <2>2, StoresFrame
  <2>4. /\ \A k \in Loan : k # l => committed'[LoanRow(k)] = committed[LoanRow(k)]
        /\ \A p \in LoanPayment : committed'[Repaid(p)] = committed[Repaid(p)]
    BY <2>2, <2>3, LoansAreRows DEF row
  <2>5. LoansWritten(t)' BY <1>3, <2>1, <2>3 DEF LoansWritten
  <2>6. ~OneByOne(l) BY <1>2, <2>1 DEF OneByOne, Edited
  <2> QED BY <1>9, <2>1, <2>3, <2>4, <2>5, <2>6 DEF Done
<1>19. CASE DeleteLoan(t)
  <2> DEFINE rows == LoanRow(source[t]) :> NoLoan @@ [r \in {Repaid(p) : p \in PaymentsOf(source[t])} |-> 0]
  <2>1. Stores(t, rows, "committed") /\ pc[t] = "delete_loan" /\ d = l
    BY <1>0, <1>2, <1>19 DEF DeleteLoan, LoanSteered, Routed
  <2>2. /\ DOMAIN rows = {row} \cup {Repaid(p) : p \in PaymentsOf(l)}
        /\ rows[row] = NoLoan /\ \A p \in PaymentsOf(l) : rows[Repaid(p)] = 0
    BY <2>1, LoansAreRows DEF :>, @@, row
  <2>3. InTables(rows, LoanTables) BY <2>2 DEF InTables, LoanRow, Repaid, LoanTables, row
  <2> HIDE DEF rows
  <2>4. /\ Frame(t, LoanTables) /\ pc'[t] = "committed" /\ pending' = pending
        /\ \A r \in Row : committed'[r] = IF r \in DOMAIN rows THEN rows[r] ELSE committed[r]
    BY <1>0, <2>1, <2>3, StoresFrame
  <2>5. \A p \in PaymentsOf(l) : p \in LoanPayment BY DEF PaymentsOf
  <2>6. \A k \in Loan : k # l => committed'[LoanRow(k)] = committed[LoanRow(k)]
    BY <2>2, <2>4, LoansAreRows DEF row
  <2>7. \A p \in LoanPayment :
           \/ committed'[Repaid(p)] = committed[Repaid(p)]
           \/ committed'[Repaid(p)] = 0 /\ p \in PaymentsOf(l)
    BY <2>2, <2>4, LoansAreRows DEF row
  <2>8. committed'[row] = NoLoan /\ \A p \in PaymentsOf(l) : committed'[Repaid(p)] = 0
    BY <1>2, <2>2, <2>4, <2>5, LoansAreRows
  <2>9. LoansWritten(t)' BY <1>3, <2>1, <2>4 DEF LoansWritten
  <2>10. LoanInOrder(l)' BY <2>8 DEF LoanInOrder, IsLoan, NoLoan, row
  <2> QED BY <1>9, <2>1, <2>4, <2>6, <2>7, <2>9, <2>10 DEF Done
<1>20. CASE DeletePayment(t)
  <2> DEFINE rows == Repaid(source[t]) :> 0
  <2>1. Stores(t, rows, "reopen") /\ pc[t] = "unpay" /\ task[t].op = "unpay" /\ committed[Repaid(d)] # 0
    BY <1>0, <1>2, <1>3, <1>20 DEF DeletePayment, LoanSteered, Routed
  <2>2. DOMAIN rows = {Repaid(d)} /\ rows[Repaid(d)] = 0 /\ InTables(rows, {"repaid"})
    BY DEF :>, InTables, Repaid
  <2> HIDE DEF rows
  <2>3. /\ Frame(t, {"repaid"}) /\ pc'[t] = "reopen" /\ pending' = pending
        /\ \A r \in Row : committed'[r] = IF r \in DOMAIN rows THEN rows[r] ELSE committed[r]
    BY <1>0, <2>1, <2>2, StoresFrame
  <2>4. /\ \A k \in Loan : committed'[LoanRow(k)] = committed[LoanRow(k)]
        /\ \A p \in LoanPayment : p # d => committed'[Repaid(p)] = committed[Repaid(p)]
        /\ committed'[Repaid(d)] = 0 /\ d \in PaymentsOf(l) /\ d \in LoanPayment
    BY <1>2, <2>1, <2>2, <2>3, LoansAreRows
  <2>5. LoansWritten(t)' BY <1>3, <2>1, <2>3 DEF LoansWritten
  <2>6. UNCHANGED <<task, source>> /\ t \in Unpaying(l)' BY <2>1, <2>3 DEF Frame, Unpaying, LoanFor
  <2>7. ASSUME LoanInOrder(l)
        PROVE  LoanInOrder(l)' /\ (committed'[row] # NoLoan => RepaidOf(l)' < committed'[row].principal)
    <3>1. \A q \in PaymentsOf(l) : committed[Repaid(q)] \in Nat /\ committed'[Repaid(q)] \in Nat
      BY <2>4, <2>7 DEF LoanInOrder, PaymentsOf
    <3>2. \A q \in PaymentsOf(l) : q # d => committed'[Repaid(q)] = committed[Repaid(q)]
      BY <2>4 DEF PaymentsOf
    <3>3. RepaidOf(l)' = RepaidOf(l) - committed[Repaid(d)] + committed'[Repaid(d)]
      BY <2>4, <3>1, <3>2, RepaidChanges
    <3>4. RepaidOf(l) \in Int BY <3>1, RepaidTyped
    <3>5. committed[Repaid(d)] \in Nat \ {0} /\ committed'[Repaid(d)] = 0 BY <2>1, <2>4, <3>1
    <3>6. committed'[row] = loan /\ IsLoan(loan) /\ (loan # NoLoan => RepaidOf(l) <= loan.principal)
      BY <1>2, <2>4, <2>7 DEF LoanInOrder, row
    <3>7. loan # NoLoan => RepaidOf(l)' < loan.principal BY <3>3, <3>4, <3>5, <3>6 DEF IsLoan
    <3>8. loan = NoLoan => \A q \in PaymentsOf(l) : committed'[Repaid(q)] = 0
      BY <2>4, <2>7, <3>2 DEF LoanInOrder, row
    <3>9. RepaidOf(l)' \in Int /\ loan # NoLoan => RepaidOf(l)' <= loan.principal
      BY <3>3, <3>4, <3>5, <3>6, <3>7 DEF IsLoan
    <3>10. IsLoan(loan)' BY <3>6 DEF IsLoan
    <3>11. LoanInOrder(l)' BY <2>6, <3>1, <3>3, <3>4, <3>5, <3>6, <3>8, <3>9, <3>10 DEF LoanInOrder, row
    <3> QED BY <3>6, <3>7, <3>11
  <2> QED BY <1>9, <2>1, <2>3, <2>4, <2>5, <2>7
<1>21. CASE Reopen(t)
  <2> DEFINE opened == [SeenLoan(t) EXCEPT !.status = "ACTIVE"]
             rows == LoanRow(LoanFor(t)) :> opened
  <2>1. Stores(t, rows, "committed") /\ pc[t] = "reopen" /\ loan # NoLoan BY <1>3, <1>21 DEF Reopen
  <2>2. DOMAIN rows = {row} /\ rows[row] = opened /\ InTables(rows, {"loan"})
    BY DEF :>, InTables, LoanRow, row
  <2>3. opened = [loan EXCEPT !.status = "ACTIVE"] BY <1>3, <2>1
  <2> HIDE DEF rows, opened
  <2>4. /\ Frame(t, {"loan"}) /\ pc'[t] = "committed" /\ pending' = pending
        /\ \A r \in Row : committed'[r] = IF r \in DOMAIN rows THEN rows[r] ELSE committed[r]
    BY <1>0, <2>1, <2>2, StoresFrame
  <2>5. /\ \A k \in Loan : k # l => committed'[LoanRow(k)] = committed[LoanRow(k)]
        /\ \A p \in LoanPayment : committed'[Repaid(p)] = committed[Repaid(p)]
        /\ committed'[row] = [loan EXCEPT !.status = "ACTIVE"]
    BY <1>2, <2>2, <2>3, <2>4, LoansAreRows DEF row
  <2>6. LoansWritten(t)' BY <1>3, <2>1, <2>4 DEF LoansWritten
  <2>7. ASSUME LoanInOrder(l), LoanInHand(t)
        PROVE  LoanInOrder(l)'
    <3>1. RepaidOf(l)' = RepaidOf(l) /\ \A p \in PaymentsOf(l) : committed'[Repaid(p)] = committed[Repaid(p)]
      BY <2>5, SameRepaid DEF PaymentsOf
    <3>2. IsLoan(loan) /\ loan.principal \in Nat \ {0} BY <2>1, <2>7 DEF LoanInOrder, IsLoan, row
    <3>3. RepaidOf(l) < loan.principal BY <2>1, <2>7 DEF LoanInHand, row
    <3>4. RepaidOf(l) \in Int BY <2>7, RepaidTyped DEF LoanInOrder
    <3>5. /\ committed'[row].principal = loan.principal /\ committed'[row].status = "ACTIVE"
          /\ IsLoan(committed'[row]) /\ committed'[row] # NoLoan
      BY <2>5, <3>2 DEF IsLoan, NoLoan
    <3>6. IsLoan(committed[row])' BY <3>5 DEF IsLoan
    <3> QED BY <2>7, <3>1, <3>2, <3>3, <3>4, <3>5, <3>6 DEF LoanInOrder, row
  <2> QED BY <1>9, <2>1, <2>4, <2>5, <2>6, <2>7 DEF Done
<1>9a. CASE FinishLoan(t)
  <2>1. Ends(t, << >>) /\ pc[t] = "commit" /\ task[t].op \in {"lend", "repay"} BY <1>9a DEF FinishLoan
  <2>2. /\ Frame(t, {}) /\ pc'[t] = "committed" /\ DOMAIN pending'[t] = {}
        /\ \A r \in Row : committed'[r] = Sees(t, r)
    BY <1>0, <2>1, NoRows, CommitsFrame DEF Ends, Published
  <2>3. \A r \in Row : committed'[r] = IF r \in DOMAIN pending[t] THEN pending[t][r] ELSE committed[r]
    BY <2>2 DEF Sees
  <2>4. /\ \A k \in Loan : k # l => committed'[LoanRow(k)] = committed[LoanRow(k)]
        /\ \A p \in LoanPayment :
              committed'[Repaid(p)] = committed[Repaid(p)] \/ (task[t].op = "repay" /\ p = d)
    BY <1>0, <2>3, LoansAreRows DEF LoansWritten
  <2>5. LoansWritten(t)' BY <2>2 DEF LoansWritten
  <2>6. ASSUME LoanInOrder(l), LoanInHand(t), task[t].op = "lend"
        PROVE  LoanInOrder(l)'
    <3>1. loan = NoLoan /\ committed'[row] = NewLoan(task[t].n)
      BY <1>2, <2>1, <2>3, <2>6 DEF LoanInHand, PostsLoan, row
    <3>2. \A p \in PaymentsOf(l) : committed[Repaid(p)] = 0 /\ committed'[Repaid(p)] = 0
      BY <2>4, <2>6, <3>1 DEF LoanInOrder, PaymentsOf, row
    <3>3. RepaidOf(l)' = 0
      <4>1. RepaidOf(l) = 0 BY <3>2, RepaidTyped
      <4> QED BY <3>2, <4>1, SameRepaid
    <3>4. task[t].n \in Nat \ {0} BY <1>2, <2>6
    <3>5. /\ committed'[row].principal = task[t].n /\ committed'[row].status = "ACTIVE"
          /\ IsLoan(committed'[row]) /\ committed'[row] # NoLoan
      BY <3>1, <3>4 DEF NewLoan, IsLoan, NoLoan
    <3>6. IsLoan(committed[row])' BY <3>5 DEF IsLoan
    <3> QED BY <3>2, <3>3, <3>4, <3>5, <3>6 DEF LoanInOrder, row
  <2>7. ASSUME LoanInOrder(l), LoanInHand(t), task[t].op = "repay"
        PROVE  LoanInOrder(l)'
    <3>1. /\ Fits(t) /\ Repaid(d) \in DOMAIN pending[t] /\ pending[t][Repaid(d)] = task[t].n
          /\ row \in DOMAIN pending[t] <=> Closes(t)
          /\ row \in DOMAIN pending[t] => pending[t][row] = [loan EXCEPT !.status = "CLOSED"]
      BY <2>1, <2>7 DEF LoanInHand, PostsLoan, row
    <3>2. d \in PaymentsOf(l) /\ d \in LoanPayment /\ committed[Repaid(d)] = 0 /\ task[t].n \in Nat \ {0}
      BY <1>0, <1>2, <2>1, <2>7 DEF LoanSteered, Done
    <3>3. committed'[Repaid(d)] = task[t].n BY <1>2, <2>3, <2>7, <3>1
    <3>4. \A p \in PaymentsOf(l) : p # d => committed'[Repaid(p)] = committed[Repaid(p)]
      BY <2>4 DEF PaymentsOf
    <3>5. \A p \in PaymentsOf(l) : committed[Repaid(p)] \in Nat /\ committed'[Repaid(p)] \in Nat
      BY <2>7, <3>2, <3>3, <3>4 DEF LoanInOrder
    <3>6. RepaidOf(l)' = RepaidOf(l) + task[t].n /\ RepaidOf(l) \in Int
      <4>1. RepaidOf(l)' = RepaidOf(l) - committed[Repaid(d)] + committed'[Repaid(d)]
        BY <3>2, <3>4, <3>5, RepaidChanges
      <4>2. RepaidOf(l) \in Int BY <3>5, RepaidTyped
      <4> QED BY <3>2, <3>3, <4>1, <4>2
    <3>7. /\ IsLoan(loan) /\ loan # NoLoan /\ loan.principal \in Nat \ {0}
          /\ RepaidOf(l) + task[t].n <= loan.principal
          /\ Closes(t) <=> RepaidOf(l) + task[t].n >= loan.principal /\ loan.status # "CLOSED"
      BY <2>7, <3>1 DEF Fits, Closes, LoanInOrder, IsLoan, row
    <3>8. Unpaying(l)' = {} => Unpaying(l) = {} BY <2>1, <2>2, <2>7 DEF Unpaying, LoanFor, Frame
    <3>9. Unpaying(l) = {} => loan.status # "CLOSED" BY <2>7, <3>2, <3>6, <3>7 DEF LoanInOrder, row
    <3>10. CASE Closes(t)
      <4>1. committed'[row] = [loan EXCEPT !.status = "CLOSED"] BY <1>2, <2>3, <3>1, <3>10
      <4>2. /\ IsLoan(committed'[row]) /\ committed'[row].principal = loan.principal
            /\ committed'[row].status = "CLOSED"
        BY <3>7, <4>1 DEF IsLoan
      <4>3. committed'[row] # NoLoan BY <3>7, <4>2 DEF NoLoan
      <4>4. IsLoan(committed[row])' BY <4>2 DEF IsLoan
      <4> QED BY <3>5, <3>6, <3>7, <3>10, <3>2, <4>2, <4>3, <4>4 DEF LoanInOrder, row
    <3>11. CASE ~Closes(t)
      <4>1. committed'[row] = loan BY <1>2, <2>3, <3>1, <3>11
      <4>2. IsLoan(committed[row])' BY <3>7, <4>1 DEF IsLoan
      <4>3. Unpaying(l)' = {} => RepaidOf(l)' # loan.principal /\ loan.status # "CLOSED"
        BY <3>2, <3>6, <3>7, <3>8, <3>9, <3>11
      <4> QED BY <3>2, <3>5, <3>6, <3>7, <4>1, <4>2, <4>3 DEF LoanInOrder, row
    <3> QED BY <3>10, <3>11
  <2> QED BY <1>9, <2>1, <2>2, <2>4, <2>5, <2>6, <2>7 DEF Done
<1> QED BY <1>10, <1>11, <1>12, <1>13, <1>14, <1>15, <1>16, <1>17, <1>18, <1>19, <1>20, <1>21, <1>9a
  DEF LoanStep

\* A loan is not repaid beyond its principal, and is CLOSED exactly when it is
\* repaid, unless requests about it ran at the same time, an edit changed its terms,
\* or the process ended between the two statements that take a payment back
\* (LoansService.addPayment, deletePayment).
THEOREM LoansAreRepaidHolds == Spec => []LoansAreRepaid
<1>1. Init => Base /\ LoanInv BY BaseInit, LoanInit
<1>2. Base /\ LoanInv /\ [Next]_vars => Base' /\ LoanInv'
  <2> SUFFICES ASSUME Base, LoanInv, [Next]_vars PROVE Base' /\ LoanInv' OBVIOUS
  <2>1. CASE UNCHANGED vars
    <3>1. UNCHANGED <<committed, pending, pc, read, task, source, overlapped>>
      BY <2>1 DEF vars, dbVars, postingVars
    <3>2. \A l : RepaidOf(l)' = RepaidOf(l) BY <3>1, SameRepaid
    <3>3. \A l : LoanInOrder(l) => LoanInOrder(l)' BY <3>1, <3>2 DEF LoanInOrder, IsLoan, Unpaying, LoanFor
    <3>4. \A t \in Tx : LoanInHand(t) => LoanInHand(t)' BY <3>1, <3>2, SameLoanInHand
    <3>5. \A t : (LoansWritten(t) => LoansWritten(t)') /\ (LoanSteered(t) => LoanSteered(t)')
      BY <3>1 DEF LoansWritten, LoanSteered, PostsLoan, LoanFor, Routed
    <3>6. \A l : OneByOne(l)' => OneByOne(l) BY <3>1 DEF OneByOne, Apart, Edited
    <3>7. \A t : LoanFor(t)' = LoanFor(t) BY <3>1 DEF LoanFor
    <3>8. \A t \in Tx : OneByOne(LoanFor(t))' => OneByOne(LoanFor(t))
      BY <3>1, <3>7 DEF OneByOne, Apart, Edited, PaymentsOf
    <3>9. LoanInv' BY <3>1, <3>3, <3>4, <3>5, <3>6, <3>8 DEF LoanInv
    <3> QED BY <2>1, <3>9, BaseNext
  <2>2. CASE Next BY <2>2, BaseNext, ServeOnce, LoanElsewhereStep, LoanOwnStep
  <2> QED BY <2>1, <2>2
<1>3. LoanInv => LoansAreRepaid BY DEF LoanInv, OneByOne, LoanInOrder, Unpaying, LoansAreRepaid
<1> QED BY <1>1, <1>2, <1>3, PTL DEF Spec

-----------------------------------------------------------------------------
(* Recurring vouchers.                                                       *)

LEMMA DateElsewhere ==
    ASSUME Base, DatesInv, NEW t \in Tx, Footprint(t), ~JournalStep(t)
    PROVE  /\ \E T : Frame(t, T)
           /\ Spares(t, {"next_due"})
           /\ Spares(t, DueTables) \/ PostingFoot(t)
           /\ pc'[t] \notin JournalWays
           /\ source[t] \in Recurring => pc'[t] = "failed" /\ Dropped(t)
<1>1. /\ OnItsWay(t)
      /\ source[t] \in Recurring => task[t].op \in DueOps
      /\ source[t] \in Recurring => pc[t] \notin Posting
  BY RecurringAssumption DEF Base, DatesInv, DueOps, DatesSteered, DueWays, Done, Posting
<1>2. Elsewhere(t, {"advance"}) BY Services
<1>3. ASSUME NEW T, NEW O, NEW W, IsService(T, O, W), Foot(t, T, O, W), {"advance"} \cap W = {}
      PROVE  /\ Frame(t, T) /\ Spares(t, {"next_due"}) /\ Spares(t, DueTables)
             /\ pc'[t] \notin JournalWays /\ source[t] \notin Recurring
  <2>1. /\ T \cap DueTables = {} /\ O \cap DueOps = {} /\ W \cap JournalWays = {}
        /\ Routed(t, O, W)
    BY <1>1, <1>3, ServicesApart, ServiceRouted
  <2>2. Frame(t, T) /\ pc'[t] \in W \cup Done \cup {"post"} /\ task[t].op \in O
    BY <1>3, <2>1 DEF Foot, Onwards, From, Routed
  <2>3. Spares(t, {"next_due"}) /\ Spares(t, DueTables) BY <2>1, <2>2, FrameSpares DEF DueTables
  <2> QED BY <1>1, <2>1, <2>2, <2>3 DEF Done, JournalWays
<1>4. CASE PostingFoot(t) BY <1>1, <1>4, FrameSpares DEF PostingFoot, PostingTables, Posting, JournalWays
<1>5. CASE pc'[t] = "failed" /\ Frame(t, {}) /\ Dropped(t) BY <1>5, FrameSpares DEF JournalWays, DueTables
<1> QED BY <1>2, <1>3, <1>4, <1>5 DEF Elsewhere

LEMMA DatesAreRows ==
    /\ \A n \in VoucherNumber : Number(n) \in Row /\ Number(n)[1] = "number"
    /\ \A v \in Recurring : NextDue(v) \in Row /\ NextDue(v)[1] = "next_due"
    /\ \A m, n : Number(m) = Number(n) => m = n
    /\ \A v, w : NextDue(v) = NextDue(w) => v = w
    /\ \A n, v : Number(n) # NextDue(v) /\ Number(n) # Sequence /\ NextDue(v) # Sequence
  BY RowAssumption DEF TenantRows, PostingRows, BackOfficeRows, JournalRows, Number, NextDue, Sequence

LEMMA PostedTyped ==
    ASSUME NEW v
    PROVE  /\ IsFiniteSet(PostedFor(v)) /\ Posted(v) \in Nat
           /\ IsFiniteSet(Between(v)) /\ Cardinality(Between(v)) \in Nat
<1>1. IsFiniteSet(VoucherNumber) BY NumberAssumption, FS_Interval DEF VoucherNumber
<1>2. IsFiniteSet(PostedFor(v)) BY <1>1, FS_Subset DEF PostedFor
<1>3. IsFiniteSet(Between(v)) BY FiniteAssumption, FS_Subset DEF Between
<1> QED BY <1>2, <1>3, FS_CardinalityType DEF Posted

\* More requests in between allow no less.
LEMMA DatesLoosen ==
    ASSUME NEW v, DatesInOrder(v), committed'[NextDue(v)] = committed[NextDue(v)],
           PostedFor(v)' = PostedFor(v), Between(v) \subseteq Between(v)'
    PROVE  DatesInOrder(v)'
<1>1. IsFiniteSet(Between(v)') BY FiniteAssumption, FS_Subset DEF Between
<1>2. Cardinality(Between(v)) <= Cardinality(Between(v)') BY <1>1, FS_Subset
<1>3. Cardinality(Between(v)) \in Nat /\ Cardinality(Between(v)') \in Nat /\ Posted(v) \in Nat
  BY <1>1, PostedTyped, FS_CardinalityType
<1>4. Posted(v)' = Posted(v) BY DEF Posted
<1> QED BY <1>2, <1>3, <1>4 DEF DatesInOrder

LEMMA DatesInit == Init => DatesInv
<1> SUFFICES ASSUME Init PROVE DatesInv OBVIOUS
<1>2. \A v \in Recurring : committed[NextDue(v)] = 1
  <2>1. \A v \in Recurring : InitialRow(NextDue(v)) = JournalInitialRow(NextDue(v))
    BY StartOfRows DEF JournalRows
  <2>2. \A v \in Recurring : JournalInitialRow(NextDue(v)) = 1 BY DEF JournalInitialRow, NextDue
  <2> QED BY Starts, <2>1, <2>2, DatesAreRows
<1>3. \A n \in VoucherNumber : committed[Number(n)] = NoVoucher
  <2> TAKE n \in VoucherNumber
  <2> PICK r : r = Number(n) OBVIOUS
  <2>1. r \in PostingRows /\ r[1] = "number" /\ r # Sequence /\ \A s \in Source : r # Event(s)
    BY DEF PostingRows, Number, Sequence, Event
  <2>2. InitialRow(r) = PostingInitialRow(r) BY <2>1, Tables DEF InitialRow, DeskRows, BackOfficeRows
  <2>3. PostingInitialRow(r) = NoVoucher BY <2>1 DEF PostingInitialRow
  <2> QED BY Starts, <2>2, <2>3, DatesAreRows
<1>4. ASSUME NEW v \in Recurring
      PROVE  DatesInOrder(v)
  <2>1. PostedFor(v) = {} /\ Posted(v) = 0 BY <1>3, RecurringAssumption, FS_EmptySet DEF PostedFor, Posted
  <2> QED BY <1>2, <2>1, PostedTyped DEF DatesInOrder
<1>5. \A t \in Tx : NumbersHeld(t) /\ DatesSteered(t) /\ DateInHand(t)
  BY Starts DEF NumbersHeld, DatesSteered, DateInHand
<1> QED BY Starts, <1>4, <1>5 DEF DatesInv

\* A step of one request, about its own voucher if it changes any.
LEMMA DatesByOne ==
    ASSUME Base, DatesInv, Watch, NEW t \in Tx, NEW T, Frame(t, T), NEW v, v = source[t],
           NumbersHeld(t)', DatesSteered(t)',
           \A w \in Recurring :
              \/ w = v /\ pc'[t] # pc[t]
              \/ /\ committed'[NextDue(w)] = committed[NextDue(w)] /\ PostedFor(w)' = PostedFor(w)
                 /\ Between(w) \subseteq Between(w)',
           v \in Recurring /\ Apart({v})' => DatesInOrder(v)' /\ DateInHand(t)'
    PROVE  DatesInv'
<1>1. /\ UNCHANGED <<task, source>>
      /\ \A u \in Tx : u # t => pc'[u] = pc[u] /\ read'[u] = read[u] /\ pending'[u] = pending[u]
      /\ \A u \in Tx : u # t =>
            \A r \in DOMAIN pending[u] : r \in Row => committed'[r] = committed[r]
  BY DEF Frame
<1>2. \A u \in Tx : u # t => NumbersHeld(u)' /\ DatesSteered(u)'
  BY <1>1, DatesAreRows DEF DatesInv, NumbersHeld, DatesSteered
<1>3. ASSUME NEW w \in Recurring, Apart({w})'
      PROVE  DatesInOrder(w)'
  <2>1. DatesInOrder(w) BY <1>1, <1>3, ApartBefore DEF DatesInv
  <2>2. CASE w = v BY <1>3, <2>2
  <2>3. CASE w # v BY <2>1, <2>3, DatesLoosen
  <2> QED BY <2>2, <2>3
<1>4. ASSUME NEW u \in Tx, u # t, source[u] \in Recurring, Apart({source[u]})'
      PROVE  DateInHand(u)'
  <2> PICK w : w = source[u] OBVIOUS
  <2>1. DateInHand(u) BY <1>1, <1>4, ApartBefore DEF DatesInv
  <2>2. CASE pc[u] \notin {"take_number", "new_voucher", "advance"} BY <1>1, <1>4, <2>2 DEF DateInHand
  <2>3. CASE pc[u] \in {"take_number", "new_voucher", "advance"}
    <3>1. ~(w = v /\ pc'[t] # pc[t]) BY <1>1, <1>4, <2>3, Meets DEF Running, Done
    <3>2. committed'[NextDue(w)] = committed[NextDue(w)] /\ PostedFor(w)' = PostedFor(w) BY <1>4, <3>1
    <3> QED BY <1>1, <1>4, <2>1, <3>2 DEF DateInHand, Posted
  <2> QED BY <2>2, <2>3
<1> QED BY <1>1, <1>2, <1>3, <1>4 DEF DatesInv

LEMMA DateElsewhereStep ==
    ASSUME Base, DatesInv, NEW t \in Tx, Footprint(t), ~JournalStep(t), Watch
    PROVE  DatesInv'
<1> PICK v : v = source[t] OBVIOUS
<1>1. PICK T : Frame(t, T) BY DateElsewhere
<1>2. /\ Spares(t, {"next_due"})
      /\ Spares(t, DueTables) \/ PostingFoot(t)
      /\ pc'[t] \notin JournalWays
      /\ v \in Recurring => pc'[t] = "failed"
  BY DateElsewhere
<1>3. /\ NumbersHeld(t) /\ DatesSteered(t) /\ UNCHANGED <<task, source>>
      /\ \A u \in Tx : u # t => pc'[u] = pc[u]
  BY <1>1 DEF DatesInv, Frame
<1>4. \A w \in Recurring : /\ committed'[NextDue(w)] = committed[NextDue(w)]
                           /\ NextDue(w) \notin DOMAIN pending'[t]
  BY <1>2, <1>3, DatesAreRows DEF Spares, NumbersHeld, Sees
<1>5. /\ NumbersHeld(t)'
      /\ \A n \in VoucherNumber :
            \/ committed'[Number(n)] = committed[Number(n)]
            \/ committed'[Number(n)].source \notin Recurring /\ committed[Number(n)].source \notin Recurring
  <2>1. CASE Spares(t, DueTables)
    <3>1. \A n \in VoucherNumber : committed'[Number(n)] \in {committed[Number(n)], Sees(t, Number(n))}
      BY <2>1, DatesAreRows DEF Spares, DueTables
    <3>2. \A n \in VoucherNumber : Number(n) \in DOMAIN pending'[t] =>
             Number(n) \in DOMAIN pending[t] /\ pending'[t][Number(n)] = pending[t][Number(n)]
      BY <2>1, DatesAreRows DEF Spares, DueTables
    <3> QED BY <1>3, <1>4, <3>1, <3>2 DEF NumbersHeld, Sees
  <2>2. CASE PostingFoot(t)
    <3>1. committed' = committed /\ PostsItsOwn(t) /\ v \notin Recurring
      BY <1>3, <2>2 DEF PostingFoot, DatesSteered, DueWays, Done, Posting
    <3>2. ASSUME NEW n \in VoucherNumber, Number(n) \in DOMAIN pending'[t]
          PROVE  /\ pending'[t][Number(n)].source \notin Recurring
                 /\ committed[Number(n)].source \notin Recurring
      BY <1>3, <3>1, <3>2, RecurringAssumption DEF PostsItsOwn, NumbersHeld, Sees
    <3> QED BY <1>4, <3>1, <3>2 DEF NumbersHeld
  <2> QED BY <1>2, <2>1, <2>2
<1>6. \A w \in Recurring : PostedFor(w)' = PostedFor(w) BY <1>5 DEF PostedFor
<1>7. DatesSteered(t)' BY <1>2, <1>3 DEF DatesSteered, JournalWays, Done
<1>8. \A w \in Recurring : Between(w) \subseteq Between(w)' BY <1>2, <1>3 DEF Between
<1>9. ASSUME v \in Recurring, Apart({v})'
      PROVE  DatesInOrder(v)' /\ DateInHand(t)'
  <2>1. DatesInOrder(v) BY <1>3, <1>9, ApartBefore DEF DatesInv
  <2>2. DatesInOrder(v)' BY <1>4, <1>6, <1>8, <1>9, <2>1, DatesLoosen
  <2>3. DateInHand(t)' BY <1>2, <1>9 DEF DateInHand
  <2> QED BY <2>2, <2>3
<1> QED BY <1>1, <1>4, <1>5, <1>6, <1>7, <1>8, <1>9, DatesByOne

LEMMA DateOwnStep ==
    ASSUME Base, DatesInv, NEW t \in Tx, Footprint(t), JournalStep(t), Watch
    PROVE  DatesInv'
<1> PICK v : v = source[t] OBVIOUS
<1>0. /\ Shape /\ Locks /\ NumbersHeld(t) /\ DatesSteered(t) /\ pc[t] \notin Done
      /\ v \in Recurring <=> task[t].op \in DueOps
  BY DoneIsDone, RecurringAssumption DEF Base, DatesInv, DueOps
<1>1. SeenDue(t) = committed[NextDue(v)] \/ v \notin Recurring BY <1>0 DEF NumbersHeld, SeenDue, Sees
<1>2. pc[t] \in {"edit_journal", "delete_journal"} => v \notin Recurring
  BY <1>0 DEF DatesSteered, DueWays, Done
\* A statement that leaves the dates and the vouchers posted for them as they are.
<1>3. ASSUME NEW T, Frame(t, T), NumbersHeld(t)', DatesSteered(t)',
             \A w \in Recurring :
                committed'[NextDue(w)] = committed[NextDue(w)] /\ PostedFor(w)' = PostedFor(w),
             pc[t] = "advance" => pc'[t] = "failed",
             v \in Recurring /\ DatesInOrder(v) /\ DateInHand(t) => DateInHand(t)'
      PROVE  DatesInv'
  <2>1. UNCHANGED <<task, source>> /\ \A u \in Tx : u # t => pc'[u] = pc[u] BY <1>3 DEF Frame
  <2>2. \A w \in Recurring : Between(w) \subseteq Between(w)' BY <1>0, <1>3, <2>1 DEF Between, Done
  <2>3. ASSUME v \in Recurring, Apart({v})'
        PROVE  DatesInOrder(v)' /\ DateInHand(t)'
    <3>1. DatesInOrder(v) /\ DateInHand(t) BY <2>1, <2>3, ApartBefore DEF DatesInv
    <3>2. DatesInOrder(v)' BY <1>3, <2>2, <2>3, <3>1, DatesLoosen
    <3> QED BY <1>3, <2>3, <3>1, <3>2
  <2> QED BY <1>3, <2>2, <2>3, DatesByOne
<1>4. ASSUME NEW r, NEW s, Reads(t, r, s), DatesSteered(t)', pc[t] # "advance",
             v \in Recurring /\ DatesInOrder(v) /\ DateInHand(t) => DateInHand(t)'
      PROVE  DatesInv'
  <2>1. Frame(t, {}) /\ UNCHANGED dbVars BY <1>0, <1>4, ReadsFrame
  <2>2. committed' = committed /\ pending' = pending BY <2>1 DEF dbVars
  <2>3. NumbersHeld(t)' /\ \A w : PostedFor(w)' = PostedFor(w) BY <1>0, <2>2 DEF NumbersHeld, PostedFor
  <2> QED BY <1>3, <1>4, <2>1, <2>2, <2>3
<1>5. ASSUME NEW s, Throws(t, s), s \in Done, pc[t] = "advance" => s = "failed"
      PROVE  DatesInv'
  <2>1. Frame(t, {}) /\ pc'[t] = s /\ Dropped(t) BY <1>0, <1>5, ThrowsFrame
  <2>2. \A r \in Row : committed'[r] = committed[r] BY <2>1 DEF Dropped
  <2>3. /\ \A w \in Recurring : committed'[NextDue(w)] = committed[NextDue(w)]
        /\ \A w : PostedFor(w)' = PostedFor(w)
    BY <2>2, DatesAreRows DEF PostedFor
  <2>4. NumbersHeld(t)' /\ DatesSteered(t)' /\ DateInHand(t)'
    BY <1>5, <2>1 DEF Dropped, NumbersHeld, DatesSteered, DateInHand, Done
  <2> QED BY <1>3, <1>5, <2>1, <2>3, <2>4
\* Another value of a voucher that is of no recurring one.
<1>6. ASSUME NEW r, NEW value, Ends(t, Number(r) :> value), v \notin Recurring,
             value.source \notin Recurring, Found(t), r = read[t], pc[t] # "advance"
      PROVE  DatesInv'
  <2> DEFINE rows == Number(r) :> value
  <2>1. InTables(rows, {"number"}) /\ DOMAIN rows = {Number(r)} /\ rows[Number(r)] = value
    BY DEF :>, InTables, Number
  <2>2. CommitsTo(t, rows, "committed") BY <1>6 DEF Ends
  <2> HIDE DEF rows
  <2>3. /\ Frame(t, {"number"}) /\ pc'[t] = "committed" /\ Published(t, {"number"})
        /\ \A q \in Row : committed'[q] = IF q \in DOMAIN rows THEN rows[q] ELSE Sees(t, q)
    BY <1>0, <2>1, <2>2, CommitsFrame
  <2>4. Sees(t, Number(r)).source \notin Recurring BY <1>6 DEF Found
  <2>5. \A w \in Recurring : committed'[NextDue(w)] = committed[NextDue(w)]
    BY <1>0, <2>1, <2>3, DatesAreRows DEF NumbersHeld, Sees
  <2>6. \A n \in VoucherNumber :
           \/ committed'[Number(n)] = committed[Number(n)]
           \/ committed'[Number(n)].source \notin Recurring /\ committed[Number(n)].source \notin Recurring
    BY <1>0, <1>6, <2>1, <2>3, <2>4, DatesAreRows DEF NumbersHeld, Sees
  <2>7. \A w \in Recurring : PostedFor(w)' = PostedFor(w) BY <2>6 DEF PostedFor
  <2>8. NumbersHeld(t)' /\ DatesSteered(t)' /\ DateInHand(t)'
    BY <1>6, <2>3 DEF Published, NumbersHeld, DatesSteered, DateInHand, Done, Frame
  <2> QED BY <1>3, <1>6, <2>3, <2>5, <2>7, <2>8
<1>7. ASSUME NEW r, NEW s, Reads(t, r, s), v \notin Recurring, s \notin {"read_template", "advance"},
             pc[t] # "advance"
      PROVE  DatesInv'
  <2>1. pc'[t] = s /\ source' = source BY <1>0, <1>7, ReadsTo
  <2>2. DatesSteered(t)' BY <1>7, <2>1 DEF DatesSteered
  <2> QED BY <1>4, <1>7, <2>2
<1>8. CASE Journalize(t) BY <1>0, <1>7, <1>8 DEF Journalize, At, DueOps
<1>9. CASE FindVoucher(t)
  <2>1. PICK n : Reads(t, n, task[t].op) /\ pc[t] = "idle" /\ task[t].op \in {"edit_journal", "delete_journal"}
    BY <1>9 DEF FindVoucher
  <2> QED BY <1>0, <1>7, <2>1 DEF DueOps
<1>10. CASE VoucherGone(t) BY <1>5, <1>10 DEF VoucherGone, Done
<1>11. CASE TemplateGone(t) BY <1>5, <1>11 DEF TemplateGone, Done
<1>12. CASE EditVoucher(t) BY <1>2, <1>6, <1>12 DEF EditVoucher
<1>13. CASE DropVoucher(t) BY <1>2, <1>6, <1>13, RecurringAssumption DEF DropVoucher
<1>14. CASE FindDue(t)
  <2>1. Reads(t, Nothing, "read_template") /\ pc[t] = "idle" /\ task[t].op = "run_due"
    BY <1>14 DEF FindDue, At
  <2>2. pc'[t] = "read_template" /\ UNCHANGED <<source, task>> BY <1>0, <2>1, ReadsTo
  <2>3. DatesSteered(t)' /\ DateInHand(t)' BY <1>0, <2>1, <2>2 DEF DatesSteered, DateInHand, DueOps, DueWays
  <2> QED BY <1>4, <2>1, <2>3
<1>15. CASE ReadTemplate(t)
  <2>1. /\ pc[t] \in {"idle", "read_template"} /\ task[t].op \in {"run_due", "post_recurring"}
        /\ IF SeenDue(t) = Deleted THEN Throws(t, "refused")
           ELSE Reads(t, Attempt(t, 1, SeenDue(t)), "take_number")
    BY <1>15 DEF ReadTemplate, At
  <2>2. CASE SeenDue(t) = Deleted BY <1>5, <2>1, <2>2 DEF Done
  <2>3. CASE SeenDue(t) # Deleted
    <3>1. /\ pc'[t] = "take_number" /\ read'[t] = Attempt(t, 1, SeenDue(t))
          /\ UNCHANGED <<committed, source, task>>
      BY <1>0, <2>1, <2>3, ReadsTo DEF dbVars
    <3>2. v \in Recurring /\ read'[t].due = committed[NextDue(v)] /\ committed[NextDue(v)] # Deleted
      BY <1>0, <1>1, <2>1, <2>3, <3>1 DEF DueOps, Attempt
    <3>3. DatesSteered(t)' /\ DateInHand(t)' BY <3>1, <3>2 DEF DatesSteered, DateInHand, DueWays
    <3> QED BY <1>4, <2>1, <2>3, <3>3
  <2> QED BY <2>2, <2>3
<1>16. CASE Conflicts(t)
  <2>1. CASE Reads(t, Attempt(t, read[t].attempt + 1, read[t].due), "take_number")
    <3>1. /\ pc'[t] = "take_number" /\ pc[t] = "take_number" /\ read'[t].due = read[t].due
          /\ UNCHANGED <<committed, source, task>>
      BY <1>0, <1>16, <2>1, ReadsTo DEF Conflicts, Attempt, dbVars
    <3>2. DatesSteered(t)' /\ (DateInHand(t) => DateInHand(t)')
      BY <1>0, <3>1 DEF DatesSteered, DateInHand, DueWays
    <3> QED BY <1>4, <2>1, <3>1, <3>2
  <2>2. CASE Throws(t, "failed") BY <1>5, <2>2 DEF Done
  <2> QED BY <1>16, <2>1, <2>2 DEF Conflicts
<1>17. CASE TakeNumber(t)
  <2> DEFINE rows == Sequence :> Sees(t, Sequence) + 1
  <2>1. InTables(rows, {"sequence"}) /\ DOMAIN rows = {Sequence} BY DEF :>, InTables, Sequence
  <2>2. Writes(t, rows, "new_voucher") /\ pc[t] = "take_number" BY <1>17 DEF TakeNumber
  <2> HIDE DEF rows
  <2>3. /\ Frame(t, {"sequence"}) /\ pc'[t] = "new_voucher"
        /\ read' = read /\ committed' = committed
        /\ DOMAIN pending'[t] = DOMAIN pending[t] \cup DOMAIN rows
        /\ \A r \in DOMAIN pending[t] : r \notin DOMAIN rows => pending'[t][r] = pending[t][r]
    BY <1>0, <2>1, <2>2, WritesFrame
  <2>4. NumbersHeld(t)' BY <1>0, <2>1, <2>3, DatesAreRows DEF NumbersHeld
  <2>5. \A w : PostedFor(w)' = PostedFor(w) BY <2>3 DEF PostedFor
  <2>6. UNCHANGED <<task, source>> BY <2>3 DEF Frame
  <2>7. DatesSteered(t)' /\ (DateInHand(t) => DateInHand(t)')
    BY <1>0, <2>2, <2>3, <2>6 DEF DatesSteered, DateInHand, DueWays
  <2> QED BY <1>3, <2>2, <2>3, <2>4, <2>5, <2>7
<1>18. CASE DeleteTemplate(t)
  <2> DEFINE rows == NextDue(v) :> Deleted
  <2>1. InTables(rows, {"next_due"}) /\ DOMAIN rows = {NextDue(v)} /\ rows[NextDue(v)] = Deleted
    BY DEF :>, InTables, NextDue
  <2>2. Stores(t, rows, "committed") /\ pc[t] = "idle" /\ v \in Recurring
    BY <1>0, <1>18 DEF DeleteTemplate, At, DueOps
  <2> HIDE DEF rows
  <2>3. /\ Frame(t, {"next_due"}) /\ pc'[t] = "committed" /\ pending' = pending
        /\ \A r \in Row : committed'[r] = IF r \in DOMAIN rows THEN rows[r] ELSE committed[r]
    BY <1>0, <2>1, <2>2, StoresFrame
  <2>4. UNCHANGED <<task, source>> /\ \A u \in Tx : u # t => pc'[u] = pc[u] BY <2>3 DEF Frame
  <2>5. /\ \A n \in VoucherNumber : committed'[Number(n)] = committed[Number(n)]
        /\ \A w \in Recurring : committed'[NextDue(w)] = IF w = v THEN Deleted ELSE committed[NextDue(w)]
    BY <2>1, <2>3, DatesAreRows
  <2>6. \A w : PostedFor(w)' = PostedFor(w) BY <2>5 DEF PostedFor
  <2>7. NumbersHeld(t)' /\ DatesSteered(t)' /\ DateInHand(t)'
    BY <1>0, <2>3, <2>4, <2>5 DEF NumbersHeld, DatesSteered, DateInHand, Done
  <2>8. DatesInOrder(v)' BY <2>2, <2>5 DEF DatesInOrder, Deleted
  <2>9. \A w : Between(w) \subseteq Between(w)' BY <2>2, <2>4 DEF Between
  <2> QED BY <2>2, <2>3, <2>5, <2>6, <2>7, <2>8, <2>9, DatesByOne
<1>19. CASE Advance(t)
  <2> DEFINE rows == NextDue(v) :> read[t].due + 1
  <2>1. InTables(rows, {"next_due"}) /\ DOMAIN rows = {NextDue(v)} /\ rows[NextDue(v)] = read[t].due + 1
    BY DEF :>, InTables, NextDue
  <2>2. Stores(t, rows, "committed") /\ pc[t] = "advance" /\ v \in Recurring
    BY <1>0, <1>19 DEF Advance, FollowingDate, DatesSteered
  <2> HIDE DEF rows
  <2>3. /\ Frame(t, {"next_due"}) /\ pc'[t] = "committed" /\ pending' = pending
        /\ \A r \in Row : committed'[r] = IF r \in DOMAIN rows THEN rows[r] ELSE committed[r]
    BY <1>0, <2>1, <2>2, StoresFrame
  <2>4. UNCHANGED <<task, source>> /\ \A u \in Tx : u # t => pc'[u] = pc[u] BY <2>3 DEF Frame
  <2>5. /\ \A n \in VoucherNumber : committed'[Number(n)] = committed[Number(n)]
        /\ \A w \in Recurring : committed'[NextDue(w)] = IF w = v THEN read[t].due + 1 ELSE committed[NextDue(w)]
    BY <2>1, <2>3, DatesAreRows
  <2>6. \A w : PostedFor(w)' = PostedFor(w) BY <2>5 DEF PostedFor
  <2>7. NumbersHeld(t)' /\ DatesSteered(t)' /\ DateInHand(t)'
    BY <1>0, <2>3, <2>4, <2>5 DEF NumbersHeld, DatesSteered, DateInHand, Done
  <2>8. \A w : w # v => Between(w) \subseteq Between(w)' BY <2>4 DEF Between
  <2>9. ASSUME Apart({v})'
        PROVE  DatesInOrder(v)'
    <3>1. DatesInOrder(v) /\ DateInHand(t) BY <2>2, <2>4, <2>9, ApartBefore DEF DatesInv
    <3> PICK due, n, b, c : /\ due = committed[NextDue(v)] /\ n = Posted(v)
                            /\ b = Cardinality(Between(v)) /\ c = Cardinality(Between(v)')
      OBVIOUS
    <3>2. t \in Between(v) /\ Between(v)' = Between(v) \ {t} BY <2>2, <2>3, <2>4 DEF Between
    <3>3. IsFiniteSet(Between(v)) /\ b \in Nat /\ n \in Nat BY PostedTyped
    <3>4. c = b - 1 /\ c \in Nat BY <3>2, <3>3, FS_RemoveElement, FS_CardinalityType
    <3>5. due \in Nat /\ due # 0 /\ n - (due - 1) \in 0 .. b /\ read[t].due = due /\ n >= due
      BY <2>2, <3>1 DEF DatesInOrder, DateInHand, Deleted
    <3>6. committed'[NextDue(v)] = due + 1 /\ Posted(v)' = n BY <2>2, <2>5, <2>6, <3>5 DEF Posted
    <3>7. n - ((due + 1) - 1) \in 0 .. c /\ due + 1 \in Nat BY <3>3, <3>4, <3>5
    <3> QED BY <3>6, <3>7 DEF DatesInOrder
  <2> QED BY <2>2, <2>3, <2>5, <2>6, <2>7, <2>8, <2>9, DatesByOne
<1>20. CASE NewVoucher(t)
  <2> PICK k, s : /\ k = read[t].sequence
                  /\ s = IF v \in Recurring THEN "advance" ELSE "committed"
    OBVIOUS
  <2> DEFINE rows == Number(k) :> [source |-> source[t], amount |-> task[t].n]
  <2>1. InTables(rows, {"number"}) /\ DOMAIN rows = {Number(k)} /\ rows[Number(k)].source = v
    BY DEF :>, InTables, Number
  <2>2. /\ CommitsTo(t, rows, s) /\ pc[t] = "new_voucher"
        /\ k \in VoucherNumber /\ Sees(t, Number(k)) = NoVoucher
    BY <1>20 DEF NewVoucher
  <2> HIDE DEF rows
  <2>3. /\ Frame(t, {"number"}) /\ pc'[t] = s /\ Published(t, {"number"})
        /\ \A q \in Row : committed'[q] = IF q \in DOMAIN rows THEN rows[q] ELSE Sees(t, q)
    BY <1>0, <2>1, <2>2, CommitsFrame
  <2>4. /\ UNCHANGED <<task, source>> /\ \A u \in Tx : u # t => pc'[u] = pc[u]
        /\ s = "advance" => read'[t] = read[t]
    BY <2>2, <2>3 DEF Frame, CommitsTo, Done
  <2>5. \A w \in Recurring : committed'[NextDue(w)] = committed[NextDue(w)]
    BY <1>0, <2>1, <2>3, DatesAreRows DEF NumbersHeld, Sees
  <2>6. /\ committed[Number(k)].source \notin Recurring /\ committed'[Number(k)].source = v
        /\ \A n \in VoucherNumber : n # k =>
              \/ committed'[Number(n)] = committed[Number(n)]
              \/ committed'[Number(n)].source \notin Recurring /\ committed[Number(n)].source \notin Recurring
    BY <1>0, <2>1, <2>2, <2>3, DatesAreRows, RecurringAssumption DEF NumbersHeld, Sees
  <2>7. /\ \A w \in Recurring : w # v => PostedFor(w)' = PostedFor(w)
        /\ v \in Recurring => PostedFor(v)' = PostedFor(v) \cup {k} /\ k \notin PostedFor(v)
    BY <2>2, <2>6 DEF PostedFor
  <2>8. NumbersHeld(t)' /\ DatesSteered(t)'
    BY <2>3, <2>4 DEF Published, NumbersHeld, DatesSteered, Done, DueWays
  <2>9. \A w : w # v => Between(w) \subseteq Between(w)' BY <2>4 DEF Between
  <2>10. ASSUME v \in Recurring, Apart({v})'
         PROVE  DatesInOrder(v)' /\ DateInHand(t)'
    <3>1. DatesInOrder(v) /\ DateInHand(t) BY <2>4, <2>10, ApartBefore DEF DatesInv
    <3> PICK due, n, b, c : /\ due = committed[NextDue(v)] /\ n = Posted(v)
                            /\ b = Cardinality(Between(v)) /\ c = Cardinality(Between(v)')
      OBVIOUS
    <3>2. t \notin Between(v) /\ Between(v)' = Between(v) \cup {t} /\ pc'[t] = "advance"
      BY <2>2, <2>3, <2>4, <2>10 DEF Between
    <3>3. IsFiniteSet(Between(v)) /\ b \in Nat /\ n \in Nat /\ IsFiniteSet(PostedFor(v)) BY PostedTyped
    <3>4. c = b + 1 BY <3>2, <3>3, FS_AddElement
    <3>5. Posted(v)' = n + 1
      <4>1. Cardinality(PostedFor(v) \cup {k}) = Cardinality(PostedFor(v)) + 1
        BY <2>7, <2>10, <3>3, FS_AddElement
      <4> QED BY <2>7, <2>10, <4>1 DEF Posted
    <3>6. due \in Nat /\ due # 0 /\ n - (due - 1) \in 0 .. b /\ read[t].due = due
      BY <2>2, <3>1 DEF DatesInOrder, DateInHand, Deleted
    <3>7. (n + 1) - (due - 1) \in 0 .. c /\ n + 1 >= due BY <3>3, <3>4, <3>6
    <3>8. DatesInOrder(v)' BY <2>5, <2>10, <3>5, <3>6, <3>7 DEF DatesInOrder
    <3>9. DateInHand(t)'
      <4>1. read'[t].due = due /\ committed'[NextDue(v)] = due /\ source'[t] = v /\ Posted(v)' >= due
        BY <2>3, <2>4, <2>5, <2>10, <3>2, <3>5, <3>6, <3>7
      <4> QED BY <3>6, <4>1 DEF DateInHand, Posted, PostedFor, Deleted
    <3> QED BY <3>8, <3>9
  <2> QED BY <2>2, <2>3, <2>5, <2>7, <2>8, <2>9, <2>10, DatesByOne
<1> QED BY <1>8, <1>9, <1>10, <1>11, <1>12, <1>13, <1>14, <1>15, <1>16, <1>17, <1>18, <1>19, <1>20 DEF
  JournalStep

\* A recurring voucher is posted once for each date it has reached: one voucher more
\* only while a request, or its failure, is between the voucher and the next date;
\* unless two requests about it ran at the same time
\* (AccountingService.postRecurringVoucher, runDueRecurringVouchers).
THEOREM DuesArePostedOnceHolds == Spec => []DuesArePostedOnce
<1>1. Init => Base /\ DatesInv BY BaseInit, DatesInit
<1>2. Base /\ DatesInv /\ [Next]_vars => Base' /\ DatesInv'
  <2> SUFFICES ASSUME Base, DatesInv, [Next]_vars PROVE Base' /\ DatesInv' OBVIOUS
  <2>1. CASE UNCHANGED vars
    <3>1. UNCHANGED <<committed, pending, pc, read, task, source, overlapped>>
      BY <2>1 DEF vars, dbVars, postingVars
    <3>2. \A v : (DatesInOrder(v) => DatesInOrder(v)') /\ (Apart({v})' => Apart({v}))
      BY <3>1 DEF DatesInOrder, Posted, PostedFor, Between, Apart
    <3>3. \A t : /\ NumbersHeld(t) => NumbersHeld(t)'
                 /\ DatesSteered(t) => DatesSteered(t)'
                 /\ DateInHand(t) => DateInHand(t)'
      BY <3>1 DEF NumbersHeld, DatesSteered, DateInHand, Posted, PostedFor
    <3>4. DatesInv' BY <3>1, <3>2, <3>3 DEF DatesInv
    <3> QED BY <2>1, <3>4, BaseNext
  <2>2. CASE Next BY <2>2, BaseNext, ServeOnce, DateElsewhereStep, DateOwnStep
  <2> QED BY <2>1, <2>2
<1>3. DatesInv => DuesArePostedOnce
  BY DEF DatesInv, DatesInOrder, Posted, PostedFor, Between, DuesArePostedOnce
<1> QED BY <1>1, <1>2, <1>3, PTL DEF Spec
=============================================================================
