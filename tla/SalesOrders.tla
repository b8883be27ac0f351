---------------------------- MODULE SalesOrders ----------------------------
(***************************************************************************)
(* SalesOrdersService: updateStatus, addDeposit, update and remove of an   *)
(* order, each one transaction that first reads the order without a lock.  *)
(***************************************************************************)
EXTENDS Sales

CONSTANTS
    Order,         \* the documents that are sales orders
    OrderedUnits   \* OrderedUnits[o]: what o orders at the start

OrderRow(o) == <<"order", o>>              \* the SalesOrder
Lines(o, by) == <<"lines", o, by>>         \* the SalesOrderItems request by made
Deposit(t) == <<"deposit", t>>             \* the OrderDeposit request t made
Makers == Tx \cup {NoTx}

OrderRows ==
    {OrderRow(o) : o \in Order} \cup {Deposit(t) : t \in Tx}
        \cup {Lines(o, by) : o \in Order, by \in Makers}

NoOrder == [status |-> "none", total |-> 0, paid |-> 0]

OrderInitialRow(r) ==
    CASE r[1] = "order" -> [status |-> "CONFIRMED", total |-> OrderedUnits[r[2]], paid |-> 0]
      [] r[1] = "lines" -> IF r[3] = NoTx THEN OrderedUnits[r[2]] ELSE 0
      [] r[1] = "deposit" -> 0

SeenOrder(t) == Sees(t, OrderRow(source[t]))
Ordered(t) == MapThenSumSet(LAMBDA by : Sees(t, Lines(source[t], by)), Makers)
LinesSeen(t) == {Lines(source[t], by) : by \in {b \in Makers : Sees(t, Lines(source[t], b)) # 0}}

\* update() of an order that is gone fails.
OrderGone(t) ==
    /\ pc[t] \in {"set_status", "set_paid", "replace_lines"}
    /\ Lockable(t, OrderRow(source[t]))
    /\ SeenOrder(t) = NoOrder
    /\ Throws(t, "failed")

-----------------------------------------------------------------------------
(* updateStatus *)

ReadForAnyDelivery(t) ==
    /\ At(t, "order_status", "idle")
    /\ SeenOrder(t) # NoOrder
    /\ Reads(t, [n |-> Ordered(t), total |-> SeenOrder(t).total],
             IF task[t].status = "DELIVERED" THEN "deliver" ELSE "set_status")

ReadForOrderStatus(t) ==
    /\ At(t, "order_status", "idle")
    /\ SeenOrder(t) # NoOrder
    /\ Reads(t, [n |-> Ordered(t), total |-> SeenOrder(t).total],
             IF task[t].status = "DELIVERED" /\ SeenOrder(t).status # "DELIVERED"
             THEN "deliver" ELSE "set_status")

\* The lines that were read leave the stock.
DeliverLines(t) ==
    /\ pc[t] = "deliver"
    /\ StockLeft(t, Shop(t), -read[t].n)
    /\ Writes(t, Stock(Shop(t)) :> Moved(t, Shop(t), -read[t].n), "spend")

DeliverShort(t) == pc[t] = "deliver" /\ Shortage(t, Shop(t), -read[t].n)

SpendOnOrder(t) ==
    /\ pc[t] = "spend"
    /\ Writes(t, Customer :> [SeenCustomer(t) EXCEPT !.spent = @ + read[t].total], "set_status")

SetOrderStatus(t) ==
    /\ pc[t] = "set_status"
    /\ SeenOrder(t) # NoOrder
    /\ Ends(t, OrderRow(source[t]) :> [SeenOrder(t) EXCEPT !.status = task[t].status])

-----------------------------------------------------------------------------
(* addDeposit *)

ReadForDeposit(t) ==
    /\ At(t, "deposit", "idle")
    /\ SeenOrder(t) # NoOrder
    /\ Reads(t, SeenOrder(t).paid + task[t].n, "set_paid")

\* amount_paid is written as what was read plus the deposit.
TakeDeposit(t) ==
    /\ pc[t] = "set_paid"
    /\ SeenOrder(t) # NoOrder
    /\ Ends(t, Deposit(t) :> task[t].n @@ OrderRow(source[t]) :> [SeenOrder(t) EXCEPT !.paid = read[t]])

-----------------------------------------------------------------------------
(* update with other items; remove *)

\* A DELIVERED order is refused by both.
Open(t) == SeenOrder(t).status \notin {"none", "DELIVERED"}

ReadForOrderEdit(t) ==
    /\ At(t, "edit_order", "idle")
    /\ Open(t)
    /\ Reads(t, Nothing, "find_lines")

\* The snapshot of deleteMany: the lines that are there when it starts.
FindLines(t) ==
    /\ pc[t] = "find_lines"
    /\ Reads(t, LinesSeen(t), "delete_lines")

KeepLines(t) ==
    /\ pc[t] = "delete_lines"
    /\ Writes(t, << >>, "replace_lines")

DeleteLines(t) ==
    /\ pc[t] = "delete_lines"
    /\ Writes(t, [r \in read[t] |-> 0], "replace_lines")

\* The new lines, the total they add up to, and the status the client sends.
ReplaceLines(t) ==
    /\ pc[t] = "replace_lines"
    /\ SeenOrder(t) # NoOrder
    /\ Ends(t, Lines(source[t], t) :> task[t].n
                 @@ OrderRow(source[t]) :> [SeenOrder(t) EXCEPT !.total = task[t].n,
                                                                !.status = task[t].status])

ReadForOrderRemove(t) ==
    /\ At(t, "remove_order", "idle")
    /\ Open(t)
    /\ Reads(t, Nothing, "remove_order")

\* Deposits, lines and order go; deleteMany minds nothing that is gone, and the
\* order takes with it the lines and deposits that it does not see.
RemoveOrder(t) ==
    /\ pc[t] = "remove_order"
    /\ Ends(t, [r \in {OrderRow(source[t])} \cup {Lines(source[t], by) : by \in Makers}
                          \cup {Deposit(u) : u \in {v \in Tx : source[v] = source[t]}} |->
                  IF r = OrderRow(source[t]) THEN NoOrder ELSE 0])

OrderStep(t) ==
    \/ ReadForOrderStatus(t) \/ DeliverLines(t) \/ DeliverShort(t) \/ SpendOnOrder(t)
    \/ SetOrderStatus(t) \/ ReadForDeposit(t) \/ TakeDeposit(t)
    \/ ReadForOrderEdit(t) \/ FindLines(t) \/ DeleteLines(t) \/ ReplaceLines(t)
    \/ ReadForOrderRemove(t) \/ RemoveOrder(t) \/ OrderGone(t)
=============================================================================
