------------------------------- MODULE MCDesk -------------------------------
(***************************************************************************)
(* A tenant's desk for TLC: three requests of one family that meet in the  *)
(* same documents, the same shelf or the same customer.  There is a sale   *)
(* of two units of which one came back; an order; and few enough units and *)
(* points that some requests are refused.  The sales' store has two        *)
(* warehouses, of which edits find the first; a return may be made in      *)
(* another store.                                                          *)
(***************************************************************************)
EXTENDS Tenant, Sequences

CONSTANTS t1, t2, t3, none, s1, s2, s3, r1, r2, r3, o1, here, there, away, x1, noSerial

MCTx == {t1, t2, t3}
MCSaleOf == [r \in {r1, r2, r3} |-> s1]
MCSource == {s1, s2, s3, r1, r2, r3, o1}
MCShelfOf ==
    [d \in {s1, s2, o1} |-> there] @@ [d \in {r1, r2} |-> away] @@ [d \in {s3, r3} |-> here]
MCShelfOnEdit == [d \in {s1, s2, s3, r1, r2, r3} |-> here]
MCExisting == s1 :> 2 @@ r1 :> 1 @@ [d \in {s2, s3, r2, r3} |-> 0]
MCOrdered == o1 :> 1
MCOpening == here :> 1 @@ there :> 4 @@ away :> 0
MCNone == << >>

SaleTasks ==
    <<[op |-> "sale", on |-> s2, n |-> 2, points |-> 1, serial |-> x1],
      [op |-> "sale", on |-> s3, n |-> 1, points |-> 1, serial |-> x1],
      [op |-> "return", on |-> r2, lines |-> <<1>>],
      [op |-> "return", on |-> r3, lines |-> <<1>>]>>
SaleEdits ==
    <<[op |-> "edit_sale", on |-> s1, n |-> 3],
      [op |-> "edit_sale", on |-> s2, n |-> 1],
      [op |-> "edit_return", on |-> r1, lines |-> <<2>>],
      [op |-> "remove_return", on |-> r1]>>
OrderTasks ==
    <<[op |-> "order_status", on |-> o1, status |-> "DELIVERED"],
      [op |-> "order_status", on |-> o1, status |-> "CANCELLED"],
      [op |-> "deposit", on |-> o1, n |-> 1],
      [op |-> "edit_order", on |-> o1, n |-> 2, status |-> "CONFIRMED"],
      [op |-> "edit_order", on |-> o1, n |-> 1, status |-> "DELIVERED"],
      [op |-> "remove_order", on |-> o1]>>
PointTasks ==
    <<[op |-> "earn_points", on |-> s1, n |-> 1],
      [op |-> "redeem_points", on |-> s1, n |-> 1],
      [op |-> "adjust_points", on |-> s1, n |-> -1],
      [op |-> "order_online", on |-> s1, n |-> 1, points |-> 1, shelf |-> here]>>
SerialTasks ==
    <<[op |-> "claim", on |-> s1, serial |-> x1],
      [op |-> "claim_status", on |-> s1, status |-> "REPAIRED"]>>

\* Three requests of one concern, in one order of the three: they are alike.
Together(tasks) ==
    LET alike(i, j) == i = j /\ tasks[i].op \in Creations
        choices == {k \in [1 .. 3 -> DOMAIN tasks] :
                        \A i \in 1 .. 2 : k[i] <= k[i + 1] /\ ~alike(k[i], k[i + 1])}
    IN {t1 :> tasks[k[1]] @@ t2 :> tasks[k[2]] @@ t3 :> tasks[k[3]] : k \in choices}

MCWorkload ==
    Together(SaleTasks \o SaleEdits) \cup Together(OrderTasks)
        \cup Together(SaleTasks \o PointTasks) \cup Together(SaleTasks \o SerialTasks)
=============================================================================
