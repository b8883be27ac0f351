------------------------------ MODULE Loyalty ------------------------------
(***************************************************************************)
(* Loyalty points: loyalty-sale.utils.ts, which a sale calls inside its    *)
(* transaction; LoyaltyService, whose checks read before a transaction of  *)
(* two statements; and the points of StorefrontService.placeOrder.  One    *)
(* customer, whose programme is on.                                        *)
(***************************************************************************)
EXTENDS Requests

CONSTANTS
    OpeningSpent, OpeningPoints,  \* the customer's, the documents apart
    EarnRate,                     \* points per unit of money
    RedeemRate,                   \* money per point
    MinRedeem                     \* the least that may be redeemed

ASSUME RatesAssumption ==
    /\ EarnRate \in Nat
    /\ RedeemRate \in Nat \ {0}
    /\ MinRedeem \in Nat

Customer == <<"customer">>
Entry(t) == <<"entry", t>>    \* what t's LoyaltyTransactions add up to
LoyaltyRows == {Customer} \cup {Entry(t) : t \in Tx}

\* spentAtStart is what the documents there were have added to total_spent.
LoyaltyInitialRow(r, spentAtStart) ==
    IF r = Customer
    THEN [spent |-> OpeningSpent + spentAtStart, points |-> OpeningPoints]
    ELSE 0

SeenCustomer(t) == Sees(t, Customer)

Least(a, b) == IF a < b THEN a ELSE b

\* previewSaleLoyaltyRedemption, where points are what the customer had when
\* they were read: no more than those, for no more than the total.
Redeemable(points, asked, total) ==
    LET requested == Least(asked, points)
        discount == Least(requested * RedeemRate, total)
    IN [discount |-> discount,
        points |-> IF discount < requested * RedeemRate
                   THEN (discount + RedeemRate - 1) \div RedeemRate
                   ELSE requested]

MayRedeem(points, asked) == asked > 0 => Least(asked, points) >= MinRedeem

Earned(total) == total * EarnRate

\* The entries a request makes, and their effect on the points.
PointsMoved(t, points) ==
    Customer :> [SeenCustomer(t) EXCEPT !.points = @ + points] @@ Entry(t) :> points

\* recordSaleLoyalty, and the total_spent of the customer before it.
SaleBooked(t, total, redeemed) ==
    LET points == Earned(total) - redeemed IN
    Customer :> [spent |-> SeenCustomer(t).spent + total,
                 points |-> SeenCustomer(t).points + points]
        @@ Entry(t) :> points

-----------------------------------------------------------------------------
(* LoyaltyService: the check reads, and the transaction trusts it. *)

EarnPoints(t) ==
    /\ At(t, "earn_points", "idle")
    /\ Earned(task[t].n) > 0
    /\ Ends(t, PointsMoved(t, Earned(task[t].n)))

EnoughAtMinimum(t, points) == points >= MinRedeem

EnoughPoints(t, points) == SeenCustomer(t).points >= points

CheckRedeem(t) ==
    /\ At(t, "redeem_points", "idle")
    /\ task[t].n >= MinRedeem
    /\ EnoughPoints(t, task[t].n)
    /\ Reads(t, -task[t].n, "move_points")

CheckAdjust(t) ==
    /\ At(t, "adjust_points", "idle")
    /\ SeenCustomer(t).points + task[t].n >= 0
    /\ Reads(t, task[t].n, "move_points")

MovePoints(t) ==
    /\ pc[t] = "move_points"
    /\ Ends(t, PointsMoved(t, read[t]))

-----------------------------------------------------------------------------
(* StorefrontService.placeOrder: stock and points are read before the      *)
(* transaction, which makes the order and moves the points; no stock is    *)
(* moved for an online order.                                              *)

CheckOnlineOrder(t) ==
    /\ At(t, "order_online", "idle")
    /\ StockLeft(t, task[t].shelf, -task[t].n)
    /\ MayRedeem(SeenCustomer(t).points, task[t].points)
    /\ Reads(t, Redeemable(SeenCustomer(t).points, task[t].points, task[t].n), "order_online")

PlaceOnlineOrder(t) ==
    /\ pc[t] = "order_online"
    /\ Ends(t, PointsMoved(t, Earned(task[t].n - read[t].discount) - read[t].points))

LoyaltyStep(t) ==
    \/ EarnPoints(t) \/ CheckRedeem(t) \/ CheckAdjust(t) \/ MovePoints(t)
    \/ CheckOnlineOrder(t) \/ PlaceOnlineOrder(t)

-----------------------------------------------------------------------------
(* What the points promise. *)

Points == committed[Customer].points
Spent == committed[Customer].spent
Redeeming == {t \in Tx : task[t].op \in {"sale", "redeem_points", "order_online", "adjust_points"}}

\* Points are decremented without a condition, and still never go below zero
\* unless two requests that take points ran at the same time
\* (loyalty-sale.utils.ts:42-57, loyalty.service.ts:159-182).
PointsAreCovered ==
    (\A pair \in overlapped : ~(pair \subseteq Redeeming)) => Points >= 0
=============================================================================
