---------------------------- MODULE MCBackOffice ----------------------------
(***************************************************************************)
(* A tenant's back office for TLC: two or three requests of one concern    *)
(* that meet in the same documents, supplier, sequence or till.  Stock     *)
(* starts low enough that some returns and jobs are refused.               *)
(***************************************************************************)
EXTENDS Tenant, Sequences

CONSTANTS
    t1, t2, t3, none, here, there, s1, noSerial, po1, b1, b2, b3, b4, q1, q2, q3, j1,
    l1, l2, p1, p2, y1, y2, y3, f1, f2, c1, c2, c3, rf, g1, g2, m1, v1, d1, d2, a1, a2, x1, x2, k1, u1, u2

MCTx == {t1, t2, t3}
MCPurchaseOf == [r \in {q1, q2, q3} |-> b1]
MCLoanOf == [p \in {p1, p2} |-> l1]
MCRefereeOf == [x \in {g1, g2} |-> rf]
MCSource ==
    {s1, po1, b1, b2, b3, b4, q1, q2, q3, j1, l1, l2, p1, p2, y1, y2, y3, f1, f2, c1, c2, c3,
     rf, g1, g2, m1, v1, d1, d2, x1, x2, k1}
MCShelfOf == j1 :> there @@ [d \in {s1, po1, b1, b2, b3, b4, q1, q2, q3} |-> here]
MCAtStart == b1 :> 2 @@ q1 :> 1 @@ [d \in {b2, b3, b4, q2, q3} |-> 0]
MCUnitsOrdered == po1 :> 2
MCUnit == j1 :> 1
MCOpening == here :> 0 @@ there :> 1
MCPrincipal == l1 :> 2 @@ l2 :> 0
MCSessionAt ==
    c1 :> [user |-> "ana", counter |-> "till"] @@ c2 :> [user |-> "bo", counter |-> "till"]
        @@ c3 :> [user |-> "ana", counter |-> NoCounter]

MCLeaveDays == x1 :> 1 @@ x2 :> 2
MCTerms ==
    a1 :> [cost |-> 4, residual |-> 1, life |-> 2, method |-> "STRAIGHT_LINE"]
        @@ a2 :> [cost |-> 4, residual |-> 1, life |-> 4, method |-> "DECLINING_BALANCE"]

MCExisting == s1 :> 0
MCNone == << >>

Sells == <<[op |-> "sale", on |-> s1, n |-> 1, points |-> 0, serial |-> noSerial]>>
PurchaseTasks ==
    <<[op |-> "purchase", on |-> b2, n |-> 1],
      [op |-> "purchase", on |-> b3, n |-> 1],
      [op |-> "send_back", on |-> q2, n |-> 1],
      [op |-> "send_back", on |-> q3, n |-> 1],
      [op |-> "send_back_anew", on |-> q1, n |-> 2],
      [op |-> "remove_send_back", on |-> q1],
      [op |-> "po_status", on |-> po1, status |-> "RECEIVED"],
      [op |-> "po_status", on |-> po1, status |-> "CANCELLED"]>>
Purchases ==
    <<PurchaseTasks[1], PurchaseTasks[2], [op |-> "purchase", on |-> b4, n |-> 1]>>
JobTasks ==
    <<[op |-> "start_job", on |-> j1],
      [op |-> "complete_job", on |-> j1],
      [op |-> "cancel_job", on |-> j1]>>
LoanTasks ==
    <<[op |-> "lend", on |-> l2, n |-> 1],
      [op |-> "repay", on |-> p1, n |-> 2],
      [op |-> "repay", on |-> p2, n |-> 1],
      [op |-> "unpay", on |-> p1],
      [op |-> "edit_loan", on |-> l1, n |-> 1, status |-> "ACTIVE"],
      [op |-> "delete_loan", on |-> l1]>>
SupplierTasks ==
    <<[op |-> "pay_supplier", on |-> y1, type |-> "PAYMENT", n |-> 1],
      [op |-> "pay_supplier", on |-> y2, type |-> "PAYMENT", n |-> 2],
      [op |-> "pay_supplier", on |-> y3, type |-> "PAYOUT", n |-> 1],
      [op |-> "edit_payment", on |-> y1, type |-> "PAYOUT", n |-> 2],
      [op |-> "delete_payment", on |-> y1, type |-> "none", n |-> 0]>>
FundTasks ==
    <<[op |-> "send_funds", on |-> f1],
      [op |-> "send_funds", on |-> f2],
      [op |-> "receive_funds", on |-> f1]>>
TillTasks ==
    <<[op |-> "open_session", on |-> c1],
      [op |-> "open_session", on |-> c2],
      [op |-> "open_session", on |-> c3],
      [op |-> "close_session", on |-> c1],
      [op |-> "cash", on |-> c1, n |-> 1]>>
CommissionTasks ==
    <<[op |-> "earn_commission", on |-> g1],
      [op |-> "earn_commission", on |-> g2],
      [op |-> "pay_commissions", on |-> rf]>>
JournalTasks ==
    <<[op |-> "journal", on |-> m1, n |-> 1],
      [op |-> "edit_journal", on |-> m1, n |-> 2],
      [op |-> "delete_journal", on |-> m1],
      [op |-> "run_due", on |-> v1, n |-> 1],
      [op |-> "post_recurring", on |-> v1, n |-> 1],
      [op |-> "delete_recurring", on |-> v1]>>
LeaveTasks ==
    <<[op |-> "review_leave", on |-> x1, status |-> "APPROVED"],
      [op |-> "review_leave", on |-> x1, status |-> "REJECTED"],
      [op |-> "review_leave", on |-> x2, status |-> "APPROVED"],
      [op |-> "cancel_leave", on |-> x1, status |-> "CANCELLED"]>>
DepreciationTasks ==
    <<[op |-> "depreciate", on |-> d1],
      [op |-> "depreciate", on |-> d2]>>
CampaignTasks ==
    <<[op |-> "send_campaign", on |-> k1],
      [op |-> "schedule_campaign", on |-> k1, status |-> "DRAFT"],
      [op |-> "remove_campaign", on |-> k1]>>

\* Three requests of one concern, in one order of the three: they are alike.
Together(tasks) ==
    LET alike(i, j) == i = j /\ tasks[i].op \in Creations
        choices == {k \in [1 .. 3 -> DOMAIN tasks] :
                        \A i \in 1 .. 2 : k[i] <= k[i + 1] /\ ~alike(k[i], k[i + 1])}
    IN {t1 :> tasks[k[1]] @@ t2 :> tasks[k[2]] @@ t3 :> tasks[k[3]] : k \in choices}

\* Two requests, where each has many statements.
Idle == [op |-> "none", on |-> s1]
Pairs(tasks) ==
    {t1 :> tasks[i] @@ t2 :> tasks[j] @@ t3 :> Idle :
        <<i, j>> \in {pair \in (DOMAIN tasks) \X (DOMAIN tasks) : pair[1] <= pair[2]}}

MCWorkload ==
    Together(PurchaseTasks) \cup Together(Purchases) \cup Together(JobTasks \o Sells)
        \cup Together(LoanTasks) \cup Together(SupplierTasks) \cup Together(FundTasks)
        \cup Together(TillTasks) \cup Together(CommissionTasks) \cup Together(JournalTasks \o Sells)
        \cup Together(LeaveTasks) \cup Pairs(DepreciationTasks) \cup Pairs(CampaignTasks)
=============================================================================
