----------------------------- MODULE BackOffice -----------------------------
(***************************************************************************)
(* What a tenant's services do behind the counter, and what they promise   *)
(* together: goods bought and made, money lent, paid, moved and counted,   *)
(* people on leave, assets that wear out, and customers written to.        *)
(***************************************************************************)
EXTENDS Purchasing, Production, Loans, SupplierPayments, FundTransfers, Tills, Commissions,
        JournalVouchers, Leaves, Campaigns

BackOfficeRows ==
    PurchasingRows \cup ProductionRows \cup LoanRows \cup SupplierPaymentRows \cup FundRows
        \cup TillRows \cup CommissionRows \cup JournalRows \cup LeaveRows \cup DepreciationRows
        \cup CampaignRows

BackOfficeInitialRow(r) ==
    CASE r \in PurchasingRows -> PurchasingInitialRow(r)
      [] r \in ProductionRows -> "DRAFT"
      [] r \in LoanRows -> LoanInitialRow(r)
      [] r \in SupplierPaymentRows -> SupplierPaymentInitialRow(r)
      [] r \in FundRows -> FundInitialRow(r)
      [] r \in TillRows -> TillInitialRow(r)
      [] r \in CommissionRows -> CommissionInitialRow(r)
      [] r \in JournalRows -> JournalInitialRow(r)
      [] r \in LeaveRows -> LeaveInitialRow(r)
      [] r \in DepreciationRows -> 0
      [] r \in CampaignRows -> CampaignInitialRow(r)

BackOfficeStep(t) ==
    \/ PurchasingStep(t) \/ ProductionStep(t) \/ LoanStep(t) \/ SupplierPaymentStep(t)
    \/ FundStep(t) \/ TillStep(t) \/ CommissionStep(t) \/ JournalStep(t)
    \/ LeaveStep(t) \/ DepreciationStep(t) \/ CampaignStep(t)

-----------------------------------------------------------------------------
\* Goods follow their documents: an order has received what it ordered once it
\* is RECEIVED, a purchase what it bought, a return has sent back what it says,
\* and a job has consumed and yielded once it is COMPLETED; all of it once, and
\* nothing before, unless two requests about that document ran at the same time
\* (purchase-orders.service.ts:113-161, purchases.service.ts:75-127,
\* purchase-returns.service.ts:23-308, manufacturing.service.ts:295-357).
GoodsFollowDocuments ==
    /\ \A o \in PurchaseOrder :
          Apart({o}) => MovedBy(o) = IF committed[OrderStatus(o)] = "RECEIVED" THEN UnitsOrdered[o] ELSE 0
    /\ \A p \in Purchase : Apart({p}) => MovedBy(p) = committed[BoughtUnits(p)]
    /\ \A r \in PurchaseReturn : Apart({r}) => MovedBy(r) = -SentBackBy(r)
    /\ \A j \in Job :
          Apart({j}) =>
              <<committed[Stock(ComponentShelf)][j], MovedBy(j)>> =
                  IF committed[JobStatus(j)] = "COMPLETED" THEN <<-Consumed[j], Output[j]>> ELSE <<0, 0>>

\* A loan is not repaid beyond its principal, and is CLOSED exactly when it is
\* repaid, unless requests about it ran at the same time, an edit changed its
\* terms, or the end of the process came between the two statements that take a
\* payment back (loans.service.ts:143-209).
RepaidOf(l) == MapThenSumSet(LAMBDA p : committed[Repaid(p)], PaymentsOf(l))
LoansAreRepaid ==
    \A l \in Loan :
        LET loan == committed[LoanRow(l)]
            unpaying == {t \in Tx : /\ task[t].op = "unpay"
                                    /\ LoanFor(t) = l
                                    /\ pc[t] \in {"reopen", "failed"}}
        IN (loan # NoLoan /\ Apart({l} \cup PaymentsOf(l)) /\ ~Edited(l, {"edit_loan"})) =>
               /\ RepaidOf(l) <= loan.principal
               /\ unpaying = {} => (loan.status = "CLOSED" <=> RepaidOf(l) = loan.principal)

\* The supplier's due balance is explained by the payments on record, edited and
\* deleted ones included, unless two requests about the supplier's payments ran
\* at the same time (suppliers.service.ts:354-474).
SupplierDueIsExplained ==
    Apart(SupplierPayment) =>
        committed[Due] = OpeningSupplierDue + MapThenSumSet(LAMBDA p : DueChange(committed[PaymentRow(p)]), SupplierPayment)

\* The vouchers of a fund transfer are those it names, one as it is sent and one
\* as it is RECEIVED, unless it was received by two requests at the same time
\* (fund-transfers.service.ts:40-147).
FundVouchers(f, kind) ==
    {n \in FundNumber : committed[FundVoucher(n)] = [fund |-> f, kind |-> kind]}
FundsArriveOnce ==
    \A f \in Fund :
        Apart({f}) =>
            LET transfer == committed[FundRow(f)] IN
            /\ FundVouchers(f, "send_funds") = {transfer.sent} \ {0}
            /\ FundVouchers(f, "receive_funds") = {transfer.arrived} \ {0}
            /\ transfer.status = "RECEIVED" <=> transfer.arrived # 0

\* A user, and a counter, have one open session, unless it was opened by two
\* requests at the same time (cashier-sessions.service.ts:15-39).
SessionsAreKeptApart ==
    \A s, u \in Session :
        (/\ s # u
         /\ Apart({s, u})
         /\ SameUser(s, u) \/ SameCounter(s, u))
            => ~(committed[SessionRow(s)] = "OPEN" /\ committed[SessionRow(u)] = "OPEN")

\* A commission is paid once, and is PAID once it is, unless two requests about
\* it or its referee ran at the same time (referrals.service.ts:136-167).
CommissionsArePaidOnce ==
    \A x \in Signup :
        Apart({x, RefereeOf[x]}) =>
            LET payments == {t \in Tx : x \in committed[RefereePayment(t)]} IN
            /\ Cardinality(payments) <= 1
            /\ committed[SignupRow(x)] = "PAID" <=> payments # {}

\* A recurring voucher is posted once for each date it has reached: one voucher
\* more only while a request, or its failure, is between the voucher and the
\* next date; unless two requests about it ran at the same time, or one of its
\* vouchers was deleted by hand (accounting.service.ts:2500-2533, 855).
DuesArePostedOnce ==
    \A v \in Recurring :
        (Apart({v}) /\ committed[NextDue(v)] # Deleted) =>
            LET posted == Cardinality({n \in VoucherNumber : committed[Number(n)].source = v})
                between == {t \in Tx : source[t] = v /\ pc[t] \in {"advance", "failed"}}
            IN posted - (committed[NextDue(v)] - 1) \in 0 .. Cardinality(between)

Interrupted(d, statement) == \E t \in Tx : source[t] = d /\ pc[t] \in {statement, "failed"}

\* The days an employee has used are those of the leaves that are APPROVED, also
\* while other leaves of the employee are decided, unless two requests about one
\* leave ran at the same time, or one was interrupted between its two statements
\* (attendance.service.ts:333-414).
LeavesAreCounted ==
    (\A x \in Leave : Apart({x}) /\ ~Interrupted(x, "set_leave")) =>
        committed[UsedDays] =
            MapThenSumSet(LAMBDA x : LeaveDays[x], {x \in Leave : committed[LeaveRow(x)] = "APPROVED"})

\* An asset's accumulated depreciation is the sum of its entries, also when two
\* runs race for a month, unless one was interrupted between its two statements;
\* and an asset is not written down below its residual value, unless runs of two
\* months saw the same value (accounting.service.ts:2289-2341).
AssetsAreWrittenDown ==
    \A a \in Asset :
        /\ (\A m \in Month : ~Interrupted(m, "accumulate")) =>
              committed[Accumulated(a)] = MapThenSumSet(LAMBDA m : committed[ChargeEntry(a, m)], Month)
        /\ Apart(Month) => committed[Accumulated(a)] <= Depreciable(a)

\* Nobody is sent a campaign twice, although its sender may die and be followed
\* by another, and a COMPLETED campaign counts what its recipients say; unless
\* two requests about it ran at the same time (crm-campaigns.service.ts:78-259).
CampaignsAreSentOnce ==
    \A c \in Campaign :
        Apart({c}) =>
            LET with(status) == {x \in Audience : committed[Recipient(c, x)] = status} IN
            /\ \A x \in Audience : committed[Messages(c, x)] <= 1
            /\ committed[CampaignRow(c)].status = "COMPLETED" =>
                  /\ with("SENT") \cup with("FAILED") = Audience
                  /\ committed[CampaignRow(c)].delivered = Cardinality(with("SENT"))

\* What is counted beside the rows it counts, by statements of their own, agrees
\* with them: the three of the above.
CountsAgree == LeavesAreCounted /\ AssetsAreWrittenDown /\ CampaignsAreSentOnce
=============================================================================
