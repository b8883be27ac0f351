------------------------------- MODULE Tenant -------------------------------
(***************************************************************************)
(* A tenant's requests, of any service, at once.  The desk and the back    *)
(* office meet in the stock of a shelf and in the voucher sequence.        *)
(* After the specification come the inductive invariants of                *)
(* Tenant_proofs, service by service.                                      *)
(***************************************************************************)
EXTENDS SalesDesk, BackOffice

TenantRows == PostingRows \cup StockRows \cup DeskRows \cup BackOfficeRows
ASSUME RowAssumption == Row = TenantRows

\* A new document has an id of its own: one request creates it.
Creations ==
    {"sale", "return", "purchase", "send_back", "lend", "repay", "pay_supplier", "send_funds",
     "open_session", "journal"}
ASSUME WorkloadAssumption ==
    \A w \in Workload : \A t, u \in Tx :
        (t # u /\ w[t].on = w[u].on) => ~({w[t].op, w[u].op} \subseteq Creations)

\* A document is of one kind.  Those that move stock have their shelf, and the edits
\* of sales and returns one too; a product is no component of its own.
Kinds == <<Sale, Return, Order, PurchaseOrder, Purchase, PurchaseReturn, Job>>
ASSUME KindAssumption ==
    \A i, k \in DOMAIN Kinds : i # k => Kinds[i] \cap Kinds[k] = {}
ASSUME DocumentAssumption ==
    \A i \in DOMAIN Kinds : \A d \in Kinds[i] :
        /\ d \in Source /\ d \in DOMAIN ShelfOf /\ ShelfOf[d] \in Shelf
        /\ d \in Job => ComponentShelf \in Shelf \ {ShelfOf[d]}
        /\ d \in Sale \cup Return => ShelfOnEdit[d] \in Shelf
ASSUME QuantityAssumption ==
    /\ \A d \in Sale \cup Return : Existing[d] \in Int
    /\ \A d \in Purchase \cup PurchaseReturn : AtStart[d] \in Int
    /\ \A o \in PurchaseOrder : UnitsOrdered[o] \in Int
    /\ \A o \in Order : OrderedUnits[o] \in Int
    /\ \A j \in Job : Consumed[j] \in Int /\ Output[j] \in Int

\* An operation on documents that move stock is about one of its kind.
ASSUME RequestAssumption ==
    \A w \in Workload : \A t \in Tx :
        /\ w[t].op \in {"sale", "edit_sale"} => w[t].on \in Sale /\ w[t].n \in Int
        /\ w[t].op \in {"return", "edit_return", "remove_return"} => w[t].on \in Return
        /\ w[t].op \in {"return", "edit_return"} =>
              IsFiniteSet(DOMAIN w[t].lines) /\ w[t].lines \in [DOMAIN w[t].lines -> Int]
        /\ w[t].op \in {"order_status", "deposit", "edit_order", "remove_order"} => w[t].on \in Order
        /\ w[t].op = "edit_order" => w[t].n \in Int
        /\ w[t].op = "po_status" => w[t].on \in PurchaseOrder
        /\ w[t].op = "purchase" => w[t].on \in Purchase /\ w[t].n \in Int
        /\ w[t].op \in {"send_back", "send_back_anew", "remove_send_back"} => w[t].on \in PurchaseReturn
        /\ w[t].op \in {"send_back", "send_back_anew"} => w[t].n \in Int
        /\ w[t].op \in {"start_job", "cancel_job", "complete_job"} => w[t].on \in Job

\* What is paid to a supplier is a number; a payment that is deleted becomes one of type "none".
ASSUME PaymentAssumption ==
    \A w \in Workload : \A t \in Tx :
        /\ w[t].op \in {"pay_supplier", "edit_payment", "delete_payment"} => w[t].on \in SupplierPayment
        /\ w[t].op \in {"pay_supplier", "edit_payment"} => w[t].n \in Int
        /\ w[t].op = "delete_payment" => w[t].type = "none"
\* What is sold, and what points are asked for, is no less than nothing.
ASSUME PointsAssumption ==
    /\ OpeningPoints \in Nat
    /\ \A w \in Workload : \A t \in Tx :
        /\ w[t].op \in {"sale", "order_online"} => w[t].n \in Nat /\ w[t].points \in Nat
        /\ w[t].op \in {"earn_points", "redeem_points", "adjust_points"} => w[t].n \in Int
\* A payment is of one loan, and what is lent or paid is more than nothing.
ASSUME LoanAssumption ==
    /\ LoanOf \in [LoanPayment -> Loan] /\ Loan \cap LoanPayment = {}
    /\ \A l \in Loan : Principal[l] \in Nat
    /\ \A w \in Workload : \A t \in Tx :
        /\ w[t].op \in {"lend", "edit_loan", "delete_loan"} => w[t].on \in Loan
        /\ w[t].op \in {"repay", "unpay"} => w[t].on \in LoanPayment
        /\ w[t].op \in {"lend", "repay"} => w[t].n \in Nat \ {0}
\* A recurring voucher is asked for by its own operations alone.
ASSUME RecurringAssumption ==
    /\ NoVoucher.source \notin Recurring
    /\ \A w \in Workload : \A t \in Tx :
        w[t].on \in Recurring <=> w[t].op \in {"run_due", "post_recurring", "delete_recurring"}
ASSUME FiniteAssumption ==
    /\ IsFiniteSet(Tx) /\ IsFiniteSet(Shelf) /\ IsFiniteSet(SupplierPayment) /\ IsFiniteSet(LoanPayment)
    /\ OpeningSupplierDue \in Int

StockAtStart(p) == [d \in Source |-> SaleMovedAtStart(p)[d] + PurchasesMoved(p)[d]]

InitialRow(r) ==
    CASE r \in PostingRows -> PostingInitialRow(r)
      [] r \in StockRows -> StockAtStart(r[2])
      [] r \in DeskRows -> DeskInitialRow(r)
      [] r \in BackOfficeRows -> BackOfficeInitialRow(r)

Init == RequestsInit([r \in Row |-> InitialRow(r)])

Serve == \E t \in Tx : DeskStep(t) \/ BackOfficeStep(t) \/ Posts(t) \/ Abort(t)

Next == Serve /\ Watch

Spec == Init /\ [][Next]_vars

-----------------------------------------------------------------------------
(* What a step of one request leaves alone.                                  *)

Shape ==
    /\ DOMAIN pc = Tx /\ DOMAIN read = Tx /\ DOMAIN amount = Tx
    /\ DOMAIN pending = Tx /\ DOMAIN holder = Row

\* Whoever has written a row has its lock.
Locks == \A t \in Tx : \A r \in DOMAIN pending[t] : r \in Row => holder[r] = t

Kept(t, T) ==
    /\ \A r \in Row : r[1] \notin T => committed'[r] = committed[r]
    /\ \A r \in DOMAIN pending[t] : r \in DOMAIN pending'[t]
    /\ \A r \in DOMAIN pending'[t] :
          r[1] \notin T => r \in DOMAIN pending[t] /\ pending'[t][r] = pending[t][r]

Published(t, T) ==
    /\ DOMAIN pending'[t] = {}
    /\ \A r \in Row : r[1] \notin T => committed'[r] = Sees(t, r)

Dropped(t) ==
    /\ DOMAIN pending'[t] = {}
    /\ \A r \in Row : committed'[r] = committed[r]

\* t has run a statement that may write the tables T.
Frame(t, T) ==
    /\ Shape' /\ Locks'
    /\ UNCHANGED <<task, source>>
    /\ \A u \in Tx : u # t =>
          /\ pc'[u] = pc[u] /\ read'[u] = read[u] /\ amount'[u] = amount[u]
          /\ pending'[u] = pending[u]
    /\ \A u \in Tx : u # t =>
          \A r \in DOMAIN pending[u] : r \in Row => committed'[r] = committed[r]
    /\ Kept(t, T) \/ Published(t, T) \/ Dropped(t)

InTables(rows, T) == \A r \in DOMAIN rows : r[1] \in T

\* The rows a request has read that it writes later are of the tables it writes.
NumbersSought(t) ==
    pc[t] \in {"buy", "send_back", "insert_return"} => read[t][1] \in {"PUR", "PRET"}
LinesSought(t) == pc[t] = "delete_lines" => \A r \in read[t] : r[1] = "lines"
PaymentFound(t) == pc[t] = "read_due" => task[t].op \in {"edit_payment", "delete_payment"}

-----------------------------------------------------------------------------
(* What the statements of each service write, and where they go on.          *)

\* A statement of the service with these operations and statements of its own...
From(t, Ops, Ways) == pc[t] \in Ways \/ (pc[t] \in {"idle", "commit"} /\ task[t].op \in Ops)

\* ...goes on to one of them, to posting, or to the end...
Onwards(Ways) == Ways \cup Done \cup {"post"}

\* ...and may write the tables T.
Foot(t, T, Ops, Ways) ==
    /\ From(t, Ops, Ways)
    /\ pc'[t] \in Onwards(Ways)
    /\ Frame(t, T)

SaleOps == {"sale", "edit_sale"}
SaleWays == {"sell", "serial", "register", "book", "edit_sale", "edit_total"}
SaleTables == {"items", "total", "stock", "serial", "customer", "entry"}

ReturnOps == {"return", "edit_return", "remove_return"}
ReturnWays == {"take_back", "refund", "edit_return", "return_anew", "remove_return"}
ReturnTables == {"return", "stock", "customer"}

OrderOps == {"order_status", "deposit", "edit_order", "remove_order"}
OrderWays == {"deliver", "spend", "set_status", "set_paid", "find_lines", "delete_lines",
    "replace_lines", "remove_order"}
OrderTables == {"order", "lines", "deposit", "stock", "customer"}

LoyaltyOps == {"earn_points", "redeem_points", "adjust_points", "order_online"}
LoyaltyWays == {"move_points", "order_online"}
LoyaltyTables == {"customer", "entry"}

ClaimOps == {"claim", "claim_status"}
ClaimWays == {"claim"}
ClaimTables == {"claim", "serial"}

PurchasingOps == {"po_status", "purchase", "send_back", "send_back_anew", "remove_send_back"}
PurchasingWays == {"receive_goods", "set_po_status", "new_supplier", "count_purchases",
    "buy", "send_back", "insert_return", "send_anew", "remove_send_back"}
PurchasingTables == {"po", "units", "supplier", "PUR", "PRET", "stock"}

ProductionOps == {"start_job", "cancel_job", "complete_job"}
ProductionWays == {"check_components", "set_job", "consume", "yield"}
ProductionTables == {"job", "stock"}

LoanOps == {"lend", "edit_loan", "delete_loan", "repay", "unpay"}
LoanWays == {"lend", "edit_loan", "delete_loan", "total_paid", "repay", "unpay", "reopen"}
LoanTables == {"loan", "repaid"}

SupplierPaymentOps == {"pay_supplier", "edit_payment", "delete_payment"}
SupplierPaymentWays == {"number_payment", "pay_supplier", "set_due", "read_due",
    "edit_payment", "delete_payment"}
SupplierPaymentTables == {"due", "payment"}

FundOps == {"send_funds", "receive_funds"}
FundWays == {"fund_number", "fund_increment", "fund_voucher", "fund_status"}
FundTables == {"fund", "fund_sequence", "fund_voucher"}

TillOps == {"open_session", "close_session", "cash"}
TillWays == {"check_counter", "open_session", "close_session", "cash"}
TillTables == {"session", "cash"}

CommissionOps == {"earn_commission", "pay_commissions"}
CommissionWays == {"earn_commission", "pay_commissions"}
CommissionTables == {"signup", "referee_payment"}

JournalOps == {"journal", "edit_journal", "delete_journal", "run_due", "post_recurring",
    "delete_recurring"}
JournalWays == {"take_number", "new_voucher", "edit_journal", "delete_journal",
    "read_template", "advance"}
JournalTables == {"sequence", "number", "next_due"}

LeaveOps == {"review_leave", "cancel_leave"}
LeaveWays == {"take_days", "give_back_days", "set_leave"}
LeaveTables == {"used_days", "leave"}

DepreciationOps == {"depreciate"}
DepreciationWays == {"next_asset", "enter", "accumulate"}
DepreciationTables == {"accumulated", "entry"}

CampaignOps == {"send_campaign", "schedule_campaign", "remove_campaign"}
CampaignWays == {"set_sending", "add_recipients", "dispatch", "record_recipient",
    "schedule", "remove_campaign"}
CampaignTables == {"campaign", "recipient", "messages"}

-----------------------------------------------------------------------------
(* The statements of posting, and the end of a request that is cut short.    *)

Posting == {"post", "rule", "increment", "voucher"}
PostingTables == {"event", "number", "sequence"}

\* No service of the tenant takes a posting back, or posts again.
NoVoid == \A t \in Tx : pc[t] \notin {"void", "delete", "retry"}

\* The vouchers a request posts are of its own document, and of numbers that were free.
PostsItsOwn(t) ==
    \A n \in VoucherNumber : Number(n) \in DOMAIN pending'[t] =>
        \/ Number(n) \in DOMAIN pending[t] /\ pending'[t][Number(n)] = pending[t][Number(n)]
        \/ pending'[t][Number(n)].source = source[t] /\ Sees(t, Number(n)) = NoVoucher

\* A posting statement keeps what the request has written, or fails.
PostingFoot(t) ==
    /\ PostsItsOwn(t)
    /\ pc[t] \in Posting
    /\ Frame(t, PostingTables)
    /\ read' = read /\ committed' = committed
    /\ \/ pc'[t] \in {"rule", "increment", "voucher", "commit"} /\ Kept(t, PostingTables)
       \/ pc'[t] = "number_taken" /\ Dropped(t)

-----------------------------------------------------------------------------
(* Where requests are: what every proof below starts from.                   *)

Routed(t, Ops, Ways) == pc[t] \in Ways => task[t].op \in Ops

\* A request runs the statements of its own operation.
OnItsWay(t) ==
    /\ Routed(t, SaleOps, SaleWays)
    /\ Routed(t, ReturnOps, ReturnWays)
    /\ Routed(t, OrderOps, OrderWays)
    /\ Routed(t, LoyaltyOps, LoyaltyWays)
    /\ Routed(t, ClaimOps, ClaimWays)
    /\ Routed(t, PurchasingOps, PurchasingWays)
    /\ Routed(t, ProductionOps, ProductionWays)
    /\ Routed(t, LoanOps, LoanWays)
    /\ Routed(t, SupplierPaymentOps, SupplierPaymentWays)
    /\ Routed(t, FundOps, FundWays)
    /\ Routed(t, TillOps, TillWays)
    /\ Routed(t, CommissionOps, CommissionWays)
    /\ Routed(t, JournalOps, JournalWays)
    /\ Routed(t, LeaveOps, LeaveWays)
    /\ Routed(t, DepreciationOps, DepreciationWays)
    /\ Routed(t, CampaignOps, CampaignWays)
    /\ NumbersSought(t) /\ LinesSought(t) /\ PaymentFound(t)
    /\ pc[t] \notin {"void", "delete", "retry"}

Base == Shape /\ Locks /\ \A t \in Tx : OnItsWay(t)

\* A step of a service, of posting, or none any more.
Footprint(t) ==
    \/ SaleStep(t) /\ Foot(t, SaleTables, SaleOps, SaleWays)
    \/ ReturnStep(t) /\ Foot(t, ReturnTables, ReturnOps, ReturnWays)
    \/ OrderStep(t) /\ Foot(t, OrderTables, OrderOps, OrderWays) /\ LinesSought(t)'
    \/ LoyaltyStep(t) /\ Foot(t, LoyaltyTables, LoyaltyOps, LoyaltyWays)
    \/ ClaimStep(t) /\ Foot(t, ClaimTables, ClaimOps, ClaimWays)
    \/ PurchasingStep(t) /\ Foot(t, PurchasingTables, PurchasingOps, PurchasingWays) /\ NumbersSought(t)'
    \/ ProductionStep(t) /\ Foot(t, ProductionTables, ProductionOps, ProductionWays)
    \/ LoanStep(t) /\ Foot(t, LoanTables, LoanOps, LoanWays)
    \/ SupplierPaymentStep(t) /\ Foot(t, SupplierPaymentTables, SupplierPaymentOps, SupplierPaymentWays) /\ PaymentFound(t)'
    \/ FundStep(t) /\ Foot(t, FundTables, FundOps, FundWays)
    \/ TillStep(t) /\ Foot(t, TillTables, TillOps, TillWays)
    \/ CommissionStep(t) /\ Foot(t, CommissionTables, CommissionOps, CommissionWays)
    \/ JournalStep(t) /\ Foot(t, JournalTables, JournalOps, JournalWays)
    \/ LeaveStep(t) /\ Foot(t, LeaveTables, LeaveOps, LeaveWays)
    \/ DepreciationStep(t) /\ Foot(t, DepreciationTables, DepreciationOps, DepreciationWays)
    \/ CampaignStep(t) /\ Foot(t, CampaignTables, CampaignOps, CampaignWays)
    \/ PostingFoot(t)
    \/ Running(t) /\ pc'[t] = "failed" /\ Frame(t, {}) /\ Dropped(t)

\* A service: the tables its statements write, its operations, its own statements.
IsService(T, O, W) ==
    \/ T = SaleTables /\ O = SaleOps /\ W = SaleWays
    \/ T = ReturnTables /\ O = ReturnOps /\ W = ReturnWays
    \/ T = OrderTables /\ O = OrderOps /\ W = OrderWays
    \/ T = LoyaltyTables /\ O = LoyaltyOps /\ W = LoyaltyWays
    \/ T = ClaimTables /\ O = ClaimOps /\ W = ClaimWays
    \/ T = PurchasingTables /\ O = PurchasingOps /\ W = PurchasingWays
    \/ T = ProductionTables /\ O = ProductionOps /\ W = ProductionWays
    \/ T = LoanTables /\ O = LoanOps /\ W = LoanWays
    \/ T = SupplierPaymentTables /\ O = SupplierPaymentOps /\ W = SupplierPaymentWays
    \/ T = FundTables /\ O = FundOps /\ W = FundWays
    \/ T = TillTables /\ O = TillOps /\ W = TillWays
    \/ T = CommissionTables /\ O = CommissionOps /\ W = CommissionWays
    \/ T = JournalTables /\ O = JournalOps /\ W = JournalWays
    \/ T = LeaveTables /\ O = LeaveOps /\ W = LeaveWays
    \/ T = DepreciationTables /\ O = DepreciationOps /\ W = DepreciationWays
    \/ T = CampaignTables /\ O = CampaignOps /\ W = CampaignWays

\* A step of posting, of a request cut short, or of a service with none of these statements.
Elsewhere(t, ways) ==
    \/ \E T, O, W : IsService(T, O, W) /\ ways \cap W = {} /\ Foot(t, T, O, W)
    \/ PostingFoot(t)
    \/ pc'[t] = "failed" /\ Frame(t, {}) /\ Dropped(t)

\* Only the services with one of these statements write the tables Own, or have one of Ways.
Owned(ways, Own, Ways) ==
    /\ \A T, O, W : IsService(T, O, W) /\ ways \cap W = {} => T \cap Own = {} /\ W \cap Ways = {}
    /\ Own \cap PostingTables = {} /\ Ways \cap (Posting \cup Done \cup {"idle", "commit"}) = {}

-----------------------------------------------------------------------------
(* Requests that meet, and steps that spare a table.                         *)

\* t writes no row of the tables Own, but may commit or drop what it had written.
Spares(t, Own) ==
    /\ \A r \in Row : r[1] \in Own => committed'[r] \in {committed[r], Sees(t, r)}
    /\ \A r \in DOMAIN pending'[t] :
          r[1] \in Own => r \in DOMAIN pending[t] /\ pending'[t][r] = pending[t][r]

-----------------------------------------------------------------------------
(* Cashier sessions.                                                         *)

TillsAreClean == \A t \in Tx : \A r \in DOMAIN pending[t] : r[1] \notin TillTables

\* What a request has checked of another session still holds as it opens its own.
Checked(t, u) ==
    /\ (pc[t] \in {"check_counter", "open_session"} /\ SameUser(source[t], u))
          => committed[SessionRow(u)] # "OPEN"
    /\ (pc[t] = "open_session" /\ SameCounter(source[t], u))
          => committed[SessionRow(u)] # "OPEN"

OpenedInTurn ==
    \A t \in Tx, u \in Session :
        (source[t] # u /\ Apart({source[t], u})) => Checked(t, u)

TillInv == TillsAreClean /\ OpenedInTurn /\ SessionsAreKeptApart

-----------------------------------------------------------------------------
(* Commissions.                                                              *)

CommissionsAreClean == \A t \in Tx : \A r \in DOMAIN pending[t] : r[1] \notin CommissionTables

PaidBy(x, t) == x \in committed[RefereePayment(t)]

\* Only a request that is done has paid anything.
PaidWhenDone ==
    \A t \in Tx : \A x \in Signup : PaidBy(x, t) => pc[t] = "committed"

ReadOfReferee ==
    \A t \in Tx : pc[t] = "pay_commissions" => read[t] \subseteq SignupsOf(source[t])

\* What is known of signup x, as long as no two requests about it or its referee meet.
CommissionIsInOrder(x) ==
    /\ \A t, u \in Tx : PaidBy(x, t) /\ PaidBy(x, u) => t = u
    /\ committed[SignupRow(x)] = "PAID" <=> \E t \in Tx : PaidBy(x, t)
    /\ \A t \in Tx :
          (pc[t] = "earn_commission" /\ source[t] = x) => committed[SignupRow(x)] = "PENDING"
    /\ \A t \in Tx :
          (pc[t] = "pay_commissions" /\ x \in read[t]) => committed[SignupRow(x)] = "EARNED"

CommissionsAreInOrder ==
    \A x \in Signup : Apart({x, RefereeOf[x]}) => CommissionIsInOrder(x)

CommissionInv == CommissionsAreClean /\ PaidWhenDone /\ ReadOfReferee /\ CommissionsAreInOrder

-----------------------------------------------------------------------------
(* Fund transfers.                                                           *)

\* What transfer t has written so far, and that nobody has its voucher's number.
FundInHand(t) ==
    /\ pc[t] \notin FundWays => \A r \in DOMAIN pending[t] : r[1] \notin FundTables
    /\ pc[t] \in FundWays =>
          \A f \in Fund : FundRow(f) \in DOMAIN pending[t] <=> task[t].op = "send_funds" /\ f = source[t]
    /\ (pc[t] \in FundWays /\ task[t].op = "send_funds") =>
          /\ FundRow(source[t]) \in DOMAIN pending[t]
          /\ pending[t][FundRow(source[t])] = [status |-> "INITIATED", sent |-> 0, arrived |-> 0]
    /\ \A n \in FundNumber :
          FundVoucher(n) \in DOMAIN pending[t] <=> pc[t] = "fund_status" /\ n = read[t]
    /\ pc[t] = "fund_status" =>
          /\ read[t] \in FundNumber
          /\ pending[t][FundVoucher(read[t])] = [fund |-> source[t], kind |-> task[t].op]
          /\ committed[FundVoucher(read[t])] = NoFundVoucher

\* What is known of transfer f, as long as no two requests about it meet.
FundIsInOrder(f) ==
    LET transfer == committed[FundRow(f)] IN
    /\ transfer \in [status : {"none", "IN_TRANSIT", "RECEIVED"},
                     sent : {0} \cup FundNumber, arrived : {0} \cup FundNumber]
    /\ \A n \in FundNumber :
          /\ committed[FundVoucher(n)] = [fund |-> f, kind |-> "send_funds"] <=> n = transfer.sent
          /\ committed[FundVoucher(n)] = [fund |-> f, kind |-> "receive_funds"] <=> n = transfer.arrived
    /\ transfer.status = "RECEIVED" <=> transfer.arrived # 0

\* What request t about it has found still holds.
FundIsAsFound(t, f) ==
    LET transfer == committed[FundRow(f)] IN
    (pc[t] \in FundWays /\ source[t] = f) =>
        IF task[t].op = "send_funds" THEN transfer = NoFund
        ELSE transfer.arrived = 0 /\ transfer.sent # 0

FundsAreInOrder ==
    \A f \in Fund : Apart({f}) => FundIsInOrder(f) /\ \A t \in Tx : FundIsAsFound(t, f)

FundInv == (\A t \in Tx : FundInHand(t)) /\ FundsAreInOrder

-----------------------------------------------------------------------------
(* Serial numbers.                                                           *)

SerialTables == {"serial", "claim"}
SerialWays == {"sell", "serial", "register", "book", "edit_sale", "edit_total", "claim"}

\* Request t is the sale of unit x, and these are its statements once it has x.
SellsUnit(t, x) == task[t].op = "sale" /\ task[t].serial = x
Registered == {"book", "post", "rule", "increment", "voucher", "commit"}

KeepsSerials(t) == \E T : Kept(t, T) /\ "serial" \notin T

\* A step of a request that has no unit to sell, or goes on with it, or drops it.
PassesSerials(t) ==
    \/ task[t].op # "sale" \/ task[t].serial \notin SerialNumber
    \/ KeepsSerials(t) /\ (pc[t] \in Registered <=> pc'[t] \in Registered) /\ pc'[t] # "committed"
    \/ Dropped(t) /\ pc'[t] \notin Registered /\ pc'[t] # "committed"

\* Where request t is, what it has read of its serial number, and what it has written.
SaleInHand(t) ==
    /\ pc[t] \in {"sell", "serial", "register", "book"} => task[t].op = "sale"
    /\ pc[t] \in {"edit_sale", "edit_total"} => task[t].op = "edit_sale"
    /\ pc[t] \in {"sell", "serial"} => "known" \notin DOMAIN read[t]
    /\ \A x \in SerialNumber :
          /\ Serial(x) \in DOMAIN pending[t] <=> SellsUnit(t, x) /\ pc[t] \in Registered
          /\ Serial(x) \in DOMAIN pending[t] => pending[t][Serial(x)].status = "SOLD"
    /\ \A u \in Tx : Claim(u) \notin DOMAIN pending[t]

ClaimsAreMade == \A t \in Tx : pc[t] # "committed" => committed[Claim(t)] = NoClaim

\* What is known of serial number x until it is claimed.
SerialIsInOrder(x) ==
    /\ committed[Serial(x)] = Unsold => SoldWith(x) = {}
    /\ committed[Serial(x)] # Unsold => committed[Serial(x)].status = "SOLD"
    /\ \A t, u \in SoldWith(x) : t = u
    /\ \A t \in Tx :
          /\ Serial(x) \in DOMAIN pending[t] => committed[Serial(x)] = Unsold
          /\ (pc[t] = "register" /\ SellsUnit(t, x)) => read[t].known = FALSE

SerialsAreInOrder == \A x \in SerialNumber : ClaimsOf(x) = {} => SerialIsInOrder(x)

SerialInv == (\A t \in Tx : SaleInHand(t)) /\ ClaimsAreMade /\ SerialsAreInOrder

\* A claim that is there stays about its serial number.
ClaimsStay ==
    \A u \in Tx :
        /\ committed'[Claim(u)].serial = committed[Claim(u)].serial
        /\ committed[Claim(u)] = NoClaim => committed'[Claim(u)] = NoClaim

-----------------------------------------------------------------------------
(* Documents that move stock.                                                *)

StockTables == {"stock", "items", "return", "order", "units", "po", "job"}
StockOps == SaleOps \cup ReturnOps \cup OrderOps \cup PurchasingOps \cup ProductionOps

\* Where a request has not written a row of these yet.
BeforeWriting ==
    {"idle", "sell", "edit_sale", "take_back", "edit_return", "remove_return", "deliver",
     "set_paid", "find_lines", "delete_lines", "replace_lines", "remove_order",
     "receive_goods", "set_po_status", "new_supplier", "count_purchases", "buy",
     "send_back", "send_anew", "remove_send_back", "check_components", "set_job", "consume"}

IsDocument(d) ==
    d \in Sale \cup Return \cup Order \cup PurchaseOrder \cup Purchase \cup PurchaseReturn \cup Job

-----------------------------------------------------------------------------
(* What a request owns: the rows of its document, and its document's place   *)
(* in the row of a shelf.                                                    *)

OnlyItsOwn(t, r, value) ==
    /\ DOMAIN value = Source
    /\ \A d \in Source : d # source[t] => value[d] = committed[r][d]

OwnRows(t, rows) ==
    \A r \in DOMAIN rows :
        (r \in Row /\ r[1] \in StockTables) =>
            IF r[1] = "stock" THEN OnlyItsOwn(t, r, rows[r]) ELSE r[2] = source[t]

Clean(t) == \A r \in DOMAIN pending[t] : r[1] \notin StockTables

CleanBefore(t) ==
    (pc[t] \in BeforeWriting \cup Done \/ task[t].op \notin StockOps) => Clean(t)

Slot(t, p) == Sees(t, Stock(p))[source[t]]
Settling(t, p) == committed[Stock(p)][source[t]]
SeenPlaces(t) == [p \in Shelf |-> Slot(t, p)]

-----------------------------------------------------------------------------
(* What is committed of a document agrees with what it has moved...          *)

\* Places add up to n, and only those of the shelves S count.
AddUp(places, n, S) ==
    /\ n \in Int /\ places \in [Shelf -> Int]
    /\ SumFunction(places) = n
    /\ \A p \in Shelf \ S : places[p] = 0

SoldAsMoved(s) == SoldBy(s) \in Int /\ AddUp(PlacesOf(s), -SoldBy(s), ShelvesOf(s))
ReturnedAsMoved(r) == AddUp(PlacesOf(r), TakenBackBy(r), ShelvesOf(r))
BoughtAsMoved(p) == SentBackBy(p) \in Int /\ MovedBy(p) = SentBackBy(p)
SentBackAsMoved(r) == SentBackBy(r) \in Int /\ MovedBy(r) = -SentBackBy(r)
ReceivedAsMoved(o) ==
    MovedBy(o) = IF committed[OrderStatus(o)] = "RECEIVED" THEN UnitsOrdered[o] ELSE 0
MadeAsMoved(j) ==
    <<committed[Stock(ComponentShelf)][j], MovedBy(j)>> =
        IF committed[JobStatus(j)] = "COMPLETED" THEN <<-Consumed[j], Output[j]>> ELSE <<0, 0>>

Settled(d) ==
    /\ d \in Sale => SoldAsMoved(d)
    /\ d \in Return => ReturnedAsMoved(d)
    /\ d \in PurchaseOrder => ReceivedAsMoved(d)
    /\ d \in Purchase => BoughtAsMoved(d)
    /\ d \in PurchaseReturn => SentBackAsMoved(d)
    /\ d \in Job => MadeAsMoved(d)

\* ...what a request about it has read is still so, until it writes...
AsFound(t) ==
    LET d == source[t] IN
    /\ pc[t] = "sell" => SoldBy(d) = 0
    /\ pc[t] = "edit_sale" => read[t].n = SoldBy(d)
    /\ pc[t] = "take_back" => TakenBackBy(d) = 0
    /\ pc[t] \in {"edit_return", "remove_return"} => read[t].n = TakenBackBy(d)
    /\ pc[t] = "deliver" => OrderOf(d).status # "DELIVERED" /\ task[t].status = "DELIVERED"
    /\ pc[t] = "receive_goods" => amount[t] = UnitsOrdered[d]
    /\ pc[t] = "set_po_status" => task[t].status # "RECEIVED"
    /\ pc[t] \in {"receive_goods", "set_po_status"} => committed[OrderStatus(d)] # "RECEIVED"
    /\ pc[t] \in {"new_supplier", "count_purchases", "buy", "send_back"} => SentBackBy(d) = 0
    /\ pc[t] = "send_anew" => read[t].n = SentBackBy(d)
    /\ pc[t] = "remove_send_back" => read[t] = SentBackBy(d)
    /\ pc[t] \in {"check_components", "set_job"} => read[t] # "COMPLETED"
    /\ pc[t] \in {"check_components", "set_job", "consume"} => committed[JobStatus(d)] # "COMPLETED"

\* ...and what it has written agrees with what it will have moved.
Writing(t) == pc[t] \notin BeforeWriting \cup Done

AsWritten(t) ==
    LET d == source[t]
        op == task[t].op
        slot == Slot(t, Shop(t))
    IN  Writing(t) =>
    /\ op \in SaleOps => SeenItems(t, d).n \in Int /\ AddUp(SeenPlaces(t), -SeenItems(t, d).n, ShelvesOf(d))
    /\ op = "return" => AddUp(SeenPlaces(t), SeenReturn(t), ShelvesOf(d))
    /\ op = "edit_return" => AddUp(SeenPlaces(t), 0, ShelvesOf(d))
    /\ op = "order_status" =>
          \/ slot = Settling(t, Shop(t))
          \/ OrderOf(d).status # "DELIVERED" /\ task[t].status = "DELIVERED"
    /\ op = "po_status" => slot = UnitsOrdered[d]
    /\ op = "purchase" => SeenUnits(t) \in Int /\ slot = SeenUnits(t)
    /\ op = "send_back" =>
          IF pc[t] = "insert_return" THEN slot = -task[t].n
          ELSE SeenUnits(t) \in Int /\ slot = -SeenUnits(t)
    /\ op = "complete_job" => slot = 0 /\ Slot(t, ComponentShelf) = -Consumed[d]

InHand(t) == AsFound(t) /\ AsWritten(t)

\* Which operation a statement is of, where its service has several.
Steered(t) ==
    /\ Routed(t, {"sale"}, {"sell"})
    /\ Routed(t, {"edit_sale"}, {"edit_sale"})
    /\ Routed(t, {"return"}, {"take_back", "refund"})
    /\ Routed(t, {"edit_return"}, {"edit_return", "return_anew"})
    /\ Routed(t, {"remove_return"}, {"remove_return"})
    /\ Routed(t, {"order_status"}, {"deliver", "spend", "set_status"})
    /\ Routed(t, {"po_status"}, {"receive_goods", "set_po_status"})
    /\ Routed(t, {"purchase"}, {"new_supplier", "count_purchases", "buy"})
    /\ Routed(t, {"send_back"}, {"send_back", "insert_return"})
    /\ Routed(t, {"send_back_anew"}, {"send_anew"})
    /\ Routed(t, {"remove_send_back"}, {"remove_send_back"})
    /\ Routed(t, {"complete_job"}, {"consume", "yield"})

Tasks == task \in Workload /\ \A t \in Tx : source[t] = task[t].on /\ source[t] \in Source

StockInv ==
    /\ Tasks
    /\ \A p \in Shelf : DOMAIN committed[Stock(p)] = Source
    /\ \A t \in Tx : Steered(t) /\ OwnRows(t, pending[t]) /\ CleanBefore(t)
    /\ \A d \in Source : Apart({d}) => Settled(d)
    /\ \A t \in Tx : (Running(t) /\ Apart({source[t]})) => InHand(t)

-----------------------------------------------------------------------------
(* What a step about one document leaves of the others.                      *)

OthersKept(t) ==
    /\ \A r \in Row :
          (r[1] \in StockTables \ {"stock"} /\ r[2] # source[t]) => committed'[r] = committed[r]
    /\ \A p \in Shelf :
          /\ DOMAIN committed'[Stock(p)] = Source
          /\ \A d \in Source : d # source[t] => committed'[Stock(p)][d] = committed[Stock(p)][d]

StockStays == \A r \in Row : r[1] \in StockTables => committed'[r] = committed[r]

-----------------------------------------------------------------------------
(* What a step of a service that moves stock has to show.                    *)

\* Orders have a status, and are written only as they are committed.
OrdersInv ==
    \A o \in Order :
        /\ "status" \in DOMAIN committed[OrderRow(o)]
        /\ \A t \in Tx : OrderRow(o) \notin DOMAIN pending[t]

\* Stock leaves for the order of t only as t delivers it.
Delivers(t) ==
    (MovedBy(source[t])' # MovedBy(source[t]) /\ Apart({source[t]})') =>
        OrderOf(source[t]).status # "DELIVERED" /\ OrderOf(source[t])'.status = "DELIVERED"

-----------------------------------------------------------------------------
(* Every step of the tenant.                                                 *)

\* Stock leaves for an order only as it is delivered.
LeavesOnDelivery ==
    \A o \in Order :
        (MovedBy(o)' # MovedBy(o) /\ Apart({o})') =>
            OrderOf(o).status # "DELIVERED" /\ OrderOf(o)'.status = "DELIVERED"

-----------------------------------------------------------------------------
(* Payments to a supplier.                                                   *)

IsPayment(payment) ==
    "type" \in DOMAIN payment /\ "n" \in DOMAIN payment /\ payment.n \in Int

PaymentOf(p) == committed[PaymentRow(p)]
PaidToSupplier == MapThenSumSet(LAMBDA p : DueChange(committed[PaymentRow(p)]), SupplierPayment)

\* A request writes its own payment, and does so just before the due balance.
PaymentsWritten ==
    \A t \in Tx : \A r \in DOMAIN pending[t] :
        r[1] \in SupplierPaymentTables => pc[t] = "set_due" /\ r = PaymentRow(source[t])

PaymentsSteered(t) ==
    /\ Routed(t, {"pay_supplier"}, {"number_payment", "pay_supplier"})
    /\ Routed(t, {"edit_payment"}, {"edit_payment"})
    /\ Routed(t, {"delete_payment"}, {"delete_payment"})

\* The balance t will write, from what it has read: its payment replaced by new.
DueWith(t, new) == committed[Due] - DueChange(PaymentOf(source[t])) + DueChange(new)

DueInHand(t) ==
    LET row == PaymentRow(source[t]) IN
    /\ pc[t] = "read_due" => read[t] = PaymentOf(source[t])
    /\ pc[t] = "number_payment" =>
          PaymentOf(source[t]) = NoPayment /\ read[t] = DueWith(t, task[t])
    /\ pc[t] \in {"pay_supplier", "edit_payment", "delete_payment"} =>
          read[t].due = DueWith(t, task[t])
    /\ pc[t] = "set_due" =>
          /\ row \in DOMAIN pending[t] /\ IsPayment(pending[t][row])
          /\ read[t].due = DueWith(t, pending[t][row])

DueIsInOrder ==
    /\ committed[Due] \in Int
    /\ \A p \in SupplierPayment : IsPayment(PaymentOf(p))
    /\ committed[Due] = OpeningSupplierDue + PaidToSupplier
    /\ \A t \in Tx : DueInHand(t)

SupplierInv ==
    /\ task \in Workload /\ \A t \in Tx : source[t] = task[t].on
    /\ PaymentsWritten
    /\ \A t \in Tx : PaymentsSteered(t)
    /\ Apart(SupplierPayment) => DueIsInOrder

-----------------------------------------------------------------------------
(* Loyalty points.                                                           *)

PointsTables == {"customer"}
Selling == {"sell", "serial", "register", "book"}
Asking == Selling \cup {"move_points", "order_online"}

\* No two requests that take points ran at the same time.
TakenApart == \A pair \in overlapped : ~(pair \subseteq Redeeming)

\* c may become the customer when t commits: only one that takes points lowers them.
NewPoints(t, c) ==
    /\ "points" \in DOMAIN c
    /\ c.points \in Int
    /\ TakenApart => /\ c.points >= 0
                     /\ t \notin Redeeming => c.points >= committed[Customer].points

\* What request t has found the customer to have.
PointsRead(t) ==
    /\ pc[t] \in Selling =>
          /\ amount[t] \in Nat /\ "points" \in DOMAIN read[t] /\ read[t].points \in Int
          /\ TakenApart => read[t].points <= committed[Customer].points
    /\ pc[t] = "move_points" =>
          /\ read[t] \in Int
          /\ TakenApart => committed[Customer].points + read[t] >= 0
    /\ pc[t] = "order_online" =>
          /\ task[t].n - read[t].discount \in Nat /\ read[t].points \in Int
          /\ TakenApart => read[t].points <= committed[Customer].points

PointsInHand(t) ==
    /\ Routed(t, {"sale"}, Selling)
    /\ Routed(t, {"edit_sale"}, {"edit_sale", "edit_total"})
    /\ Routed(t, {"redeem_points", "adjust_points"}, {"move_points"})
    /\ Routed(t, {"order_online"}, {"order_online"})
    /\ PointsRead(t)
    /\ Customer \in DOMAIN pending[t] =>
          pc[t] \notin Asking \cup {"idle"} /\ NewPoints(t, pending[t][Customer])

PointsInv ==
    /\ task \in Workload
    /\ "points" \in DOMAIN committed[Customer] /\ committed[Customer].points \in Int
    /\ TakenApart => committed[Customer].points >= 0
    /\ \A t \in Tx : PointsInHand(t)

-----------------------------------------------------------------------------
(* The lines of an order.                                                    *)

ItemTables == {"order", "lines"}

LinesOfItsOrder(t) == {Lines(source[t], by) : by \in Makers}

\* What a request has written of the orders are lines of its own, that it has
\* deleted just before it replaces them.
LinesDeleted(t) ==
    /\ Routed(t, {"edit_order"}, {"find_lines", "delete_lines", "replace_lines"})
    /\ pc[t] = "delete_lines" => read[t] \subseteq LinesOfItsOrder(t)
    /\ \A r \in DOMAIN pending[t] :
          r[1] \in ItemTables =>
              r \in LinesOfItsOrder(t) /\ pc[t] = "replace_lines" /\ pending[t][r] = 0

\* It has found, and then deleted, all there are.
LinesInHand(t) ==
    source[t] \in Order => \A by \in Makers :
        LET line == Lines(source[t], by) IN
        committed[line] # 0 =>
            /\ pc[t] = "delete_lines" => line \in read[t]
            /\ pc[t] = "replace_lines" => line \in DOMAIN pending[t]

LinesInv ==
    /\ task \in Workload /\ \A t \in Tx : source[t] = task[t].on
    /\ \A t \in Tx : LinesDeleted(t)
    /\ \A o \in Order :
          /\ "total" \in DOMAIN OrderOf(o)
          /\ \A by \in Makers : committed[Lines(o, by)] \in Int
          /\ Apart({o}) => LinesOf(o) = OrderOf(o).total
    /\ \A t \in Tx : Apart({source[t]}) => LinesInHand(t)

-----------------------------------------------------------------------------
(* Loans and their payments.                                                 *)

\* Requests about a loan and its payments came one after the other, and none edited
\* what was lent.
OneByOne(l) == Apart({l} \cup PaymentsOf(l)) /\ ~Edited(l, {"edit_loan"})

Unpaying(l) ==
    {t \in Tx : task[t].op = "unpay" /\ LoanFor(t) = l /\ pc[t] \in {"reopen", "failed"}}

IsLoan(loan) ==
    /\ "status" \in DOMAIN loan /\ "principal" \in DOMAIN loan
    /\ loan # NoLoan => loan.principal \in Nat \ {0}

LoanInOrder(l) ==
    LET loan == committed[LoanRow(l)] IN
    /\ IsLoan(loan)
    /\ \A p \in PaymentsOf(l) :
          committed[Repaid(p)] \in Nat /\ (loan = NoLoan => committed[Repaid(p)] = 0)
    /\ loan # NoLoan =>
          /\ RepaidOf(l) <= loan.principal
          /\ Unpaying(l) = {} => (loan.status = "CLOSED" <=> RepaidOf(l) = loan.principal)

\* A request that posts what it has lent or repaid.
PostsLoan(t, op) == task[t].op = op /\ pc[t] \in Posting \cup {"commit"}

\* Such a request has written its own payment, and perhaps the loan.
LoansWritten(t) ==
    \A r \in DOMAIN pending[t] :
        r[1] \in LoanTables =>
            /\ PostsLoan(t, "lend") \/ PostsLoan(t, "repay")
            /\ r = LoanRow(LoanFor(t)) \/ (r = Repaid(source[t]) /\ task[t].op = "repay")

LoanSteered(t) ==
    /\ Routed(t, {"lend"}, {"lend"})
    /\ Routed(t, {"repay"}, {"total_paid", "repay"})
    /\ Routed(t, {"unpay"}, {"unpay", "reopen"})
    /\ Routed(t, {"edit_loan"}, {"edit_loan"})
    /\ Routed(t, {"delete_loan"}, {"delete_loan"})
    /\ task[t].op = "repay" /\ pc[t] \notin Done => committed[Repaid(source[t])] = 0

\* What t repays fits into the loan; and it closes it, or does not.
Fits(t) ==
    LET loan == committed[LoanRow(LoanFor(t))] IN
    loan # NoLoan /\ RepaidOf(LoanFor(t)) + task[t].n <= loan.principal
Closes(t) ==
    LET loan == committed[LoanRow(LoanFor(t))] IN
    RepaidOf(LoanFor(t)) + task[t].n >= loan.principal /\ loan.status # "CLOSED"

LoanInHand(t) ==
    LET row == LoanRow(LoanFor(t)) IN
    /\ pc[t] = "lend" => committed[row] = NoLoan
    /\ pc[t] = "total_paid" => committed[row] # NoLoan /\ read[t] = committed[row]
    /\ pc[t] = "repay" => Fits(t) /\ read[t] = Closes(t)
    /\ PostsLoan(t, "lend") =>
          committed[row] = NoLoan /\ row \in DOMAIN pending[t] /\ pending[t][row] = NewLoan(task[t].n)
    /\ PostsLoan(t, "repay") =>
          /\ Fits(t)
          /\ Repaid(source[t]) \in DOMAIN pending[t] /\ pending[t][Repaid(source[t])] = task[t].n
          /\ row \in DOMAIN pending[t] <=> Closes(t)
          /\ row \in DOMAIN pending[t] =>
                pending[t][row] = [committed[row] EXCEPT !.status = "CLOSED"]
    /\ pc[t] = "reopen" => (committed[row] # NoLoan => RepaidOf(LoanFor(t)) < committed[row].principal)

LoanInv ==
    /\ task \in Workload /\ \A t \in Tx : source[t] = task[t].on
    /\ \A t \in Tx : LoansWritten(t) /\ LoanSteered(t)
    /\ \A l \in Loan : OneByOne(l) => LoanInOrder(l)
    /\ \A t \in Tx : (task[t].op \in LoanOps /\ OneByOne(LoanFor(t))) => LoanInHand(t)

-----------------------------------------------------------------------------
(* Recurring vouchers.                                                       *)

DueTables == {"number", "next_due"}
DueOps == {"run_due", "post_recurring", "delete_recurring"}
DueWays == {"read_template", "take_number", "new_voucher", "advance"}

PostedFor(v) == {n \in VoucherNumber : committed[Number(n)].source = v}
Posted(v) == Cardinality(PostedFor(v))
Between(v) == {t \in Tx : source[t] = v /\ pc[t] \in {"advance", "failed"}}

\* What t will commit is no voucher of a recurring one, nor is what it replaces.
NumbersHeld(t) ==
    /\ \A n \in VoucherNumber : Number(n) \in DOMAIN pending[t] =>
          pending[t][Number(n)].source \notin Recurring /\ committed[Number(n)].source \notin Recurring
    /\ \A v \in Recurring : NextDue(v) \notin DOMAIN pending[t]

\* A request about a recurring voucher runs its own statements.
DatesSteered(t) ==
    /\ source[t] \in Recurring => pc[t] \in {"idle"} \cup DueWays \cup Done
    /\ pc[t] \in {"read_template", "advance"} => source[t] \in Recurring

\* The date it has read is still the next; and before it moves it, its voucher is there.
DateInHand(t) ==
    LET due == committed[NextDue(source[t])] IN
    /\ pc[t] \in {"take_number", "new_voucher", "advance"} => due # Deleted /\ read[t].due = due
    /\ pc[t] = "advance" => Posted(source[t]) >= due

DatesInOrder(v) ==
    LET due == committed[NextDue(v)] IN
    /\ due \in Nat
    /\ due # Deleted => Posted(v) - (due - 1) \in 0 .. Cardinality(Between(v))

DatesInv ==
    /\ task \in Workload /\ \A t \in Tx : source[t] = task[t].on
    /\ \A t \in Tx : NumbersHeld(t) /\ DatesSteered(t)
    /\ \A v \in Recurring : Apart({v}) => DatesInOrder(v)
    /\ \A t \in Tx : (source[t] \in Recurring /\ Apart({source[t]})) => DateInHand(t)
=============================================================================
