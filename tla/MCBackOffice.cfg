SPECIFICATION Spec
CONSTANTS
    t1 = t1
    t2 = t2
    t3 = t3
    none = none
    here = here
    there = there
    s1 = s1
    noSerial = noSerial
    po1 = po1
    b1 = b1
    b2 = b2
    b3 = b3
    b4 = b4
    q1 = q1
    q2 = q2
    q3 = q3
    j1 = j1
    l1 = l1
    l2 = l2
    p1 = p1
    p2 = p2
    y1 = y1
    y2 = y2
    y3 = y3
    f1 = f1
    f2 = f2
    c1 = c1
    c2 = c2
    c3 = c3
    rf = rf
    g1 = g1
    g2 = g2
    m1 = m1
    v1 = v1
    d1 = d1
    d2 = d2
    a1 = a1
    a2 = a2
    x1 = x1
    x2 = x2
    k1 = k1
    u1 = u1
    u2 = u2
    Tx <- MCTx
    NoTx = none
    Row <- TenantRows
    Source <- MCSource
    MaxNumber = 3
    Workload <- MCWorkload
    Shelf = {here, there}
    Opening <- MCOpening
    ShelfOf <- MCShelfOf
    ShelfOnEdit <- MCShelfOf
    EarnRate = 1
    RedeemRate = 2
    MinRedeem = 0
    Existing <- MCExisting
    NoSerial = noSerial
    Today = 1
    OpeningSupplierDue = 2
    ComponentShelf = here
    OpeningSpent = 0
    OpeningPoints = 0
    Sale = {s1}
    SaleOf <- MCNone
    SerialNumber = {}
    Order = {}
    OrderedUnits <- MCNone
    PurchaseOrder = {po1}
    UnitsOrdered <- MCUnitsOrdered
    Purchase = {b1, b2, b3, b4}
    PurchaseOf <- MCPurchaseOf
    AtStart <- MCAtStart
    MaxDocuments = 4
    Job = {j1}
    Consumed <- MCUnit
    Output <- MCUnit
    Loan = {l1, l2}
    LoanOf <- MCLoanOf
    Principal <- MCPrincipal
    SupplierPayment = {y1, y2, y3}
    Fund = {f1, f2}
    MaxFunds = 3
    Session = {c1, c2, c3}
    SessionAt <- MCSessionAt
    RefereeOf <- MCRefereeOf
    Journal = {m1}
    Recurring = {v1}
    LeaveDays <- MCLeaveDays
    Month = {d1, d2}
    Terms <- MCTerms
    Campaign = {k1}
    Audience = {u1, u2}
INVARIANTS
    GoodsFollowDocuments
    LoansAreRepaid
    SupplierDueIsExplained
    FundsArriveOnce
    SessionsAreKeptApart
    CommissionsArePaidOnce
    DuesArePostedOnce
    CountsAgree
CHECK_DEADLOCK FALSE
