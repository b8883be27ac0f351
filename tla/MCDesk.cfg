SPECIFICATION Spec
CONSTANTS
    t1 = t1
    t2 = t2
    t3 = t3
    none = none
    s1 = s1
    s2 = s2
    s3 = s3
    r1 = r1
    r2 = r2
    r3 = r3
    o1 = o1
    here = here
    there = there
    away = away
    x1 = x1
    noSerial = noSerial
    Tx <- MCTx
    NoTx = none
    Row <- TenantRows
    Source <- MCSource
    MaxNumber = 3
    Workload <- MCWorkload
    Shelf = {here, there, away}
    Opening <- MCOpening
    ShelfOf <- MCShelfOf
    ShelfOnEdit <- MCShelfOnEdit
    EarnRate = 1
    RedeemRate = 2
    MinRedeem = 0
    Existing <- MCExisting
    NoSerial = noSerial
    Today = 1
    OpeningSupplierDue = 2
    ComponentShelf = here
    OpeningSpent = 3
    OpeningPoints = 1
    Sale = {s1, s2, s3}
    SaleOf <- MCSaleOf
    SerialNumber = {x1}
    Order = {o1}
    OrderedUnits <- MCOrdered
    PurchaseOrder = {}
    UnitsOrdered <- MCNone
    Purchase = {}
    PurchaseOf <- MCNone
    AtStart <- MCNone
    MaxDocuments = 0
    Job = {}
    Consumed <- MCNone
    Output <- MCNone
    Loan = {}
    LoanOf <- MCNone
    Principal <- MCNone
    SupplierPayment = {}
    Fund = {}
    MaxFunds = 0
    Session = {}
    SessionAt <- MCNone
    RefereeOf <- MCNone
    Journal = {}
    Recurring = {}
    LeaveDays <- MCNone
    Month = {}
    Terms <- MCNone
    Campaign = {}
    Audience = {}
INVARIANTS
    PointsAreCovered
    StockFollowsDocuments
    ReturnedAtMostSold
    SpendingIsExplained
    OrderIsOneEdit
    SerialsAreSoldOnce
PROPERTY
    StockLeavesOnDelivery
CHECK_DEADLOCK FALSE
