SPECIFICATION Spec
CONSTANTS
    t1 = t1
    t2 = t2
    t3 = t3
    cash = cash
    bkash = bkash
    card = card
    rahim = rahim
    karim = karim
    none = none
    Tx <- Three
    NoTx = none
    Source <- MCSource
    CustomerOf <- TwoCustomers
    MaxNumber = 4
    Row <- MCRow
    Amount <- MCAmount
    OpeningDue = 5
SYMMETRY Symmetry
INVARIANTS
    VouchersMatchPayments
    DueIsExplained
CHECK_DEADLOCK FALSE
