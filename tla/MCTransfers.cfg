SPECIFICATION Spec
CONSTANTS
    t1 = t1
    t2 = t2
    t3 = t3
    rice = rice
    oil = oil
    none = none
    Tx <- Three
    NoTx = none
    Product <- MCProduct
    Row <- MCRow
    Sent <- MCSent
    Opening <- MCOpening
    Receipt <- MCReceipt
SYMMETRY Symmetry
INVARIANTS
    DeductionsAreWhole
    ReceivedIsComplete
    DeductedOnceUnlessRaced
    ReceivedAtMostSent
CHECK_DEADLOCK FALSE
