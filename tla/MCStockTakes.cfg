SPECIFICATION Spec
CONSTANTS
    t1 = t1
    t2 = t2
    rice = rice
    oil = oil
    none = none
    Tx <- Two
    NoTx = none
    Order <- MCOrder
    Row <- MCRow
    Opening <- MCOpening
    Threshold = 0
    Requested <- Accepted
    MaxLost = 1
    MaxDelivered = 1
    MaxAdjusted = 0
SYMMETRY Symmetry
INVARIANTS
    BooksExplainShelves
    PostedAsCounted
CHECK_DEADLOCK FALSE
