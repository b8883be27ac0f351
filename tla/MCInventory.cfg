SPECIFICATION FairSpec
CONSTANTS
    t1 = t1
    t2 = t2
    t3 = t3
    rice = rice
    oil = oil
    none = none
    Tx <- MCTx
    Row <- MCRow
    NoTx = none
    Document <- MCDocument
    Opening <- MCOpening
INVARIANTS
    TypeOK
    LedgerExplainsStock
    NeverOversold
PROPERTIES
    HistoryIsAppendOnly
    ImplementsLedger
    EveryRequestEnds
CHECK_DEADLOCK FALSE
