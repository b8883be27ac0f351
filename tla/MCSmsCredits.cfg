SPECIFICATION Spec
CONSTANTS
    r1 = r1
    r2 = r2
    r3 = r3
    r4 = r4
    Request <- Four
    Segments <- MCSegments
    Package <- MCPackage
    Opening = 2
    MaxCrashes = 1
SYMMETRY Symmetry
INVARIANTS
    LedgerExplainsBalance
    SentWasPaid
CHECK_DEADLOCK FALSE
