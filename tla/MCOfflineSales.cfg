SPECIFICATION Spec
CONSTANTS
    k1 = k1
    k2 = k2
    none = none
    Checkout <- TwoCheckouts
    NoCheckout = none
INVARIANTS
    NothingToldIsLost
    SoldOnce
PROPERTY
    SyncEnds
