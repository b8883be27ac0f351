SPECIFICATION ConnectedSpec
CONSTANTS
    k1 = k1
    k2 = k2
    none = none
    Checkout <- OneCheckout
    NoCheckout = none
PROPERTY
    QueuedSalesArrive
