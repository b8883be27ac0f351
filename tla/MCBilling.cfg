SPECIFICATION Spec
CONSTANTS
    first = first
    second = second
    h1 = h1
    h2 = h2
    w1 = w1
    w2 = w2
    Attempt <- MCAttempt
    Handler <- TwoHandlers
    Worker <- TwoWorkers
    Period = 2
    Grace = 1
    MaxNotices = 2
    MaxRequests = 1
    MaxCrashes = 1
SYMMETRY Symmetry
INVARIANTS
    ActivePlanWasPaid
    RemindedOnceADay
    ActivatedOnce
PROPERTIES
    DunningSparesThePaid
CHECK_DEADLOCK FALSE
