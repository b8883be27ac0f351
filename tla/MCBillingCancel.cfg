SPECIFICATION FairSpec
CONSTANTS
    first = first
    second = second
    h1 = h1
    h2 = h2
    w1 = w1
    w2 = w2
    Attempt <- OneAttempt
    Handler <- OneHandler
    Worker <- OneWorker
    Period = 2
    Grace = 1
    MaxNotices = 2
    MaxRequests = 1
    MaxCrashes = 0
PROPERTIES
    CancellationTakesEffect
CHECK_DEADLOCK FALSE
