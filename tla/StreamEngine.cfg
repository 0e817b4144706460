\* Three transactions, one that makes a processor throw and a poisoned record in a log of three, three points in time, one crash: a bucket of two
\* instants, a transaction late by one (the grace period) and by more than the store keeps.
CONSTANTS
    Ids        <- MCIds
    t1         = t1
    t2         = t2
    t3         = t3
    t4         = t4
    Fatal      <- MCFatal
    Poison     = Poison
    Ttl        = 1
    EvictEvery = 1
    Place      <- MCPlace
    BucketSize = 2
    Window     = 2
    Grace      = 1
    MinGap     = 1
    TravelTime = 2
    Times      = {1, 2, 4}
    MaxRaw     = 3
    MaxCrashes = 1
SPECIFICATION FairSpec
INVARIANTS StateMatchesOutputs
PROPERTIES ImplementsExactlyOnce StallsOnlyOnFatal
CONSTRAINT FirstIsT1
CHECK_DEADLOCK FALSE
