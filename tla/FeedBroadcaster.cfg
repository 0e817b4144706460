\* One dashboard, four publishes of three ticks, so one of them is a redelivery.
\* Without symmetry, for liveness.
CONSTANTS
    Flagged      = {f1}
    Allows       = {a1, a2}
    Sessions     = {s1}
    MaxQueued    = 2
    MaxHistory   = 1
    RecentIds    = 3
    NoTick       = NoTick
    MaxPublishes = 4
SPECIFICATION FairSpec
INVARIANTS QueueBounded NoGap
PROPERTIES QueuedFlaggedKept TickLeavesQueue
CHECK_DEADLOCK FALSE
