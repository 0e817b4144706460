\* A flagged record and copies of it, an allowed and an unreadable one; one crash or refused
\* acknowledgement; a queue of one place.  Without symmetry, for liveness.
CONSTANTS
    Txns        = {t1}
    Allowed     = {a1}
    Unreadable  = {u1}
    CaseIds     = {c1, c2}
    Listener    = listener
    Caller      = caller
    NoRow       = NoRow
    Nobody      = Nobody
    MaxQueued   = 1
    MaxAttempts = 1
    MaxPoll     = 2
    PerUser     = 1
    MaxLog      = 2
    MaxSetbacks = 1
SPECIFICATION FairSpec
INVARIANTS CommittedRecordsHandled TicksLinkTheirCase
PROPERTIES FlaggedGetsCase
CHECK_DEADLOCK FALSE
