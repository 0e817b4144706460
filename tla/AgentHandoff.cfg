\* Two cases compete for one place of the hand-off queue, two attempts each; a pool of two
\* threads that the investigations can fill; one restart.  Without symmetry, for liveness.
CONSTANTS
    CaseIds       = {c1, c2}
    MaxQueued     = 1
    MaxAttempts   = 2
    Nobody        = Nobody
    Threads       = 2
    MaxConcurrent = 1
    call          = call
    Blocking      <- MCBlocking
    MaxRestarts   = 1
SPECIFICATION FairServerSpec
INVARIANTS EveryCaseAccountedFor HandoffAgrees
PROPERTIES EveryCaseSettled AcceptedIsServed
CHECK_DEADLOCK FALSE
