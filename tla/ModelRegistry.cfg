\* Two trainings on three windows, two starts of two builds, a reload by hand and one call.
CONSTANTS
    TestPercent      = 50
    MinPositives     = 2
    MinTestPositives = 1
    MinTestSpan      = 2
    Thresholds       = {5, 50, 60, 95}
    NoThreshold      = NoThreshold
    Builds           <- MCBuilds
    Exclusions       = {{}, {"amount"}}
    Windows          <- MCWindows
    Shipped          = {9}
    Versions         = {9, 10}
    NameOrder        <- MCNameOrder
    Reloads          = {r1, r2}
    Scores           = {c1}
    MaxStarts        = 2
    MaxCrashes       = 1
    NoFile           = NoFile
    Torn             = Torn
SPECIFICATION Spec
INVARIANTS ScoredByItsModel RegisteredHonestly
PROPERTY StartsOnNewest
SYMMETRY Symmetry
CHECK_DEADLOCK FALSE
