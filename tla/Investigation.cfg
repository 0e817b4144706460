\* Two tool calls, two attempts, drafts of up to two findings that cite anything.
CONSTANTS
    MaxToolCalls      = 2
    MaxVerifyAttempts = 2
    RecursionLimit    = 12
    n1                = n1
    Numbers           <- MCNumbers
    NoReport          = NoReport
    Citations         <- MCCitations
    MaxFindings       = 2
    MaxAsked          = 3
SPECIFICATION RunFairSpec
INVARIANTS BudgetKept PublishedClaimsHold PublishedHonestly
PROPERTIES InvestigationEnds
CHECK_DEADLOCK FALSE
