\* Two analysts, two listeners holding the same decisions, and the agent.
CONSTANTS
    Txns       = {t1}
    CaseIds    = {c1, c2}
    Listeners  = {l1, l2}
    Analysts   = {a1, a2}
    AgentCalls = {g1}
    NoRow      = NoRow
SPECIFICATION FairSpec
INVARIANTS AuditMatchesCases
PROPERTIES ImplementsLifecycle VerdictStands PatchEnds
