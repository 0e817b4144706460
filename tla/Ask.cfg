\* Three requests of two clients; a minute of two ticks in which a client may ask once, a day
\* of four; one answer is kept.
CONSTANTS
    Callers       = {r1, r2, r3}
    Clients       = {x, y}
    Everyone      = Everyone
    Spans         = {"minute", "day"}
    IpLimit       <- MCIpLimit
    GlobalLimit   <- MCGlobalLimit
    Seconds       <- MCSeconds
    PerSecond     = 2
    MaxStall      = 1
    MaxClock      = 3
    NotRead       = NotRead
    Questions     = {"normal", "why"}
    HistoryTool   = "history"
    Routes        <- MCRoutes
    Cases         <- MCCases
    Outcomes      <- MCOutcomes
    Replies       <- MCReplies
    Payloads      <- MCPayloads
    MaxNesting    = 3
    CallableTools = {"history", "windows"}
    AskMaxTools   = 2
    MaxSentences  = 2
    Ttl           = 1
    CacheSize     = 1
    NoText        = NoText
SPECIFICATION AskSpec
INVARIANTS RateHolds RetryAfterIsEnough AnswersHold
SYMMETRY Symmetry
CHECK_DEADLOCK FALSE
