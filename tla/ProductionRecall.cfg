\* A ring and base traffic by the runner, a burst by a scenario, two partitions.
CONSTANTS
    Injectors       = {"RING"}
    Kinds           = {"VELOCITY"}
    Accounts        = {3}
    FarTxns         = {1}
    BurstTxns       = {1}
    Spread          = 1
    BaseGaps        = {3}
    EpisodeGaps     = {1}
    MaxBehind       = 1
    CountsHops      = {TRUE, FALSE}
    MaxEvents       = 4
    MaxEpisodes     = 1
    MaxClock        = 5
    Partitions      = {0, 1}
    NoLabel         = NoLabel
    Topics          = {"decisions", "labels"}
    TopicPartitions = {0, 1}
    NoTopic         = NoTopic
    Since           = 3
    Until           = 1000
    MaxCommits      = 1
    Margin          = 1
    RingMax         = 2
SPECIFICATION MCSpec
VIEW MCView
INVARIANTS PublishedOnTime ReadingComplete FraudIsNotLegitimate RingsAreWhole
CHECK_DEADLOCK FALSE
