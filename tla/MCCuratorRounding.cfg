CONSTANTS
    Event <- FiveEvent
    SourceOf <- FiveSource
    TimeOf <- FiveTime
    RoundsDown <- MCRoundsDown
    Malformed = "malformed"
    Flags <- FiveFlags
    MaxTopic = 5
    SoftLimit = 10
SPECIFICATION Spec
INVARIANT Fresh
