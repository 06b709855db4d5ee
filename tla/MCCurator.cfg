CONSTANTS
    Event <- MCEvent
    SourceOf <- MCSource
    TimeOf <- MCTime
    RoundsDown <- MCRoundsDown
    Malformed = "malformed"
    Flags <- MCFlags
    MaxTopic = 3
    SoftLimit = 1
SPECIFICATION Spec
INVARIANTS
    TypeOK
    Covers
    Fresh
    ShownOnce
    SuppressedWasShown
PROPERTY
    Drains
