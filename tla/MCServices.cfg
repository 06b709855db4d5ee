CONSTANTS
    Member = {r1, r2}
    Nobody = Nobody
    Messages = 3
    MaxStops = 1
    MaxTimeouts = 1
    MaxInterrupted = 1
    Kinds = {"orchestrator", "audit-memory", "audit-postgres", "bridge"}
    Contents <- MCContents
    MaxForeign = 1
SPECIFICATION Spec
INVARIANTS
    TypeOK
    LossAccounted
    Traceable
PROPERTIES
    ImplementsDelivery
    Drains
