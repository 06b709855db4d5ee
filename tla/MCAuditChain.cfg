CONSTANTS
    Kinds = {"", "ingest", "decision"}
    Payloads = {p1, p2}
    Times = {0, 1}
    MaxRecords = 3
SPECIFICATION MCSpec
INVARIANTS
    TypeOK
    Intact
    EditDetected
    RemovalDetected
PROPERTY ImplementsAuditLog
CHECK_DEADLOCK FALSE
