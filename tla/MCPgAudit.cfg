CONSTANTS
    w1 = w1
    w2 = w2
    w3 = w3
    t1 = t1
    t2 = t2
    sorted = sorted
    unsorted = unsorted
    c1 = c1
    c2 = c2
    None = None
    Writers = {w1, w2, w3}
    Tenants = {t1, t2}
    TenantOf <- MCTenantOf
    Kinds = {"", "ingest"}
    Payloads = {sorted, unsorted}
    Times = {0}
    JsonbOf <- MCJsonbOf
    NsPerMicro = 2
    MaxRows = 3
    MaxLate = 1
    WaitRows = 2
    Callers = {c1, c2}
    HomeOf <- MCHomeOf
SPECIFICATION MCSpec
INVARIANTS
    TypeOK
    OneChain
    CacheIsPrefix
    AckedDurable
    OneTenant
    VerifyExact
PROPERTIES
    StuckUntilRestart
    ImplementsAuditLog
    CallsReturn
