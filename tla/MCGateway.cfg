CONSTANTS
    e1 = e1
    e2 = e2
    w1 = w1
    w2 = w2
    NoEvent = NoEvent
    Foreign = Foreign
    Events = {e1, e2}
    Workers = {w1, w2}
    Ops = {"post", "raw", "decision", "digest", "export", "health", "curated", "suggest", "suggest-precedents", "resolve"}
    OperatorActions = {"accept"}
    MaxAlerts = 1
    MaxRecent = 1
    DimsOf <- MCDimsOf
    Elevated = {e1}
    Statuses = {"pass", "rejected_output"}
    MaxPrecedents = 1
    Digests <- MCDigests
    DigestDrifts <- MCDigestDrifts
    StoreMayFail = TRUE
    Mixes <- MCMixes
SPECIFICATION MCSpec
SYMMETRY Symmetry
INVARIANTS
    TypeOK
    SuggestionIsItsRecord
    CitedWereResolved
    RecentIsLogged
    ExportCoherent
    CriticalIsAlerted
