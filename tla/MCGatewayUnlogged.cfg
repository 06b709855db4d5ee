CONSTANTS
    e1 = e1
    e2 = e2
    w1 = w1
    w2 = w2
    NoEvent = NoEvent
    Foreign = Foreign
    Events = {e1}
    Workers = {w1, w2}
    Ops = {"curated", "suggest", "suggest-precedents", "resolve"}
    OperatorActions = {"accept"}
    MaxAlerts = 1
    MaxRecent = 2
    DimsOf <- MCDimsOf
    Elevated = {}
    Statuses = {"pass"}
    MaxPrecedents = 1
    Digests <- MCDigests
    DigestDrifts <- MCDigestDrifts
    StoreMayFail = TRUE
    Mixes <- MCOneEvent
SPECIFICATION MCSpec
INVARIANT LoggedBeforeSurfaced
