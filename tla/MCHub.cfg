CONSTANTS
    c1 = c1
    c2 = c2
    p1 = p1
    p2 = p2
    None = None
    Conns = {c1, c2}
    Broadcasters = {p1, p2}
SPECIFICATION FairSpec
INVARIANTS
    TypeOK
    NoWriteAfterClose
    NoLeak
PROPERTIES
    GoneIsClosed
    BroadcastReturns
