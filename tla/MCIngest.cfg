CONSTANTS
    Kinds = {"mysql", "mysql-from", "postgres"}
    LogOf <- MCLogOf
    Tables = {"orders"}
    Capacity = 1
    Lead = 2
    MaxStops = 1
    Heartbeat = Heartbeat
SPECIFICATION Spec
INVARIANTS
    TypeOK
    LossBounded
PROPERTIES
    InOrder
    Delivers
