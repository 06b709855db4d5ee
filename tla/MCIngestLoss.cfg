CONSTANTS
    Kinds = {"postgres"}
    LogOf <- MCLogOf
    Tables = {"orders"}
    Capacity = 2
    Lead = 0
    MaxStops = 1
    Heartbeat = Heartbeat
SPECIFICATION Spec
INVARIANT AtLeastOnce
