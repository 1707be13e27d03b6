SPECIFICATION Spec
CONSTANTS
    r1 = r1
    r2 = r2
    r3 = r3
    h = h
    Requests = {r1, r2}
    Previews = {r2}
    Checks = {}
    Concurrency = 1
    MaxQueued = 1
    PoolMax = 2
    Events = {"pause", "lose"}
    Revocable = {r1}
    Alone = {}
INVARIANTS
    TypeOK
    Truthful
PROPERTIES
    ImplementsOperations
CHECK_DEADLOCK FALSE
