SPECIFICATION LiveSpec
CONSTANTS
    r1 = r1
    r2 = r2
    r3 = r3
    h = h
    Requests = {r1, r2}
    Previews = {}
    Checks = {h}
    Concurrency = 1
    MaxQueued = 1
    PoolMax = 2
    Events = {"end"}
    Revocable = {}
    Alone = {r2}
INVARIANTS
    CleanPool
PROPERTIES
    Answered
CHECK_DEADLOCK FALSE
