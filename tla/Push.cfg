SPECIFICATION Spec
CONSTANTS
    sweep = sweep
    operational = operational
    n1 = n1
    e1 = e1
    Workers = {sweep, operational}
    Sweepers = {sweep}
    Native = {n1}
    Reminders = {e1}
    MaxAttempts <- ThreeNative
    MaxToken = 2
    MaxJobs = 1
INVARIANTS
    TypeOK
    NativeOnce
    RecordsHold
PROPERTIES
    RevokedByOwn
    HandsOverOnce
\* The bounded jobs, tokens and attempts can all be used up.
CHECK_DEADLOCK FALSE
