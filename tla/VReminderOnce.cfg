SPECIFICATION Spec
CONSTANTS
    sweep = sweep
    operational = operational
    n1 = n1
    e1 = e1
    Workers = {sweep, operational}
    Sweepers = {sweep}
    Native = {n1}
    Reminders = {e1}
    MaxAttempts <- ThreeAttempts
    MaxToken = 1
    MaxJobs = 1
INVARIANTS
    ReminderOnce
\* The bounded jobs, tokens and attempts can all be used up.
CHECK_DEADLOCK FALSE
