SPECIFICATION Spec
CONSTANTS
    a1 = a1
    p1 = p1
    typed = typed
    first = first
    Ops = {a1, p1}
    Assigned = {a1}
    Typed = {typed}
    First = first
    MaxAttempts = 2
    MaxFailures = 1
    MaxEpoch = 2
    MaxPath = 32
INVARIANTS
    FrozenWorkKeepsSender
\* The bounded operations, codes and assignments can all be used up.
CHECK_DEADLOCK FALSE
