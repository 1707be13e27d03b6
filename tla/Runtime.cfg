SPECIFICATION FairSpec
CONSTANTS
    r1 = r1
    r2 = r2
    r3 = r3
    Requests = {r1, r2, r3}
    Checks = {h1, h2}
    MaxOutstanding = 2
    Profile <- MCProfile
INVARIANTS
    TypeOK
    OneGroup
    OwnProfile
    NobodyForgotten
PROPERTIES
    ReapedBeforeReported
    ImplementsService
    Answered
CHECK_DEADLOCK FALSE
