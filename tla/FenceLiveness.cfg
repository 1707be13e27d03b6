SPECIFICATION FairSpec
CONSTANTS
    p1 = p1
    p2 = p2
    r1 = r1
    r2 = r2
    Requests = {r1}
    Writers = {w1}
    Processes = {p1}
    Owner <- OneRequest
    AppCategories = {"identity"}
    MaxGeneration = 1
PROPERTIES
    RestoreReturns
    WriterAnswered
