SPECIFICATION FairSpec
CONSTANTS
    s1 = s1
    vta = vta
    med = med
    Sessions = {s1}
    Targets = {vta, med}
    SessionOf <- OneStack
    FullStack = {}
    Platform = {}
    Images = {v1, v2}
    First = v1
    None = None
    Batches = {b1}
    Requests = {r1}
    Concurrency = 1
    MaxRestarts = 1
    MaxFaults = 0
    MaxMisreads = 1
PROPERTIES
    RollbackIsOneWay
    InFlightEnds
CHECK_DEADLOCK FALSE
