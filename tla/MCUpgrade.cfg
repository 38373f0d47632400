SPECIFICATION Spec
CONSTANTS
    s1 = s1
    vta = vta
    med = med
    Sessions = {s1}
    Targets = {vta, med}
    SessionOf <- OneStack
    FullStack = {s1}
    Platform = {}
    Images = {v1, v2}
    First = v1
    None = None
    Batches = {b1}
    Requests = {r1}
    Concurrency = 1
    MaxRestarts = 0
    MaxFaults = 1
    MaxMisreads = 0
SYMMETRY Components
INVARIANTS
    TypeOK
    CompletedIsDrained
    RecordedIsDeployed
PROPERTIES
    StopsFeeding
CHECK_DEADLOCK FALSE
