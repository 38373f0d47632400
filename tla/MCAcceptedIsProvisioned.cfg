SPECIFICATION FairSpec
CONSTANTS
    Sessions = {s1}
    FullStack = {s1}
    Keys = {k1}
    NoKey = NoKey
    Replicas = {}
    Recoveries = {g1, g2}
    MaxRequests = 0
    MaxFaults = 2
PROPERTIES
    AcceptedIsProvisioned
CHECK_DEADLOCK FALSE
