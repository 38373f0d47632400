SPECIFICATION FairSpec
CONSTANTS
    Sessions = {s1}
    FullStack = {}
    Keys = {k1}
    NoKey = NoKey
    Replicas = {r1, r2}
    Recoveries = {g1}
    MaxRequests = 1
    MaxFaults = 1
PROPERTIES
    GrantSettles
CHECK_DEADLOCK FALSE
