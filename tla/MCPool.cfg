SPECIFICATION FairSpec
CONSTANTS
    MaxSessions = 3
    Batches = {b1}
    PublicBatches = {b1}
    MaxMembers = 2
    MaxClaims = 2
    Browsers = {w1}
    Requests = {1, 2}
    Farms <- OneAndTwo
    VtaOnly <- OneVta
    Workers = 1
    None = None
INVARIANTS
    TypeOK
    ExclusiveClaims
    CleanupIsComplete
    NeverOverAdmitted
PROPERTIES
    MembersKeepCourse
    MembersSettle
CHECK_DEADLOCK FALSE
