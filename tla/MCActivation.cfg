SPECIFICATION FairSpec
CONSTANTS
    MaxClaims = 2
    Runs = {r1, r2}
    MaxFaults = 1
    None = None
INVARIANTS
    TypeOK
    VolumeIsGuarded
PROPERTIES
    ImplementsHandover
    AuthorizedStays
    ActivationEnds
CHECK_DEADLOCK FALSE
