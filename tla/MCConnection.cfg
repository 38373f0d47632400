SPECIFICATION Spec
CONSTANTS
    Sessions = {s1}
    FullStack = {}
    Keys = {k1, k2}
    NoKey = NoKey
    Replicas = {r1}
    Recoveries = {g1, g2}
    MaxRequests = 2
    MaxFaults = 1
SYMMETRY KeySymmetry
INVARIANTS
    TypeOK
    OneActivePerSession
    AdminOnlyAfterApproval
    ReleasedMeansInstalled
    DiscardedKeys
    ConfirmedHoldsTheGate
PROPERTIES
    AdminNeverReplaced
    ReservationLifecycle
    ImplementsHandover
CHECK_DEADLOCK FALSE
