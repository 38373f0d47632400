SPECIFICATION FairSpec
CONSTANTS
    Kinds <- MCCustom
    MaxTroubles = 2
    None = None
INVARIANTS
    TypeOK
    ServedIsPrepared
    ReceiptsHold
PROPERTIES
    NeverBackBeforeTheGate
    SetupSettles
CHECK_DEADLOCK FALSE
