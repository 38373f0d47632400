SPECIFICATION FairSpec
CONSTANTS
    Kinds <- MCUpfront
    MaxTroubles = 0
    None = None
PROPERTY UpfrontAdminProceeds
CHECK_DEADLOCK FALSE
