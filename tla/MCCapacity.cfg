SPECIFICATION Spec
CONSTANTS
    MaxSessions = 4
    MaxNode = 4
    MaxDisk = 3
    MaxReserved = 2
    Placements <- SmallPlacements
    Readings <- SmallReadings
INVARIANTS
    EstimatesAreExact
    ReservationsAreKept
    DashboardIsStricter
