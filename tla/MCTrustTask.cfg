CONSTANTS
    Flows <- MCFlows
    Bindings = {b1, b2}
    Slots = {s1, s2}
    MaxTroubles = 1
    None = None
    w1 = w1
    w2 = w2
    b1 = b1
    b2 = b2
SPECIFICATION Spec
INVARIANTS TypeOK RedeemsShare ClaimIsAnswered
PROPERTIES DecisionIsFinal
SYMMETRY Symmetry
CHECK_DEADLOCK FALSE
