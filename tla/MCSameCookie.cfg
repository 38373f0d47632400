CONSTANTS
    Flows <- MCAccountFlows
    Bindings = {b1, b2}
    Slots = {s1, s2}
    MaxTroubles = 0
    None = None
    w1 = w1
    w2 = w2
    b1 = b1
    b2 = b2
SPECIFICATION Spec
INVARIANT SameCookie
SYMMETRY Symmetry
CHECK_DEADLOCK FALSE
