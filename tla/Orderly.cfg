CONSTANTS
    r1 = r1
    r2 = r2
    s1 = s1
    s2 = s2
    h1 = h1
    h2 = h2
    NoSlot = NoSlot
    NoHome = NoHome
    NoExternalId = NoExternalId
    Robots = {r1, r2}
    Slots = {s1, s2}
    Homes = {h1, h2}
    Unreachable = {}
    ExternalIds = {x1}
    SlotsBeside <- OneSide
    MaxOrders = 3
    NumSteps = 1
    MaxOps = 2
SPECIFICATION Orderly
INVARIANTS
    OneManeuverPerSlot
    OneSlotPerBox
    OneOrderPerExternalId
PROPERTIES
    NoBoxOverwritten
SYMMETRY MCSymmetry
