CONSTANTS
    r1 = r1
    r2 = r2
    s1 = s1
    s2 = s2
    h1 = h1
    h2 = h2
    NoSlot = NoSlot
    NoHome = NoHome
    NoExternalId = NoExternalId
    Robots = {r1}
    Slots = {s1}
    Homes = {h1}
    Unreachable = {}
    ExternalIds = {}
    SlotsBeside <- OneSide
    MaxOrders = 3
    NumSteps = 2
    MaxOps = 2
SPECIFICATION Spec
INVARIANTS
    TypeOK
    NoLostOrder
    NoStrandedSlot
    ReservedBoxServesOneOrder
    MovesForItsActiveOrder
PROPERTIES
    DoneStaysDone
    KeepsLifecycle
