CONSTANTS
    r1 = r1
    r2 = r2
    s1 = s1
    s2 = s2
    h1 = h1
    h2 = h2
    NoSlot = NoSlot
    NoHome = NoHome
    NoExternalId = NoExternalId
    Robots = {r1}
    Slots = {s1}
    Homes = {h1}
    Unreachable = {}
    ExternalIds = {}
    SlotsBeside <- OneSide
    MaxOrders = 2
    NumSteps = 2
    MaxOps = 1
    MaxCrashes = 1
SPECIFICATION RecFairSpec
PROPERTIES
    StartedOrdersSettle
    PutsAreNotStarved
    FreeSlotsFindWaitingPicks
    InterruptedOrdersGoOn
