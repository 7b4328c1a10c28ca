CONSTANTS
    r1 = r1
    r2 = r2
    s1 = s1
    s2 = s2
    h1 = h1
    h2 = h2
    x1 = x1
    NoSlot = NoSlot
    NoHome = NoHome
    NoExternalId = NoExternalId
    Untouchable = Untouchable
    Robots = {r1}
    Slots = {s1}
    Homes = {h1, h2}
    Unreachable = {}
    ExternalIds = {}
    SlotsBeside <- OneSide
    RobotOf <- OneRack
    ScriptRobot = r1
    Pool = {h1}
    MaxAsked = 2
    MaxOrders = 4
    NumSteps = 1
    MaxOps = 1
SPECIFICATION FloorSpec
INVARIANTS
    FreeSlotsAreEmpty
    BooksMatchFloor
    ScriptAsksOneByOne
