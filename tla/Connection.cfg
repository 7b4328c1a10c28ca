CONSTANTS
    Users = {u1}
    Monitors = {m1}
    Registrars = {g1}
    None = None
    MaxClients = 4
    InnerAttempts = 2
    HardLimit = 2
    RecreateAfter = 2
SPECIFICATION ConnFairSpec
INVARIANTS
    ConnTypeOK
    CountIsExact
    BusyLooksLocked
    LocksAreLetGo
PROPERTIES
    MonitorSparesSockets
    ChainedOpsFinish
    Reconnects
