SPECIFICATION MCSweep
CONSTANTS
    swA = swA  swB = swB  host = host  NoReq = NoReq  NoPort = NoPort
    HostList <- PrefixHostList
    HostType <- PrefixHostType
    MibOrder <- MCMibOrder
    Wanted <- MCWanted
    Mibs <- PrefixMibs
    PortNumOf <- MCPortNumOf
    NamePrefix <- SomePrefix
    EntColumn = {"hwRev", "fwRev"}
    GetColumn = {"ifNumber", "locChassisId"}
    BulkSize = 3
    EntSize = 3
    MemoryMayFail = FALSE
    Map = {1, 2, 3, 4}
    MapKey = {1, 2, 3, 4, 5, 6}
    Copy = {1, 2}
    Collate <- MCCollate
    List = {l1, l2}
    ListItem = {i1, i2, i3}
    Mover = {t1}
    Criteria = {{i1}, {i2, i3}}
    NoChain = NoChain
    NULL = NULL
    WalkBound = 4
    TreeKey = {1, 2, 3, 4, 5, 6, 7, 8}
    MAP_MAX_MIN_DELTA = 2
    MAP_RECURSION_THRESHOLD = 0
INVARIANTS
    StateIsItsOwn
CHECK_DEADLOCK FALSE
