SPECIFICATION MCSpec
CONSTANTS
    x1 = x1  x2 = x2  t1 = t1  NoCtx = NoCtx
    Ctx <- MCCtx
    Tid <- MCTid
    MsgLen <- MCMsgLen
    LenKnown <- MCLenKnown
    Noise <- MCNoise
    DataSize = 2
    RmppMaxReceive = 6
    RmppWindowSize = 2
    RmppWindowLowWater = 1
    Sender = {s1, s2}
    ListLen = 2
    MaxPosts = 3
    None = None
    Query = {q1, q2}
    SdClient = {c1}
    Receiver = {r1}
    Worker = {w1}
    Kind = {"path"}
    MaxOutstanding = 1
    MaxChildQuery = 0
    MaxChildren = 1
    RetryCount = 0
    SendResult = {"ok", "fails"}
    CaRemoval = FALSE
    CanDeregister = FALSE
    AddressReuse = FALSE
    MaxQueries = 2
CHECK_DEADLOCK FALSE
INVARIANTS
    ContextHeld
    TransferWhole
    ListReturnedOnce
PROPERTIES
    ContextEnds
    SendEnds
    QueriesEnd
