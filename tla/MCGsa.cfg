SPECIFICATION MCSpec
CONSTANTS
    Querier = {q1}
    Foreign = {x1}
    SlowQuerier = {q1}
    MaxSidrRetry = 1
    SidrBackLog = 2
    AnswersLate = FALSE
    AsksAgain = FALSE
    MaxRequests = 2
    MaxNotices = 3
    p1 = p1  p2 = p2  h1 = h1  h2 = h2  h3 = h3  NoClass = NoClass
    e1 = e1  e2 = e2  r1 = r1
    Port = {p1, p2}
    Thread = {e1, e2, r1}
    Of <- MCOf
    Remover = {r1}
    Handle = {h1, h2, h3}
    Reg <- MCReg
    GsiMad <- MCMad
    MaxClientId = 2
    PreAlloc = 2
    MinBuffers = 2
    MaxRecvBuffers = 3
    LowWater = 2
    DgrmLimit = 4
    DeregisterInCallback = FALSE
CHECK_DEADLOCK FALSE
INVARIANTS
    SidrKept
    ReceiveQueueKept
    ClassesKept
PROPERTIES
    FanoutComplete
