SPECIFICATION FairSpec
CONSTANTS
    h1 = h1 h2 = h2 a1 = a1 a2 = a2 l1 = l1 d1 = d1 d2 = d2
    p1 = p1 p2 = p2 q1 = q1 q2 = q2 s1 = s1 None = None
    Host <- MCHost
    HostOf <- MCHostOf
    QpHost <- MCQpHost
    MaxCommID <- MCMaxCommID
    Cep = {a1, l1, d1}
    Client = {a1}
    Server = {l1}
    Qp = {p1, q1}
    Sid = {s1}
    C1 = 1
    C2 = 2
    MaxReqRetry = 0
    MaxRepRetry = 0
    MaxBackLog = 1
    ReuseQP = FALSE
    TimewaitCallback = FALSE
    UserCallback = {}
    SlowSends = FALSE
    LateTimers = FALSE
    DgrmMayFail = FALSE
    MaxCallbacks = 2
    MaxMads = 7
PROPERTIES
    DestroyCompletes
    ConnectResolves
CHECK_DEADLOCK FALSE
