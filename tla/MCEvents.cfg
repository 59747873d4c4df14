SPECIFICATION MCSpec
CONSTANTS
    Worker = {w1, w2}
    WorkItem = {k1}
    Giver = {g1, g2}
    Dying = {o1, o2, o3}
    REAPER_THRESHOLD = 2
    MaxQueued = 2
    ReaperItem = ReaperItem
    NoItem = NoItem
    Ref = {f1, f2}
    SubClient = {c1}
    MaxEvents = 1
    Querier = {q1}
    Foreign = {x1}
    SlowQuerier = {q1}
    MaxSidrRetry = 1
    SidrBackLog = 1
    AnswersLate = FALSE
    AsksAgain = FALSE
    MaxRequests = 1
    MaxNotices = 2
CHECK_DEADLOCK FALSE
INVARIANTS
    WorkKept
PROPERTIES
    WorkDone
    SubscribesInTheEnd
    QueryResolved
