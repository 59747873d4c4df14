SPECIFICATION MCSafety
CONSTANTS
    q1 = q1  q2 = q2  q3 = q3  r1 = r1  r2 = r2  None = None
    Query = {q1, q2, q3}
    SdClient = {c1}
    Receiver = {r1, r2}
    Worker = {w1}
    Kind = {"path", "info", "op"}
    MaxOutstanding = 1
    MaxChildQuery = 1
    MaxChildren = 2
    RetryCount = 1
    SendResult = {"ok", "fails"}
    CaRemoval = TRUE
    CanDeregister = TRUE
    AddressReuse = FALSE
    MaxQueries = 2
    Ref = {f1, f2}
    SubClient = {c1, c2}
    MaxEvents = 1
SYMMETRY Symmetry
CHECK_DEADLOCK FALSE
INVARIANTS
    QueryHeld
    QueriesCounted
    ReferenceKept
    SaFollows
PROPERTIES
    AnsweredBeforeFreed
