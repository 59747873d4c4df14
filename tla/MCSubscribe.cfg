SPECIFICATION SubscribeSpec
CONSTANTS
    Ref = {f1, f2}
    SubClient = {c1, c2}
    MaxEvents = 1
INVARIANTS
    OneOpOutstanding
CHECK_DEADLOCK FALSE
