CONSTANTS
    s1 = s1
    s2 = s2
    r1 = r1
    r2 = r2
    c1 = c1
    None = None
    Senders = {s1}
    Receivers = {r1}
    Closers = {}
    Capacity = 1
    SendModes = {"block"}
    RecvModes = {"block"}
    Spin = 1
    MaxCalls = 3
SPECIFICATION FairSpec
INVARIANTS NoStrandedSender
PROPERTIES ExchangeCompletes
CHECK_DEADLOCK FALSE
