CONSTANTS
    s1 = s1
    s2 = s2
    r1 = r1
    r2 = r2
    c1 = c1
    None = None
    Senders = {s1, s2}
    Receivers = {r1}
    Closers = {c1}
    Capacity = 1
    SendModes = {"block", "burst"}
    RecvModes = {"block", "try"}
    Spin = 0
    MaxCalls = 2
SPECIFICATION Spec
INVARIANTS NoStrandedReceiver SenderOrder
SYMMETRY Symm
CHECK_DEADLOCK FALSE
