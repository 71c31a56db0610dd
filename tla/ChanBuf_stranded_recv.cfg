CONSTANTS
    s1 = s1
    s2 = s2
    r1 = r1
    r2 = r2
    c1 = c1
    None = None
    Senders = {s1}
    Receivers = {r1, r2}
    Closers = {}
    Capacity = 1
    SendModes = {"block"}
    RecvModes = {"block"}
    Spin = 0
    MaxCalls = 2
SPECIFICATION Spec
INVARIANTS NoStrandedReceiver
SYMMETRY Symm
CHECK_DEADLOCK FALSE
