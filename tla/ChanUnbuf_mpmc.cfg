CONSTANTS
    s1 = s1
    s2 = s2
    r1 = r1
    r2 = r2
    c1 = c1
    None = None
    Senders = {s1, s2}
    Receivers = {r1, r2}
    Closers = {c1}
    Modes = {"block", "try"}
    MaxCalls = 2
SPECIFICATION Spec
INVARIANTS TypeOK ExactlyOnce
SYMMETRY Symm
CHECK_DEADLOCK FALSE
