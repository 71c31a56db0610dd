CONSTANTS
    s1 = s1
    s2 = s2
    r1 = r1
    r2 = r2
    c1 = c1
    None = None
    Senders = {s1, s2}
    Receivers = {r1}
    Closers = {c1}
    Modes = {"block", "timed"}
    MaxCalls = 2
SPECIFICATION FairSpec
INVARIANTS OneSideWaits NoStranded
PROPERTIES CloseReleases
CHECK_DEADLOCK FALSE
