CONSTANTS
    p1 = p1
    p2 = p2
    c1 = c1
    c2 = c2
    o1 = o1
    Producers = {p1, p2}
    Consumers = {c1}
    Observers = {o1}
    Capacity = 2
    Modulus = 8
    MaxBurst = 2
    MaxItems = 2
    Start = 7
SPECIFICATION FairSpec
PROPERTIES CountOverstatesOnlyByWrap ReservationCommitted
