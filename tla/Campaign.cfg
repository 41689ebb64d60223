SPECIFICATION Spec
CONSTANTS
    p1 = p1
    p2 = p2
    e1 = e1
    e2 = e2
    e3 = e3
    Sends = {p1, p2}
    Emails = {e1, e2, e3}
    BatchSize = 2
    Stale = 1
    MaxTime = 2
    MaxFaults = 1
    MaxClashes = 2
SYMMETRY MCSymmetry
INVARIANTS
    TypeOK
    ExtraCopiesExplained
    SentReachedEveryone
    RecipientCountTrue
    OneRunAtATime
PROPERTY
    LedgeredNotMailedAgain
