SPECIFICATION SpecReport
CONSTANTS
    p1 = p1
    p2 = p2
    n1 = n1
    n2 = n2
    Calls = {p1, p2}
    Narratives = {n1, n2}
    MaxData = 2
    Nothing = Nothing
INVARIANT
    FrozenOnceApproved
