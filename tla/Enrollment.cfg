SPECIFICATION Spec
CONSTANTS
    p1 = p1
    p2 = p2
    p3 = p3
    s1 = s1
    s2 = s2
    s3 = s3
    c1 = c1
    e1 = e1
    e2 = e2
    e3 = e3
    Calls = {p1, p2, p3}
    Students = {s1, s2, s3}
    Sections = {c1}
    Rows = {e1, e2, e3}
    NoRow = NoRow
    Capacities <- MCCapacities
    Histories <- MCHistories
SYMMETRY MCSymmetry
INVARIANTS
    TypeOK
    WriteNeverRefused
PROPERTIES
    NeverOverfilled
    RosterSpec
