SPECIFICATION Spec
CONSTANTS
    p1 = p1
    p2 = p2
    o1 = o1
    o2 = o2
    a1 = a1
    e1 = e1
    e2 = e2
    e3 = e3
    s1 = s1
    Calls = {p1, p2}
    Accounts = {o1, o2, a1}
    Owners = {o1, o2}
    Emails = {e1, e2, e3}
    Students = {s1}
    Faults = TRUE
    NoRow = NoRow
    SeedEmail <- MCSeedEmail
SYMMETRY MCSymmetry
INVARIANTS
    TypeOK
    OwnerRemains
    NoOrphan
PROPERTY
    OnlyTheMinterTearsDown
