SPECIFICATION Spec
CONSTANTS
    p1 = p1
    p2 = p2
    p3 = p3
    i1 = i1
    i2 = i2
    i3 = i3
    t1 = t1
    t2 = t2
    t3 = t3
    t4 = t4
    Calls = {p1, p2}
    Rows = {i1, i2, i3}
    Tokens = {t1, t2, t3}
    Feed = TRUE
    NoRow = NoRow
INVARIANT
    TurnedOffForGood
