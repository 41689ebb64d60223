SPECIFICATION SpecStaff
CONSTANTS
    p1 = p1
    p2 = p2
    t1 = t1
    t2 = t2
    t3 = t3
    k1 = k1
    k2 = k2
    k3 = k3
    k4 = k4
    Admins = {p1, p2}
    Staff = {t1, t2, t3}
    Ids = {k1, k2, k3, k4}
    Nobody = Nobody
INVARIANT
    PrimaryIsMember
