SPECIFICATION Spec
CONSTANTS
    p1 = p1
    p2 = p2
    l1 = l1
    l2 = l2
    c1 = c1
    t1 = t1
    t2 = t2
    r1 = r1
    u1 = u1
    q1 = q1
    q2 = q2
    Jobs = {p1, p2}
    Lessons = {l1, l2}
    Sections = {c1}
    Owned = {c1}
    Teachers = {t1, t2}
    Rooms = {}
    Users = {u1}
    Requests = {q1, q2}
    NoTeacher = NoTeacher
    NoRoom = NoRoom
    NoRow = NoRow
    MaxOpen = 1
    PoolSize = 2
    Slots <- MCSlots
    Attends <- MCAttends
    TeacherOf <- MCTeacherOf
    Seeds <- MCSeeds
SYMMETRY MCSymmetry
INVARIANTS
    TypeOK
    OpenRequestsCapped
    ToldTheAnswerOnce
    SomeCallCanProceed
PROPERTY
    BookSpec
