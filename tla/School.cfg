CONSTANTS
    Nothing = Nothing
    Calls = {p1, p2}
    Bodies = {"a", "b"}
    MaxRow = 3
    Fields = {"note", "attendance", "card"}
    Texts = {"x"}
    MaxQueue = 2
    Blocks = {b1, b2}
    Slots = {"s1", "s2"}
    MaxDrags = 2
    Rows = {l1, l2}
    Early = Early
    Late = Late
    LastDay = 3
    WeekLength = 2
    MonthLength = 2
    Gaps = {2}
    MaxStrays = 1
    MaxTaken = 1
    LessonTeacher = teacher
    Guardians = {}
    LastHour = 2
    StartHours = {1, 3}
    DayAhead = 2
    HourAhead = 1
    Retention = 1
    Devices = {d1, d2}
    Endpoints = {e1, e2}
    Cap = 1
    MaxSub = 3
    ClassSlots = {"mon", "tue"}
    MaxToken = 2
    LastTick = 2
    Ttl = 1
    Teachers = {t1, t2}
    Limit = 1
    Window = 2
    Midnight = 2
    MaxRetries = 1
    Children = {c1, c2}
    MaxPopup = 2
    MaxEntries = 3
    PageSize = 2
    Tenants = {o1, o2}
    Tables = 2
    GivenNames = {"a"}
    MaxLife = 2
    Admins = {p1, p2}
    Ids = {k1, k2, k3}
    Staff = {a1, a2}
    Nobody = Nobody
    Narratives = {n1, n2}
    MaxData = 2
SPECIFICATION SpecSchool
INVARIANTS
    TypesOK
    NoteLostOnlyAmongTwins
    CleanMeansStored
    UntypedWrittenOnlyWhenStale
    BlockStandsWhereListed
    MovedToTimesTypedForIt
    EveryDayAccounted
    EachRemindedOnce
    BrowsersAgree
    WrittenAsPreviewed
    LimiterExact
    OnlyUnderConsent
    ConsoleShowsWhatIs
    PurgedWholeOrNotAtAll
    GreetedOncePerRow
    PrimaryUpkept
PROPERTIES
    CellsAreRegisters
    LateWritersWereThere
CHECK_DEADLOCK FALSE
