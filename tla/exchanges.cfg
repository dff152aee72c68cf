SPECIFICATION ExchangesSpec
CONSTANTS
    None = None
    b1 = b1
    b2 = b2
    l1 = l1
    Root = Root
    List = {l1}
    Caller = {c1, c2}
    Book = {b1, b2}
    MaxChanges = 1
    \* One address, one device, a clock that runs past the expiry of a bucket.
    Ip = {ip1}
    Device = {d1}
    MaxAttempts = 2
    MaxRequests = 2
    Window = 3
    MaxClock = 7
    NoAnswer = NoAnswer
    NoEntry = NoEntry
    p = p
    q = q
    o = o
    Gone = Gone
    Owned = {b1, b2}
    Present = {b1}
    Wanted = {w1, w2}
    Path = {p, q, o}
    Facts <- MCFacts
    History <- MCHistory
    Uploads <- MCUploads
    MaxImports = 3
    Setting <- MCSetting
    FirstSetting <- MCFirstSetting
    Day = 1
    Step = 1
    Retry = 1
    RunsKept = 2
    MaxTime = 1
    MaxWrites = 1
    MaxBackups = 3
    d1 = d1
    d2 = d2
    a1 = a1
    a2 = a2
    Reader = {d1, d2}
    Address = {a1, a2}
    Place <- MCPlace
    Manual = {a2}
    Ini <- MCIni
    Ignored = {d2}
    YamlLists <- MCYamlLists
    Requested = {d1}
    MaxAsked = 3
    MaxMoves = 1
    n1 = n1
    series = series
    Comic = {b1}
    Name = {n1}
    Form <- MCForm
    Remote = {b1}
    SeriesOf <- MCSeriesOf
    Members <- MCMembers
    MaxTargets = 3
    Torn = Torn
    Shelf = {f1, f2}
    MaxSteps = 3
    Client = {k1, k2}
    QueueSize = 2
    SendSize = 1
    MaxEvents = 3
INVARIANTS
    BurstBounded
    EntriesAreMembers
    UnchangedIsCurrent
    WantedOnce
    ListedIsWhole
    OncePerSlot
    RestoreCanBeUndone
    RegistrationAgrees
    SentWhereItAnswered
    ChangesArePushed
    SavedOrMarked
    NoGaps
PROPERTIES
    ImplementsRateLimits
CHECK_DEADLOCK FALSE
