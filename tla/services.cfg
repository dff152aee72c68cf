SPECIFICATION Spec
CONSTANTS
    None = None
    f = f
    h = h
    m = m
    b1 = b1
    b2 = b2
    r1 = r1
    r2 = r2
    Folder = {f, h}
    Manual = {m}
    Local = {h}
    Book = {b1, b2}
    Rules = {r1, r2}
    LibraryFile = {1, 2}
    FileLists <- MCFileLists
    FileBooks <- MCFileBooks
    Root = Root
    Gone = Gone
    NoHash = NoHash
    MaxChanges = 3
    t1 = t1
    t2 = t2
    t3 = t3
    Title = {t1, t2, t3}
    Facts <- MCFacts
    LowerCase <- MCLower
    AsciiLower <- MCAsciiLower
    Code <- MCCode
    Split <- MCSplit
    SmartList <- MCSmartList
    BaseList <- MCBaseList
    NoBase = NoBase
    Cold = Cold
    NoValue = NoValue
    Caller = {c1, c2}
    Background = {c1}
    BurstSize = 2
    WindowSize = 3
    BurstReserve = 1
    WindowReserve = 1
    HourlyCap = 2
    BurstPause = 1
    WindowPause = 2
    Hour = 2
    MinBackoff = 1
    MaxBackoff = 2
    MaxClock = 4
    v1 = v1
    v2 = v2
    i1 = i1
    i2 = i2
    i3 = i3
    Volume = {v1, v2}
    Issue = {i1, i2, i3}
    Tagged = {v1, v2}
    Home <- MCHome
    Listing <- MCListing
    PageSize = 1
    Absent = Absent
    MaxRevisions = 1
    Scraped = {b1}
    MaxJobs = 1
    MaxPasses = 2
    Recheck = Recheck
    RuleGroup = {g1, g2, g3}
    Ruleset = {r1, r2}
    Rule = {x1}
    RuleFile <- MCRuleFile
    MaxImports = 2
    MaxEdits = 3
    older = older
    newer = newer
    note = note
    source = source
    key = key
    SeriesRef = SeriesRef
    Comic = {b1}
    Writer = {w1, w2}
    InitialRecord <- MCInitialRecord
    Lockable = {"series"}
    RulesetList <- MCRulesetList
    EditForm <- MCEditForm
    Detected <- MCDetected
    SeriesFound <- MCSeriesFound
    Skip = Skip
    Custom = {key}
    Refers <- MCRefers
    Yes = Yes
    No = No
    IssueCount = 16
    Annual = Annual
    Limited = Limited
    Series = Series
    Marks = {"flag"}
    PageType = {"", "Story"}
    Elsewhere = Elsewhere
    MaxRequests = 3
    MaxTogether = 2
INVARIANTS
    HashDescribesRow
    ListsStayVisible
    FreshCountsTrue
    FastPathAgrees
    OvershootBounded
    RestartKeepsPauses
    SyncedIsComplete
    SettledStaysSettled
    SelectedAsWhole
    AuditExplains
    FiledWhereItSays
PROPERTIES
    ImportKeepsManual
CHECK_DEADLOCK FALSE
