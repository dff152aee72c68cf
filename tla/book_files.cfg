\* Two books of which the second is new or made from a file that is found, two
\* requests, three files, two seconds.
SPECIFICATION Spec
CONSTANTS
    b1 = b1
    b2 = b2
    w1 = w1
    w2 = w2
    Book <- MCBooks
    Worker <- MCWorkers
    Path <- MCPaths
    Zip <- MCZip
    ChangeExt <- MCChangeExt
    Meta = {"a", "b"}
    NotWritten = NotWritten
    FirstFile <- MCFirstFile
    FirstPath <- MCFirstPath
    Absent = Absent
    NoFile = NoFile
    RetentionDays = 1
    MaxSecond = 1
    MaxRequests = 2
    Given = {10, 11}
SYMMETRY SymmetricWorkers
INVARIANTS
    OriginalsKept
    RowDescribesFile
\* Everything may be deleted, and the clock stops at MaxSecond.
CHECK_DEADLOCK FALSE
