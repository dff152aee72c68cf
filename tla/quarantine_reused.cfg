\* Two books with a file each, two requests, three paths, two seconds.
SPECIFICATION Spec
CONSTANTS
    b1 = b1
    b2 = b2
    w1 = w1
    w2 = w2
    Book <- MCBooks
    Worker <- MCWorkers
    Path <- MCPaths
    Zip <- MCZip
    ChangeExt <- MCChangeExt
    Meta = {"a", "b"}
    NotWritten = NotWritten
    FirstFile <- TwoFirstFiles
    FirstPath <- TwoFirstPaths
    Absent = Absent
    NoFile = NoFile
    RetentionDays = 1
    MaxSecond = 1
    MaxRequests = 2
    Given = {10, 11}
SYMMETRY SymmetricWorkers
PROPERTY
    ReplacementsNeverCollide
\* Everything may be deleted, and the clock stops at MaxSecond.
CHECK_DEADLOCK FALSE
