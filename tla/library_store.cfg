\* One book with a hashed, an unhashed and a joined field, two requests, two imports in a
\* process.
SPECIFICATION Spec
CONSTANTS
    b1 = b1
    r1 = r1
    r2 = r2
    Book <- MCBooks
    Fresh <- MCBooks
    Request <- MCRequests
    Field <- AllFields
    Hashed <- AllHashed
    Joined <- OnlyTags
    TextOf <- Texts
    Canon <- ReadBack
    MaxImports = 2
    Absent = Absent
    NoSnapshot = NoSnapshot
    NotMine = NotMine
SYMMETRY SymmetricRequests
INVARIANTS
    CacheMirrorsRows
    WarmIsCurrent
    EditsKept
PROPERTIES
    ImportIsIdempotent
