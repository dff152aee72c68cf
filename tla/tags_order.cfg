\* One book with tags only; files may name the same tags in two orders.
SPECIFICATION Spec
CONSTANTS
    b1 = b1
    r1 = r1
    r2 = r2
    Book <- MCBooks
    Fresh = {}
    Request <- MCRequests
    Field <- OnlyTags
    Hashed <- OnlyTags
    Joined <- OnlyTags
    TextOf <- ThreeTexts
    Canon <- TagsReadBack
    MaxImports = 2
    Absent = Absent
    NoSnapshot = NoSnapshot
    NotMine = NotMine
SYMMETRY SymmetricRequests
INVARIANTS
    UneditedFollowsFile
