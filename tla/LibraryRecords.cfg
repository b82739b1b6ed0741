\* Two requests at a time: at one library, which moves between two roots, and creations at
\* two libraries with one key between them.  Two records.
CONSTANTS
    c1 = c1
    c2 = c2
    Call = {c1, c2}
    l1 = l1
    l2 = l2
    Library = {l1, l2}
    p1 = p1
    p2 = p2
    Root = {p1, p2}
    f1 = f1
    Folder = {f1}
    k1 = k1
    Key = {k1}
    None = None
    MaxRecords = 2
    MaxVersion = 3
SYMMETRY Interchangeable
CONSTRAINTS AgeMatters ScansSucceed OneLibraryOrCreations
SPECIFICATION Spec
INVARIANTS
    TypeOK
    RecordsAgree
    AnswersAreTrue
PROPERTIES
    RecordsAreProtected
