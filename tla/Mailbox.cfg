CONSTANTS
    Short = {a, b}
    Long = {c}
    Msgs = {a, b, c}
    Size <- SizeDef
    WithId = {a, b}
    NoId = NoId
    NoToc = NoToc
    Closed = Closed
    TornCompact = FALSE
SPECIFICATION Spec
INVARIANTS TypeOK TocDescribesMbox UndeletedStay SerialsUnique CleanCloseReopens
PROPERTIES ImplementsStore
SYMMETRY Symmetry
