CONSTANTS
    Short = {a, b}
    Long = {}
    Msgs = {a, b}
    Size <- SizeDef
    WithId = {a}
    NoId = NoId
    NoToc = NoToc
    Closed = Closed
    TornCompact = TRUE
SPECIFICATION Spec
INVARIANTS UndeletedStay
