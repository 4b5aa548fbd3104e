CONSTANTS
    Msgs = {a, b, c}
    Twins = {a, b}
    Plain = {c}
    Id <- IdDef
    NoId = NoId
    DiskFaults = TRUE
    MaxEvents = 2
SPECIFICATION Spec
CHECK_DEADLOCK FALSE
INVARIANTS TypeOK NothingLost RedeliveryNeedsFault
PROPERTIES CleanCheckReceivesAll CheckEnds
