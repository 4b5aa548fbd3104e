CONSTANTS
    Msgs = {a, b}
    Tagged = {b}
    Accts = 1
    From <- FromDef
    MaxFaults = 2
    MaxMarks = 1
SPECIFICATION Spec
CHECK_DEADLOCK FALSE
INVARIANTS TypeOK SentMeansAccepted ResendNeedsFault RecordedStayQueued
PROPERTIES RequestedIsSent
