CONSTANTS
    N = 2
    Imap = {1}
    p1 = p1
    i1 = i1
    Msgs = {p1, i1}
    Home <- HomeDef
    MaxIdle = 2
    MaxMail = 1
    MaxSwitches = 1
SPECIFICATION Spec
PROPERTIES
    IdleFetches
CHECK_DEADLOCK FALSE
