CONSTANTS
    spam = spam
    list = list
    Checkers = {"check"}
    Msgs = {spam, list}
    Folders = {"F"}
    RuleSets <- RuleSetsDef
    Verdict <- VerdictDef
    Threshold = 50
    MaxEvents = 2
SPECIFICATION Spec
CHECK_DEADLOCK FALSE
INVARIANTS
    TypeOK
    MailKept
    

    
