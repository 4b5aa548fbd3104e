SPECIFICATION Spec
CONSTANTS
    Names = {A, B}
    Folders = {F, G}
    Msgs = {a, b}
    Root = Root
    MaxBoxes = 3
    MaxOps = 2
INVARIANTS
    TypeOK
    ShowsItsMail
    EmptyFolderGoes
    TreeKeepsMail
SYMMETRY Symmetry
CHECK_DEADLOCK FALSE
