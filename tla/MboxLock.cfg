CONSTANTS
    Procs = {p1, p2, p3, p4}
    Inodes = {i1, i2, i3, i4, i5}
    NoFile = NoFile
SYMMETRY Symmetry
SPECIFICATION Spec
INVARIANTS TypeOK ExclusionUnlessRaced
