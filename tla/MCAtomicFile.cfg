\* Two writers, three changes of the entry, contents of two bytes.
SPECIFICATION Spec
CONSTANTS
    Writers = {w1, w2}
    Contents = {c1, c2}
    Inodes = {i1, i2, i3, i4}
    Missing = Missing
    Torn = Torn
    Size = 2
    MaxReplaces = 3
SYMMETRY Symmetry
INVARIANTS
    TypeOK
    AcknowledgedSurvives
PROPERTY ImplementsDurableFile
