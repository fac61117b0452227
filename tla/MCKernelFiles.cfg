SPECIFICATION Spec
CONSTANTS
    Threads = {t1, t2, t3}
    Size = 2
    MaxRequest = 3
    Word = 8
    MaxOffset = 4
    MaxDevices = 2
    MaxOverlaps = 3
    Cells = {c1, c2, c3}
    TextLength = 9
    Counts = {4, 20}
    ShortCopies = {0, 4}
    MaxBytes = 24
SYMMETRY Symmetry
INVARIANTS Conserved NoLostWakeUp InBounds OpenLimit SoleReader
