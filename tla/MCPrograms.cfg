SPECIFICATION Programs
CONSTANTS
    Loop = 3
    MaxSpurious = 2
    Threads = {0, 1, 2}
    Nodes = {n1, n2, n3, n4}
    NULL = NULL
    MaxEnqueue = 1
    MaxDequeue = 1
    MaxAdd = 1
    Threshold = 2
    MaxIncrement = 3
INVARIANTS NothingLost Sloppiness PrintsTrue
PROPERTIES IsQueue Meets Termination
