SPECIFICATION Spec
CONSTANTS
    Threads = {t1, t2, t3}
    Nodes = {n1, n2, n3, n4}
    NULL = NULL
    MaxEnqueue = 1
    MaxDequeue = 2
INVARIANT HeapSound
PROPERTY Implements
SYMMETRY Symmetry
