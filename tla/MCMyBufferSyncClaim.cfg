SPECIFICATION Spec
CONSTANTS
    Threads = {t1, t2}
    Size = 2
    MaxRequest = 2
INVARIANT ThreadSafe
