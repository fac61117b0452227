SPECIFICATION FairSpec
CONSTANTS
    Threads = {r1, r2, w1, w2}
    Writers = {w1, w2}
    Loops = 2
INVARIANTS LockSound ValueExact
PROPERTIES Implements Termination
