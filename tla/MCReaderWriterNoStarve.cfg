SPECIFICATION NSFairSpec
CONSTANTS
    Threads = {r1, r2, w1, w2}
    Writers = {w1, w2}
    Loops = 2
INVARIANT OneInTurnstile
PROPERTIES ImplementsPlain Termination
