SPECIFICATION MCSpec
CONSTANTS
    Threads = {t1, t2, t3}
    MaxBypass = 2
INVARIANTS MutualExclusion RaceFree Turnstiles BoundedBypass
PROPERTY NoStarvation
