SPECIFICATION Spec
CONSTANTS
    Clients = {c1, c2}
    Paths = {"test", "other"}
    Files = {"test"}
    Threads = {1, 2}
    MaxCount = 2
    MaxRestarts = 1
INVARIANTS Orderly Shows 
PROPERTY Answered
