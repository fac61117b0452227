SPECIFICATION Spec
CONSTANTS
    Threads = {1, 2}
    MaxFiles = 2
    W = 7
    Interval = 2
    MaxDelay = 4
INVARIANTS CleanRegistration BuffersOutliveFiles NothingLeftToRun DelaysTrue
PROPERTIES CountsToFour GoesOnAndEnds
