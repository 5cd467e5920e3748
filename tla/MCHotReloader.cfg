CONSTANTS
    py = py
    receiver = receiver
    Source = {py, receiver}
    Rank <- MCRank
    Built = {receiver}
    MaxEdits = 1
    OldBackups = 0
    MaxNames = 2
    MaxBackups = 4
    MaxFaults = 0
SPECIFICATION FairSpec
PROPERTIES
    RestartIsServed
    PythonEditIsLoaded
CHECK_DEADLOCK FALSE
