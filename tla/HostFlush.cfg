SPECIFICATION HostManagerSpec
CONSTANTS
    MaxObjects = 1
    Pollers = {p1}
    MaxVersion = 2
    MaxStarts = 1
    Adders = {}
    MaxEvents = 1
    MaxFailures = 0
    CanQuit = FALSE
PROPERTIES RequestedSaveIsWritten
CHECK_DEADLOCK FALSE
