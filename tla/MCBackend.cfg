\* The four parts, one in each behaviour.
SPECIFICATION MCSpec
CONSTANTS
    MaxObjects = 2
    Pollers = {p1, p2}
    MaxVersion = 2
    MaxStarts = 2
    Adders = {a1, a2}
    MaxEvents = 1
    MaxFailures = 1
    CanQuit = TRUE
    Certs = {A, B}
    Observers = {poll, task}
    MaxRotations = 1
    MaxGames = 1
    MaxQuits = 2
    Builds = {1, 3}
    Statements = 2
    MaxRetained = 2
    MaxLaunches = 3
    MaxEdits = 1
    MaxFaults = 2
    MaxMade = 3
    MaxLookups = 2
    MaxDamages = 1
    MaxStoreFaults = 1
INVARIANTS
    BackendTypeOK
    HostOutlivesItsThreads
    OneObjectPerHost
    PolledByOneThread
    ChangeIsScheduled
    ExitSavesHosts
    OpenedIsComplete
    AcknowledgedIsKept
    TrustedPairIsKept
    NoSilentRotation
    QuitWillBeAnswered
PROPERTIES
    DeletionEnds
    OnlyPairingTrusts
\* The process ends, the bounds run out, and flushHosts() can wait for itself.
CHECK_DEADLOCK FALSE
