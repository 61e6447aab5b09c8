\* Two Sessions, one of them the replacement of the other.
SPECIFICATION SegueSpec
CONSTANTS
    MaxSessions = 2
    MaxEnds = 1
    QuitAppAfter = TRUE
    Handled = {"connectionStarted", "stageFailed", "terminatedGracefully",
               "terminated", "launchError", "quitStarting",
               "sessionFinished", "readyForDeletion", "settingsRequested",
               "reconnectRequested"}
    MaxAutoReconnectAttempts = 1
INVARIANTS
    SegueTypeOK
    OneSessionAtATime
    OneOutcomePerSession
    FailureIsRecorded
    NeverStranded
\* The last Session ends.
CHECK_DEADLOCK FALSE
