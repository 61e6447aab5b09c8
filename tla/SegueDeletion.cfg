SPECIFICATION SegueSpec
CONSTANTS
    MaxSessions = 2
    MaxEnds = 1
    QuitAppAfter = TRUE
    Handled = {"connectionStarted", "stageFailed", "terminatedGracefully",
               "terminated", "launchError", "quitStarting",
               "sessionFinished", "readyForDeletion", "settingsRequested",
               "reconnectRequested"}
    MaxAutoReconnectAttempts = 1
INVARIANTS
    DestroyedOnlyWhenReady
CHECK_DEADLOCK FALSE
