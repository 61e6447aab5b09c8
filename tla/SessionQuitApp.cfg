SPECIFICATION Spec
CONSTANTS
    MaxSessions = 1
    MaxEnds = 1
    QuitAppAfter = TRUE
    Handled = {"settingsRequested"}
INVARIANTS
    QuitsAppOnlyIfGraceful
CHECK_DEADLOCK FALSE
