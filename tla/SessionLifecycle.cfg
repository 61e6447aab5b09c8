\* Two Sessions one after the other, and the host told to quit its application.
SPECIFICATION FairSpec
CONSTANTS
    MaxSessions = 2
    MaxEnds = 3
    QuitAppAfter = TRUE
    Handled = {"settingsRequested"}
INVARIANTS
    OneSessionAtATime
    CallbackBeginsForItsSession
    LostStreamLeavesAppRunning
PROPERTIES
    StartReturns
    QuitEndsSession
\* Both Sessions end.
CHECK_DEADLOCK FALSE
