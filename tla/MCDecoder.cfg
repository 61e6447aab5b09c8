\* The decoder thread with a low threshold, and a decoder recreated several
\* times for window changes, resets and full-screen toggles.
SPECIFICATION MCSpec
CONSTANTS
    FAILED_DECODES_RESET_THRESHOLD = 3
    MaxUnits = 4
    TogglesDestroy = TRUE
    MaxGeometry = 6
    MaxResets = 2
    MaxToggles = 2
    MaxHdrChanges = 1
INVARIANTS
    TypeOK
    FrameInfoMatches
    StampIsOwn
    WindowChangesReachDecoder
    ResetIsForThisDecoder
    HdrModeSettles
PROPERTIES
    GivesUpForGood
    ResetReturns
    DecoderComesBack
\* The bounds end both parts, and a stream may end without a decoder.
CHECK_DEADLOCK FALSE
