\* The wake-up of the render thread in the destructor.
SPECIFICATION FairSpec
CONSTANTS
    MaxFrames = 3
    MAX_QUEUED_FRAMES = 3
    DisplayFps = 2
    MaxVideoFps = 2
    HasVsyncSource = FALSE
    HasRenderThread = TRUE
    NoBuffering = FALSE
PROPERTIES
    DestructorReturns
\* A render thread that misses its wake-up keeps the destructor waiting.
CHECK_DEADLOCK FALSE
