\* A late wake-up of the V-sync thread.
SPECIFICATION Spec
CONSTANTS
    MaxFrames = 3
    MAX_QUEUED_FRAMES = 3
    DisplayFps = 2
    MaxVideoFps = 2
    HasVsyncSource = TRUE
    HasRenderThread = TRUE
    NoBuffering = FALSE
INVARIANTS
    FirstFrameExists
\* A render thread that misses its wake-up keeps the destructor waiting.
CHECK_DEADLOCK FALSE
