\* Five frames: more than a queue holds.
SPECIFICATION MCSpec
CONSTANTS
    MaxFrames = 5
    MAX_QUEUED_FRAMES = 3
INVARIANTS
    FramesAccountedFor
    EventForEachFrame
PROPERTIES
    FrameResolved
\* A V-sync thread woken with no frame stops the process, and a render thread
\* that misses its wake-up keeps the destructor waiting.
CHECK_DEADLOCK FALSE
