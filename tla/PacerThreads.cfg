\* A V-sync thread and a render thread, with frames enough to fill both queues.
SPECIFICATION Spec
CONSTANTS
    MaxFrames = 8
    MAX_QUEUED_FRAMES = 3
    DisplayFps = 4
    MaxVideoFps = 4
    HasVsyncSource = TRUE
    HasRenderThread = TRUE
    NoBuffering = FALSE
INVARIANTS
    TypeOK
    FramesAccountedFor
    FramesInOrder
    ShownFrameKept
PROPERTIES
    PipelineSpec
\* A render thread that misses its wake-up keeps the destructor waiting.
CHECK_DEADLOCK FALSE
