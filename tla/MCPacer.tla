------------------------------ MODULE MCPacer ------------------------------
(***************************************************************************)
(* The pacer's two shorter paths, for TLC: V-sync with rendering on the    *)
(* main thread, and a render thread fed by the decoder.  A behaviour takes *)
(* one of them from its first state on.                                    *)
(***************************************************************************)
EXTENDS Integers, Sequences

CONSTANTS MaxFrames, MAX_QUEUED_FRAMES

ASSUME PathAssumption ==
    MaxFrames \in Nat /\ MAX_QUEUED_FRAMES \in Nat \ {0}

VARIABLES
    path,           \* which of the two
    pacingQueue, renderQueue, pacingHistory, renderHistory, deferredFree,
    stopping, lockHeld, decoder, vsync, renderer, dtor, frameReady, nextFrame,
    rendered, freed

MainThread == INSTANCE Pacer
    WITH DisplayFps <- 4, MaxVideoFps <- 2, HasVsyncSource <- TRUE,
         HasRenderThread <- FALSE, NoBuffering <- FALSE

RenderThread == INSTANCE Pacer
    WITH DisplayFps <- 4, MaxVideoFps <- 4, HasVsyncSource <- FALSE,
         HasRenderThread <- TRUE, NoBuffering <- TRUE

MCInit ==
    \/ path = "main thread" /\ MainThread!Init
    \/ path = "render thread" /\ RenderThread!Init

MCNext ==
    /\ UNCHANGED path
    /\ \/ path = "main thread" /\ MainThread!Next
       \/ path = "render thread" /\ RenderThread!Next

mcVars == <<path, MainThread!vars>>

\* The fairness of Pacer, on the path that is taken.
MCSpec ==
    /\ MCInit /\ [][MCNext]_mcVars
    /\ path = "main thread" => MainThread!Fairness
    /\ path = "render thread" => RenderThread!Fairness

\* Pacer's property on either path: no frame leaks or is freed twice.
FramesAccountedFor ==
    IF path = "main thread" THEN MainThread!FramesAccountedFor
                            ELSE RenderThread!FramesAccountedFor

\* Pacer's property, where frames are rendered on the main thread: every frame
\* of the render queue has its SDL_CODE_FRAME_READY event.
EventForEachFrame ==
    path = "main thread" => MainThread!EventForEachFrame

\* Pacer's property on either path: every frame submitted is shown or freed.
FrameResolved ==
    /\ path = "main thread" => MainThread!FrameResolved
    /\ path = "render thread" => RenderThread!FrameResolved
=============================================================================
