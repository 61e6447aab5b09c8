------------------------------- MODULE Pacer -------------------------------
(***************************************************************************)
(* The frame pacer of the video pipeline                                   *)
(* (app/streaming/video/ffmpeg-renderers/pacer/pacer.cpp).                 *)
(*                                                                         *)
(* Three threads share two bounded FIFO queues under one mutex:            *)
(*   - the decoder thread submits frames;                                  *)
(*   - the V-sync thread moves one frame per V-sync from the pacing queue  *)
(*     to the render queue (it exists only with a V-sync source);          *)
(*   - the renderer takes frames off the render queue: the render thread,  *)
(*     or the main thread when the renderer does not support one.          *)
(* The destructor runs on the main thread, once the decoder thread is      *)
(* joined, and takes no lock.                                              *)
(*                                                                         *)
(* A frame is the number of the picture it holds, in decode order.  What   *)
(* the code does while it holds m_FrameQueueLock is one action, except     *)
(* where the destructor's unlocked writes can be seen in the middle: the   *)
(* render thread's test of its condition and its wait are two steps.       *)
(***************************************************************************)
EXTENDS Integers, Sequences, FiniteSets, SequencesExt

CONSTANTS
    MaxFrames,        \* bound: how many frames the decoder produces
    MAX_QUEUED_FRAMES,\* capacity of either queue, 3 in the code
    DisplayFps,       \* refresh rate of the display
    MaxVideoFps,      \* frame rate of the stream
    HasVsyncSource,   \* m_VsyncSource # nullptr, so there is a V-sync thread
    HasRenderThread,  \* m_RenderThread # nullptr
    NoBuffering       \* RENDERER_ATTRIBUTE_NO_BUFFERING

ASSUME PacerAssumption ==
    /\ MaxFrames \in Nat
    /\ MAX_QUEUED_FRAMES \in Nat \ {0}
    /\ DisplayFps \in Nat /\ DisplayFps >= 2
    /\ MaxVideoFps \in Nat /\ MaxVideoFps >= 2
    /\ HasVsyncSource \in BOOLEAN
    /\ HasRenderThread \in BOOLEAN
    /\ NoBuffering \in BOOLEAN

VARIABLES
    pacingQueue,      \* m_PacingQueue
    renderQueue,      \* m_RenderQueue
    pacingHistory,    \* m_PacingQueueHistory
    renderHistory,    \* m_RenderQueueHistory
    deferredFree,     \* m_DeferredFreeFrame
    stopping,         \* m_Stopping
    lockHeld,         \* the render thread holds m_FrameQueueLock between its
                      \* test of the condition and its wait
    decoder,          \* where the decoder thread is
    vsync,            \* where the V-sync thread is: pc, drop target, frame
    renderer,         \* where the renderer is: pc, drop target, frame
    dtor,             \* where the main thread is in ~Pacer
    frameReady,       \* SDL_CODE_FRAME_READY events not yet handled
    nextFrame,        \* number of the next picture to be decoded
    rendered,         \* number of the last picture rendered
    freed             \* pictures given to av_frame_free

queueVars == <<pacingQueue, renderQueue, pacingHistory, renderHistory>>
threadVars == <<decoder, vsync, renderer, dtor>>
vars == <<queueVars, deferredFree, stopping, lockHeld, threadVars,
          frameReady, nextFrame, rendered, freed>>

Frame == 1..MaxFrames
NoFrame == 0

NonNull(f) == {f} \ {NoFrame}

Init ==
    /\ pacingQueue = <<>> /\ renderQueue = <<>>
    /\ pacingHistory = <<>> /\ renderHistory = <<>>
    /\ deferredFree = NoFrame
    /\ stopping = FALSE
    /\ lockHeld = FALSE
    /\ decoder = "idle"
    /\ vsync = [pc |-> IF HasVsyncSource THEN "top" ELSE "exited",
                target |-> 0, frame |-> NoFrame]
    /\ renderer = [pc |-> "ready", target |-> 0, frame |-> NoFrame]
    /\ dtor = "alive"
    /\ frameReady = 0
    /\ nextFrame = 1
    /\ rendered = NoFrame
    /\ freed = {}

-----------------------------------------------------------------------------
(* Helpers of the code. *)

\* X_Mistake, here and below, is the definition X with a plausible mistake in it.
\* No specification uses it: it shows that a property would catch the mistake.
DropForEnqueue_OffByOne(q) == IF Len(q) > MAX_QUEUED_FRAMES THEN Tail(q) ELSE q

\* dropFrameForEnqueue: a full queue gives up its oldest frame.
DropForEnqueue(q) == IF Len(q) = MAX_QUEUED_FRAMES THEN Tail(q) ELSE q
DroppedForEnqueue(q) ==
    IF Len(q) = MAX_QUEUED_FRAMES THEN {Head(q)} ELSE {}

\* A rolling history of queue lengths: the oldest entry leaves at the cap.
Rolled(history, cap, len) ==
    Append(IF Len(history) = cap THEN Tail(history) ELSE history, len)

\* handleVsync: strict unless some entry shows that the queue drained.
VsyncDropTarget ==
    IF MaxVideoFps >= DisplayFps /\ \E n \in ToSet(pacingHistory) : n <= 1
    THEN 3 ELSE 1

\* renderFrame: one frame for renderers that cannot buffer, else none unless
\* some entry shows that the queue was empty.
RenderDropTarget ==
    IF NoBuffering THEN 1
    ELSE IF \E n \in ToSet(renderHistory) : n = 0 THEN 2 ELSE 0

\* The wake-up of the only thread that waits on m_RenderQueueNotEmpty.
WakeRenderer ==
    IF renderer.pc = "waiting"
    THEN renderer' = [renderer EXCEPT !.pc = "ready"]
    ELSE UNCHANGED renderer

\* The wake-up of the V-sync thread, which waits on m_PacingQueueNotEmpty.
WakeVsync ==
    IF vsync.pc = "waiting"
    THEN vsync' = [vsync EXCEPT !.pc = "woken"]
    ELSE UNCHANGED vsync

-----------------------------------------------------------------------------
(* The decoder thread: submitFrame.  It wakes the other side after it has  *)
(* released the lock.                                                      *)

SubmitForPacing ==
    /\ decoder = "idle" /\ dtor = "alive" /\ ~lockHeld
    /\ HasVsyncSource
    /\ nextFrame <= MaxFrames
    /\ pacingQueue' = Append(DropForEnqueue(pacingQueue), nextFrame)
    /\ freed' = freed \cup DroppedForEnqueue(pacingQueue)
    /\ nextFrame' = nextFrame + 1
    /\ decoder' = "wakePacing"
    /\ UNCHANGED <<renderQueue, pacingHistory, renderHistory, deferredFree,
                   stopping, lockHeld, vsync, renderer, dtor, frameReady,
                   rendered>>

SubmitForRendering ==
    /\ decoder = "idle" /\ dtor = "alive" /\ ~lockHeld
    /\ ~HasVsyncSource
    /\ nextFrame <= MaxFrames
    /\ renderQueue' = Append(DropForEnqueue(renderQueue), nextFrame)
    /\ freed' = freed \cup DroppedForEnqueue(renderQueue)
    /\ nextFrame' = nextFrame + 1
    /\ decoder' = "wakeRender"
    /\ UNCHANGED <<pacingQueue, pacingHistory, renderHistory, deferredFree,
                   stopping, lockHeld, vsync, renderer, dtor, frameReady,
                   rendered>>

DecoderWakesPacing ==
    /\ decoder = "wakePacing"
    /\ WakeVsync
    /\ decoder' = "idle"
    /\ UNCHANGED <<queueVars, deferredFree, stopping, lockHeld, renderer, dtor,
                   frameReady, nextFrame, rendered, freed>>

DecoderWakesRender ==
    /\ decoder = "wakeRender"
    /\ IF HasRenderThread
       THEN WakeRenderer /\ UNCHANGED frameReady
       ELSE frameReady' = frameReady + 1 /\ UNCHANGED renderer
    /\ decoder' = "idle"
    /\ UNCHANGED <<queueVars, deferredFree, stopping, lockHeld, vsync, dtor,
                   nextFrame, rendered, freed>>

-----------------------------------------------------------------------------
(* The V-sync thread: vsyncThread and handleVsync. *)

VsyncExit ==
    /\ vsync.pc = "top"
    /\ stopping
    /\ vsync' = [vsync EXCEPT !.pc = "exited"]
    /\ UNCHANGED <<queueVars, deferredFree, stopping, lockHeld, decoder,
                   renderer, dtor, frameReady, nextFrame, rendered, freed>>

\* The V-sync source signals, or 100 ms elapse; m_Stopping is read again.
VsyncTick ==
    /\ vsync.pc = "top"
    /\ ~stopping
    /\ vsync' = [vsync EXCEPT !.pc = "handle"]
    /\ UNCHANGED <<queueVars, deferredFree, stopping, lockHeld, decoder,
                   renderer, dtor, frameReady, nextFrame, rendered, freed>>

\* The drop loop and what follows it, for a pacing queue q and a target t.
\* The lock is released around each av_frame_free of the loop.
VsyncDropOne(t) ==
    /\ Len(pacingQueue) > t
    /\ pacingQueue' = Tail(pacingQueue)
    /\ vsync' = [pc |-> "dropping", target |-> t, frame |-> Head(pacingQueue)]
    /\ UNCHANGED renderQueue

VsyncWaitForFrame(t) ==
    /\ pacingQueue = <<>>
    /\ vsync' = [pc |-> "waiting", target |-> t, frame |-> NoFrame]
    /\ UNCHANGED <<pacingQueue, renderQueue>>

Promote_Newest(t) ==
    /\ Len(pacingQueue) \in 1..t
    /\ pacingQueue' = Front(pacingQueue)
    /\ renderQueue' = Append(DropForEnqueue(renderQueue), Last(pacingQueue))
    /\ vsync' = [pc |-> "wakeRender", target |-> t, frame |-> NoFrame]

Promote(t) ==
    /\ Len(pacingQueue) \in 1..t
    /\ pacingQueue' = Tail(pacingQueue)
    /\ renderQueue' = Append(DropForEnqueue(renderQueue), Head(pacingQueue))
    /\ vsync' = [pc |-> "wakeRender", target |-> t, frame |-> NoFrame]

VsyncHandle ==
    /\ vsync.pc = "handle" /\ ~lockHeld
    /\ pacingHistory' = IF MaxVideoFps >= DisplayFps
                        THEN Rolled(pacingHistory, DisplayFps \div 2,
                                    Len(pacingQueue))
                        ELSE pacingHistory
    /\ \/ VsyncDropOne(VsyncDropTarget) /\ UNCHANGED freed
       \/ VsyncWaitForFrame(VsyncDropTarget) /\ UNCHANGED freed
       \/ /\ Promote(VsyncDropTarget)
          /\ freed' = freed \cup DroppedForEnqueue(renderQueue)
    /\ UNCHANGED <<renderHistory, deferredFree, stopping, lockHeld, decoder,
                   renderer, dtor, frameReady, nextFrame, rendered>>

\* av_frame_free of the dropped frame, and the loop once the lock is back.
VsyncDropped ==
    /\ vsync.pc = "dropping" /\ ~lockHeld
    /\ \/ VsyncDropOne(vsync.target) /\ freed' = freed \cup {vsync.frame}
       \/ VsyncWaitForFrame(vsync.target) /\ freed' = freed \cup {vsync.frame}
       \/ /\ Promote(vsync.target)
          /\ freed' = freed \cup {vsync.frame}
                            \cup DroppedForEnqueue(renderQueue)
    /\ UNCHANGED <<pacingHistory, renderHistory, deferredFree, stopping,
                   lockHeld, decoder, renderer, dtor, frameReady, nextFrame,
                   rendered>>

VsyncTimeout ==
    /\ vsync.pc = "waiting" /\ ~lockHeld
    /\ vsync' = [vsync EXCEPT !.pc = "top"]
    /\ UNCHANGED <<queueVars, deferredFree, stopping, lockHeld, decoder,
                   renderer, dtor, frameReady, nextFrame, rendered, freed>>

\* The wait returned true.  The code takes the first frame of the pacing
\* queue without looking whether there is one: on an empty QQueue that is
\* undefined (an assertion in a debug build, a wild read in a release one).
VsyncWoken ==
    /\ vsync.pc = "woken" /\ ~lockHeld
    /\ \/ /\ stopping
          /\ vsync' = [vsync EXCEPT !.pc = "top"]
          /\ UNCHANGED <<pacingQueue, renderQueue, freed>>
       \/ /\ ~stopping /\ pacingQueue # <<>>
          /\ Promote(Len(pacingQueue))
          /\ freed' = freed \cup DroppedForEnqueue(renderQueue)
       \/ /\ ~stopping /\ pacingQueue = <<>>
          /\ vsync' = [vsync EXCEPT !.pc = "fault"]
          /\ UNCHANGED <<pacingQueue, renderQueue, freed>>
    /\ UNCHANGED <<pacingHistory, renderHistory, deferredFree, stopping,
                   lockHeld, decoder, renderer, dtor, frameReady, nextFrame,
                   rendered>>

VsyncWakesRender_Coalesced ==
    /\ vsync.pc = "wakeRender"
    /\ IF HasRenderThread
       THEN WakeRenderer /\ UNCHANGED frameReady
       ELSE frameReady' = 1 /\ UNCHANGED renderer
    /\ vsync' = [vsync EXCEPT !.pc = "top"]
    /\ UNCHANGED <<queueVars, deferredFree, stopping, lockHeld, decoder, dtor,
                   nextFrame, rendered, freed>>

VsyncWakesRender ==
    /\ vsync.pc = "wakeRender"
    /\ IF HasRenderThread
       THEN WakeRenderer /\ UNCHANGED frameReady
       ELSE frameReady' = frameReady + 1 /\ UNCHANGED renderer
    /\ vsync' = [vsync EXCEPT !.pc = "top"]
    /\ UNCHANGED <<queueVars, deferredFree, stopping, lockHeld, decoder, dtor,
                   nextFrame, rendered, freed>>

-----------------------------------------------------------------------------
(* The renderer: renderThread, renderOnMainThread and renderFrame. *)

TakeFrame_Newest ==
    /\ renderQueue # <<>>
    /\ renderQueue' = Front(renderQueue)
    /\ renderer' = [pc |-> "rendering", target |-> 0,
                    frame |-> Last(renderQueue)]

TakeFrame ==
    /\ renderQueue # <<>>
    /\ renderQueue' = Tail(renderQueue)
    /\ renderer' = [pc |-> "rendering", target |-> 0,
                    frame |-> Head(renderQueue)]

\* m_Stopping is read at the head of the loop, and again under the lock.
RenderThreadExit ==
    /\ HasRenderThread
    /\ renderer.pc = "ready"
    /\ stopping
    /\ renderer' = [renderer EXCEPT !.pc = "exited"]
    /\ UNCHANGED <<queueVars, deferredFree, stopping, lockHeld, decoder, vsync,
                   dtor, frameReady, nextFrame, rendered, freed>>

RenderThreadTake ==
    /\ HasRenderThread
    /\ renderer.pc = "ready"
    /\ ~stopping
    /\ TakeFrame
    /\ UNCHANGED <<pacingQueue, pacingHistory, renderHistory, deferredFree,
                   stopping, lockHeld, decoder, vsync, dtor, frameReady,
                   nextFrame, rendered, freed>>

RenderThreadTest_Unlocked ==
    /\ HasRenderThread
    /\ renderer.pc = "ready"
    /\ ~stopping
    /\ renderQueue = <<>>
    /\ renderer' = [renderer EXCEPT !.pc = "testing"]
    /\ UNCHANGED <<queueVars, deferredFree, stopping, lockHeld, decoder, vsync,
                   dtor, frameReady, nextFrame, rendered, freed>>

\* The condition of the wait holds; the thread has the lock and has not yet
\* entered m_RenderQueueNotEmpty.wait().
RenderThreadTest ==
    /\ HasRenderThread
    /\ renderer.pc = "ready"
    /\ ~stopping
    /\ renderQueue = <<>>
    /\ lockHeld' = TRUE
    /\ renderer' = [renderer EXCEPT !.pc = "testing"]
    /\ UNCHANGED <<queueVars, deferredFree, stopping, decoder, vsync, dtor,
                   frameReady, nextFrame, rendered, freed>>

RenderThreadWait ==
    /\ renderer.pc = "testing"
    /\ lockHeld' = FALSE
    /\ renderer' = [renderer EXCEPT !.pc = "waiting"]
    /\ UNCHANGED <<queueVars, deferredFree, stopping, decoder, vsync, dtor,
                   frameReady, nextFrame, rendered, freed>>

\* The main event loop handles SDL_CODE_FRAME_READY.
RenderOnMainThread ==
    /\ ~HasRenderThread
    /\ renderer.pc = "ready" /\ dtor = "alive"
    /\ frameReady > 0
    /\ frameReady' = frameReady - 1
    /\ \/ TakeFrame
       \/ renderQueue = <<>> /\ UNCHANGED <<renderQueue, renderer>>
    /\ UNCHANGED <<pacingQueue, pacingHistory, renderHistory, deferredFree,
                   stopping, lockHeld, decoder, vsync, dtor, nextFrame,
                   rendered, freed>>

RenderFrame_FreesShown ==
    /\ renderer.pc = "rendering"
    /\ rendered' = renderer.frame
    /\ freed' = freed \cup {renderer.frame}
    /\ renderer' = [renderer EXCEPT !.pc = "trim", !.frame = NoFrame]
    /\ UNCHANGED <<queueVars, deferredFree, stopping, lockHeld, decoder, vsync,
                   dtor, frameReady, nextFrame>>

RenderFrame_ForgetsPrevious ==
    /\ renderer.pc = "rendering"
    /\ rendered' = renderer.frame
    /\ deferredFree' = renderer.frame
    /\ renderer' = [renderer EXCEPT !.pc = "trim", !.frame = NoFrame]
    /\ UNCHANGED <<queueVars, stopping, lockHeld, decoder, vsync, dtor,
                   frameReady, nextFrame, freed>>

\* The frame is on screen: it is kept until the next one is, and the one
\* before it is freed.
RenderFrame ==
    /\ renderer.pc = "rendering"
    /\ rendered' = renderer.frame
    /\ deferredFree' = renderer.frame
    /\ freed' = freed \cup NonNull(deferredFree)
    /\ renderer' = [renderer EXCEPT !.pc = "trim", !.frame = NoFrame]
    /\ UNCHANGED <<queueVars, stopping, lockHeld, decoder, vsync, dtor,
                   frameReady, nextFrame>>

TrimOne(t) ==
    \/ /\ Len(renderQueue) > t
       /\ renderQueue' = Tail(renderQueue)
       /\ renderer' = [pc |-> "trimming", target |-> t,
                       frame |-> Head(renderQueue)]
    \/ /\ Len(renderQueue) <= t
       /\ renderer' = [pc |-> "ready", target |-> 0, frame |-> NoFrame]
       /\ UNCHANGED renderQueue

\* The catch-up loop at the end of renderFrame.
TrimRenderQueue ==
    /\ renderer.pc = "trim"
    /\ renderHistory' = IF NoBuffering THEN renderHistory
                        ELSE Rolled(renderHistory, MaxVideoFps \div 2,
                                    Len(renderQueue))
    /\ TrimOne(RenderDropTarget)
    /\ UNCHANGED <<pacingQueue, pacingHistory, deferredFree, stopping,
                   lockHeld, decoder, vsync, dtor, frameReady, nextFrame,
                   rendered, freed>>

TrimmedFrame ==
    /\ renderer.pc = "trimming"
    /\ freed' = freed \cup {renderer.frame}
    /\ TrimOne(renderer.target)
    /\ UNCHANGED <<pacingQueue, pacingHistory, renderHistory, deferredFree,
                   stopping, lockHeld, decoder, vsync, dtor, frameReady,
                   nextFrame, rendered>>

-----------------------------------------------------------------------------
(* ~Pacer, on the main thread, after FFmpegVideoDecoder::reset has joined  *)
(* the decoder thread.  No step takes m_FrameQueueLock.                    *)

DtorStop ==
    /\ dtor = "alive"
    /\ decoder = "idle"
    /\ HasRenderThread \/ renderer.pc = "ready"
    /\ decoder' = "exited"
    /\ stopping' = TRUE
    /\ dtor' = IF HasVsyncSource THEN "wakeVsync" ELSE "vsyncStopped"
    /\ UNCHANGED <<queueVars, deferredFree, lockHeld, vsync, renderer,
                   frameReady, nextFrame, rendered, freed>>

DtorWakeVsync ==
    /\ dtor = "wakeVsync"
    /\ WakeVsync
    /\ dtor' = "joinVsync"
    /\ UNCHANGED <<queueVars, deferredFree, stopping, lockHeld, decoder,
                   renderer, frameReady, nextFrame, rendered, freed>>

DtorJoinVsync ==
    /\ dtor = "joinVsync"
    /\ vsync.pc = "exited"
    /\ dtor' = "vsyncStopped"
    /\ UNCHANGED <<queueVars, deferredFree, stopping, lockHeld, decoder, vsync,
                   renderer, frameReady, nextFrame, rendered, freed>>

DtorWakeRender ==
    /\ dtor = "vsyncStopped"
    /\ HasRenderThread
    /\ WakeRenderer
    /\ dtor' = "joinRender"
    /\ UNCHANGED <<queueVars, deferredFree, stopping, lockHeld, decoder, vsync,
                   frameReady, nextFrame, rendered, freed>>

DtorFreeFrames ==
    /\ IF HasRenderThread
       THEN dtor = "joinRender" /\ renderer.pc = "exited"
       ELSE dtor = "vsyncStopped"
    /\ freed' = freed \cup ToSet(renderQueue) \cup ToSet(pacingQueue)
                      \cup NonNull(deferredFree)
    /\ renderQueue' = <<>> /\ pacingQueue' = <<>>
    /\ deferredFree' = NoFrame
    /\ dtor' = "destroyed"
    /\ UNCHANGED <<pacingHistory, renderHistory, stopping, lockHeld, decoder,
                   vsync, renderer, frameReady, nextFrame, rendered>>

\* Nothing is left to do.
Destroyed ==
    /\ dtor = "destroyed"
    /\ UNCHANGED vars

-----------------------------------------------------------------------------
DecoderStep ==
    SubmitForPacing \/ SubmitForRendering \/ DecoderWakesPacing
                    \/ DecoderWakesRender

VsyncStep ==
    \/ VsyncExit \/ VsyncTick \/ VsyncHandle \/ VsyncDropped
    \/ VsyncTimeout \/ VsyncWoken \/ VsyncWakesRender

RendererStep ==
    \/ RenderThreadExit \/ RenderThreadTake \/ RenderThreadTest
    \/ RenderThreadWait \/ RenderOnMainThread
    \/ RenderFrame \/ TrimRenderQueue \/ TrimmedFrame

DtorStep ==
    \/ DtorWakeVsync \/ DtorJoinVsync \/ DtorWakeRender \/ DtorFreeFrames

\* A fault ends the process: no thread takes another step.
Running == vsync.pc # "fault"

Next ==
    /\ Running
    /\ \/ DecoderStep \/ VsyncStep \/ RendererStep
       \/ DtorStop \/ DtorStep \/ Destroyed

Spec == Init /\ [][Next]_vars

\* Every thread that can run is scheduled.  Nothing says that more frames
\* arrive or that the pacer is ever destroyed.
Fairness ==
    /\ WF_vars(Running /\ (DecoderWakesPacing \/ DecoderWakesRender))
    /\ WF_vars(Running /\ VsyncStep)
    /\ WF_vars(Running /\ RendererStep)
    /\ WF_vars(Running /\ DtorStep)

FairSpec == Spec /\ Fairness

-----------------------------------------------------------------------------
(* Properties. *)

\* Frames a thread has taken off the queues and still has in its hands.
InHand == NonNull(vsync.frame) \cup NonNull(renderer.frame)
Queued == ToSet(pacingQueue) \cup ToSet(renderQueue)
Held == Queued \cup InHand \cup NonNull(deferredFree)
Submitted == 1..(nextFrame - 1)

\* The frame the renderer is drawing has left the queues but is not shown.
PendingFrames ==
    Queued \cup (IF renderer.pc = "rendering" THEN {renderer.frame} ELSE {})

\* The V-sync thread has a frame in its hands while it drops one, and the
\* renderer while it renders or drops one.
VsyncState ==
    [pc : {"dropping"}, target : Nat, frame : Frame]
        \cup [pc : {"top", "handle", "waiting", "woken", "wakeRender", "fault",
                   "exited"},
              target : Nat, frame : {NoFrame}]

RendererState ==
    [pc : {"rendering", "trimming"}, target : Nat, frame : Frame]
        \cup [pc : {"ready", "testing", "waiting", "trim", "exited"},
              target : Nat, frame : {NoFrame}]

\* The types of the variables, and the value of the history each loop keeps.
TypeOK ==
    /\ pacingQueue \in Seq(Frame) /\ Len(pacingQueue) <= MAX_QUEUED_FRAMES
    /\ renderQueue \in Seq(Frame) /\ Len(renderQueue) <= MAX_QUEUED_FRAMES
    /\ pacingHistory \in Seq(Nat) /\ Len(pacingHistory) <= DisplayFps \div 2
    /\ renderHistory \in Seq(Nat) /\ Len(renderHistory) <= MaxVideoFps \div 2
    /\ deferredFree \in Frame \cup {NoFrame}
    /\ stopping \in BOOLEAN
    /\ lockHeld \in BOOLEAN
    /\ decoder \in {"idle", "wakePacing", "wakeRender", "exited"}
    /\ vsync \in VsyncState
    /\ renderer \in RendererState
    /\ dtor \in {"alive", "wakeVsync", "joinVsync", "vsyncStopped",
                 "joinRender", "destroyed"}
    /\ frameReady \in Nat
    /\ nextFrame \in 1..(MaxFrames + 1)
    /\ rendered \in Frame \cup {NoFrame}
    /\ freed \in SUBSET Frame

\* Every decoded frame is in exactly one place or has been freed, never both:
\* no frame leaks and none is freed twice, whatever the threads do while the
\* lock is released around av_frame_free, and nothing is left once ~Pacer has
\* returned.
FramesAccountedFor ==
    /\ Held \cup freed = Submitted
    /\ Held \cap freed = {}
    /\ dtor = "destroyed" => freed = Submitted

\* The two queues hold the pictures in decode order, the render queue older
\* ones than the pacing queue, and all of them younger than the picture in
\* the renderer's hands and the one on screen.
FramesInOrder ==
    /\ \A i, j \in 1..Len(renderQueue) :
          i < j => renderQueue[i] < renderQueue[j]
    /\ \A i, j \in 1..Len(pacingQueue) :
          i < j => pacingQueue[i] < pacingQueue[j]
    /\ \A i \in 1..Len(renderQueue), j \in 1..Len(pacingQueue) :
          renderQueue[i] < pacingQueue[j]
    /\ \A f \in Queued : rendered < f /\ renderer.frame < f
    /\ \A i \in 1..Len(pacingQueue) : vsync.frame < pacingQueue[i]

\* The buffer of the picture on screen is not returned to the decoder while
\* the GPU may still read it: only after the next one is rendered, or when
\* the pacer is destroyed.
ShownFrameKept ==
    rendered # NoFrame /\ dtor # "destroyed" => rendered \notin freed

\* With main-thread rendering there is an event on its way, or about to be
\* pushed, for every frame of the render queue: none is stranded there.
EventForEachFrame ==
    ~HasRenderThread =>
        Len(renderQueue) <= frameReady
                            + (IF decoder = "wakeRender" THEN 1 ELSE 0)
                            + (IF vsync.pc = "wakeRender" THEN 1 ELSE 0)

\* The pacer never shows a picture twice, out of order, or after it has been
\* given up.
Pipeline == INSTANCE FramePipeline
    WITH next <- nextFrame, pending <- PendingFrames, shown <- rendered

\* The refinement: every step of the pacer's threads is one of the abstract
\* hand-off's, or none of its business.
PipelineSpec == Pipeline!Spec

\* While the pacer is not being torn down, every frame submitted is shown or
\* freed sooner or later: no wake-up that a frame depends on is lost.
FrameResolved ==
    \A f \in Frame :
        f \in Submitted ~> \/ f \in freed \/ f = rendered
                           \/ dtor # "alive" \/ ~Running

\* pacer.cpp:258 "Place the first frame on the render queue": there is one.
FirstFrameExists == vsync.pc # "fault"

\* pacer.cpp:61 "Stop the render thread": the destructor's wake-up and join
\* do stop it.
DestructorReturns == (dtor = "joinRender") ~> (dtor = "destroyed")
=============================================================================
