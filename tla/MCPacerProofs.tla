--------------------------- MODULE MCPacerProofs ---------------------------
(***************************************************************************)
(* What PacerProofs and PacerFrameProofs prove for every kind of renderer, *)
(* on the two paths that MCPacer puts together: each path is an instance of*)
(* Pacer, and here also of the proofs about it.                            *)
(***************************************************************************)
EXTENDS MCPacer, TLAPS

OnMainThread == INSTANCE PacerFrameProofs
    WITH DisplayFps <- 4, MaxVideoFps <- 2, HasVsyncSource <- TRUE,
         HasRenderThread <- FALSE, NoBuffering <- FALSE

OnRenderThread == INSTANCE PacerFrameProofs
    WITH DisplayFps <- 4, MaxVideoFps <- 4, HasVsyncSource <- FALSE,
         HasRenderThread <- TRUE, NoBuffering <- TRUE

LEMMA PathAssumptions ==
    OnMainThread!PacerAssumption /\ OnRenderThread!PacerAssumption
  BY PathAssumption
     DEF OnMainThread!PacerAssumption, OnRenderThread!PacerAssumption

-----------------------------------------------------------------------------
(* The two instances of Pacer on each path are the same, part by part.     *)

LEMMA MainThreadIs ==
    /\ MainThread!Init => OnMainThread!Init
    /\ MainThread!Next => OnMainThread!Next
    /\ OnMainThread!FramesAccountedFor => MainThread!FramesAccountedFor
    /\ OnMainThread!EventForEachFrame => MainThread!EventForEachFrame
  <1> USE DEF
        MainThread!queueVars, OnMainThread!queueVars, MainThread!threadVars,
        OnMainThread!threadVars, MainThread!vars, OnMainThread!vars,
        MainThread!NoFrame, OnMainThread!NoFrame, MainThread!NonNull,
        OnMainThread!NonNull, MainThread!ToSet, OnMainThread!ToSet
  <1>1. MainThread!DecoderStep => OnMainThread!DecoderStep
    BY DEF
      MainThread!SubmitForPacing, OnMainThread!SubmitForPacing,
      MainThread!SubmitForRendering, OnMainThread!SubmitForRendering,
      MainThread!DecoderWakesPacing, OnMainThread!DecoderWakesPacing,
      MainThread!DecoderWakesRender, OnMainThread!DecoderWakesRender,
      MainThread!DropForEnqueue, OnMainThread!DropForEnqueue,
      MainThread!DroppedForEnqueue, OnMainThread!DroppedForEnqueue,
      MainThread!WakeRenderer, OnMainThread!WakeRenderer,
      MainThread!WakeVsync, OnMainThread!WakeVsync, MainThread!DecoderStep,
      OnMainThread!DecoderStep
  <1>2. MainThread!VsyncStep => OnMainThread!VsyncStep
    BY DEF
      MainThread!VsyncExit, OnMainThread!VsyncExit, MainThread!VsyncTick,
      OnMainThread!VsyncTick, MainThread!VsyncHandle,
      OnMainThread!VsyncHandle, MainThread!VsyncDropped,
      OnMainThread!VsyncDropped, MainThread!VsyncTimeout,
      OnMainThread!VsyncTimeout, MainThread!VsyncWoken,
      OnMainThread!VsyncWoken, MainThread!VsyncWakesRender,
      OnMainThread!VsyncWakesRender, MainThread!VsyncDropTarget,
      OnMainThread!VsyncDropTarget, MainThread!VsyncDropOne,
      OnMainThread!VsyncDropOne, MainThread!VsyncWaitForFrame,
      OnMainThread!VsyncWaitForFrame, MainThread!Promote,
      OnMainThread!Promote, MainThread!DropForEnqueue,
      OnMainThread!DropForEnqueue, MainThread!DroppedForEnqueue,
      OnMainThread!DroppedForEnqueue, MainThread!Rolled, OnMainThread!Rolled,
      MainThread!WakeRenderer, OnMainThread!WakeRenderer,
      MainThread!VsyncStep, OnMainThread!VsyncStep
  <1>3. MainThread!RendererStep => OnMainThread!RendererStep
    BY DEF
      MainThread!RenderThreadExit, OnMainThread!RenderThreadExit,
      MainThread!RenderThreadTake, OnMainThread!RenderThreadTake,
      MainThread!RenderThreadTest, OnMainThread!RenderThreadTest,
      MainThread!RenderThreadWait, OnMainThread!RenderThreadWait,
      MainThread!RenderOnMainThread, OnMainThread!RenderOnMainThread,
      MainThread!RenderFrame, OnMainThread!RenderFrame,
      MainThread!TrimRenderQueue, OnMainThread!TrimRenderQueue,
      MainThread!TrimmedFrame, OnMainThread!TrimmedFrame,
      MainThread!TakeFrame, OnMainThread!TakeFrame, MainThread!TrimOne,
      OnMainThread!TrimOne, MainThread!RenderDropTarget,
      OnMainThread!RenderDropTarget, MainThread!Rolled, OnMainThread!Rolled,
      MainThread!RendererStep, OnMainThread!RendererStep
  <1>4. MainThread!DtorStep => OnMainThread!DtorStep
    BY DEF
      MainThread!DtorWakeVsync, OnMainThread!DtorWakeVsync,
      MainThread!DtorJoinVsync, OnMainThread!DtorJoinVsync,
      MainThread!DtorWakeRender, OnMainThread!DtorWakeRender,
      MainThread!DtorFreeFrames, OnMainThread!DtorFreeFrames,
      MainThread!WakeVsync, OnMainThread!WakeVsync, MainThread!WakeRenderer,
      OnMainThread!WakeRenderer, MainThread!DtorStep, OnMainThread!DtorStep
  <1>5. MainThread!Next => OnMainThread!Next
    BY <1>1, <1>2, <1>3, <1>4 DEF
      MainThread!DtorStop, OnMainThread!DtorStop, MainThread!Destroyed,
      OnMainThread!Destroyed, MainThread!Running, OnMainThread!Running,
      MainThread!Next, OnMainThread!Next
  <1>6. MainThread!Init => OnMainThread!Init
    BY DEF
      MainThread!Init, OnMainThread!Init
  <1>7. OnMainThread!FramesAccountedFor => MainThread!FramesAccountedFor
    BY DEF
      MainThread!InHand, OnMainThread!InHand, MainThread!Queued,
      OnMainThread!Queued, MainThread!Held, OnMainThread!Held,
      MainThread!Submitted, OnMainThread!Submitted,
      MainThread!FramesAccountedFor, OnMainThread!FramesAccountedFor
  <1>8. OnMainThread!EventForEachFrame => MainThread!EventForEachFrame
    BY DEF
      MainThread!EventForEachFrame, OnMainThread!EventForEachFrame
  <1> QED
    BY <1>5, <1>6, <1>7, <1>8

LEMMA RenderThreadIs ==
    /\ RenderThread!Init => OnRenderThread!Init
    /\ RenderThread!Next => OnRenderThread!Next
    /\ OnRenderThread!FramesAccountedFor => RenderThread!FramesAccountedFor
  <1> USE DEF
        RenderThread!queueVars, OnRenderThread!queueVars,
        RenderThread!threadVars, OnRenderThread!threadVars, RenderThread!vars,
        OnRenderThread!vars, RenderThread!NoFrame, OnRenderThread!NoFrame,
        RenderThread!NonNull, OnRenderThread!NonNull, RenderThread!ToSet,
        OnRenderThread!ToSet
  <1>1. RenderThread!DecoderStep => OnRenderThread!DecoderStep
    BY DEF
      RenderThread!SubmitForPacing, OnRenderThread!SubmitForPacing,
      RenderThread!SubmitForRendering, OnRenderThread!SubmitForRendering,
      RenderThread!DecoderWakesPacing, OnRenderThread!DecoderWakesPacing,
      RenderThread!DecoderWakesRender, OnRenderThread!DecoderWakesRender,
      RenderThread!DropForEnqueue, OnRenderThread!DropForEnqueue,
      RenderThread!DroppedForEnqueue, OnRenderThread!DroppedForEnqueue,
      RenderThread!WakeRenderer, OnRenderThread!WakeRenderer,
      RenderThread!WakeVsync, OnRenderThread!WakeVsync,
      RenderThread!DecoderStep, OnRenderThread!DecoderStep
  <1>2. RenderThread!VsyncStep => OnRenderThread!VsyncStep
    BY DEF
      RenderThread!VsyncExit, OnRenderThread!VsyncExit,
      RenderThread!VsyncTick, OnRenderThread!VsyncTick,
      RenderThread!VsyncHandle, OnRenderThread!VsyncHandle,
      RenderThread!VsyncDropped, OnRenderThread!VsyncDropped,
      RenderThread!VsyncTimeout, OnRenderThread!VsyncTimeout,
      RenderThread!VsyncWoken, OnRenderThread!VsyncWoken,
      RenderThread!VsyncWakesRender, OnRenderThread!VsyncWakesRender,
      RenderThread!VsyncDropTarget, OnRenderThread!VsyncDropTarget,
      RenderThread!VsyncDropOne, OnRenderThread!VsyncDropOne,
      RenderThread!VsyncWaitForFrame, OnRenderThread!VsyncWaitForFrame,
      RenderThread!Promote, OnRenderThread!Promote,
      RenderThread!DropForEnqueue, OnRenderThread!DropForEnqueue,
      RenderThread!DroppedForEnqueue, OnRenderThread!DroppedForEnqueue,
      RenderThread!Rolled, OnRenderThread!Rolled, RenderThread!WakeRenderer,
      OnRenderThread!WakeRenderer, RenderThread!VsyncStep,
      OnRenderThread!VsyncStep
  <1>3. RenderThread!RendererStep => OnRenderThread!RendererStep
    BY DEF
      RenderThread!RenderThreadExit, OnRenderThread!RenderThreadExit,
      RenderThread!RenderThreadTake, OnRenderThread!RenderThreadTake,
      RenderThread!RenderThreadTest, OnRenderThread!RenderThreadTest,
      RenderThread!RenderThreadWait, OnRenderThread!RenderThreadWait,
      RenderThread!RenderOnMainThread, OnRenderThread!RenderOnMainThread,
      RenderThread!RenderFrame, OnRenderThread!RenderFrame,
      RenderThread!TrimRenderQueue, OnRenderThread!TrimRenderQueue,
      RenderThread!TrimmedFrame, OnRenderThread!TrimmedFrame,
      RenderThread!TakeFrame, OnRenderThread!TakeFrame, RenderThread!TrimOne,
      OnRenderThread!TrimOne, RenderThread!RenderDropTarget,
      OnRenderThread!RenderDropTarget, RenderThread!Rolled,
      OnRenderThread!Rolled, RenderThread!RendererStep,
      OnRenderThread!RendererStep
  <1>4. RenderThread!DtorStep => OnRenderThread!DtorStep
    BY DEF
      RenderThread!DtorWakeVsync, OnRenderThread!DtorWakeVsync,
      RenderThread!DtorJoinVsync, OnRenderThread!DtorJoinVsync,
      RenderThread!DtorWakeRender, OnRenderThread!DtorWakeRender,
      RenderThread!DtorFreeFrames, OnRenderThread!DtorFreeFrames,
      RenderThread!WakeVsync, OnRenderThread!WakeVsync,
      RenderThread!WakeRenderer, OnRenderThread!WakeRenderer,
      RenderThread!DtorStep, OnRenderThread!DtorStep
  <1>5. RenderThread!Next => OnRenderThread!Next
    BY <1>1, <1>2, <1>3, <1>4 DEF
      RenderThread!DtorStop, OnRenderThread!DtorStop, RenderThread!Destroyed,
      OnRenderThread!Destroyed, RenderThread!Running, OnRenderThread!Running,
      RenderThread!Next, OnRenderThread!Next
  <1>6. RenderThread!Init => OnRenderThread!Init
    BY DEF
      RenderThread!Init, OnRenderThread!Init
  <1>7. OnRenderThread!FramesAccountedFor => RenderThread!FramesAccountedFor
    BY DEF
      RenderThread!InHand, OnRenderThread!InHand, RenderThread!Queued,
      OnRenderThread!Queued, RenderThread!Held, OnRenderThread!Held,
      RenderThread!Submitted, OnRenderThread!Submitted,
      RenderThread!FramesAccountedFor, OnRenderThread!FramesAccountedFor
  <1> QED
    BY <1>5, <1>6, <1>7

-----------------------------------------------------------------------------
(* The invariant: that of the proofs, on the path that is taken.           *)

PathInv ==
    \/ path = "main thread" /\ OnMainThread!FrameInv
                            /\ OnMainThread!EventForEachFrame
    \/ path = "render thread" /\ OnRenderThread!FrameInv

LEMMA PathInit ==
    ASSUME MCInit
    PROVE  PathInv
  BY PathAssumptions, MainThreadIs, RenderThreadIs, OnMainThread!FrameInit,
     OnMainThread!EventInit, OnRenderThread!FrameInit
     DEF MCInit, PathInv

LEMMA PathStep ==
    ASSUME PathInv, [MCNext]_mcVars
    PROVE  PathInv'
  <1>1. /\ path' = path
        /\ path = "main thread" => [OnMainThread!Next]_OnMainThread!vars
        /\ path = "render thread" => [OnRenderThread!Next]_OnRenderThread!vars
    <2>1. CASE MCNext
      BY <2>1, MainThreadIs, RenderThreadIs DEF MCNext
    <2>2. CASE UNCHANGED mcVars
      BY <2>2
         DEF mcVars, MainThread!vars, MainThread!queueVars,
             MainThread!threadVars, OnMainThread!vars,
             OnMainThread!queueVars, OnMainThread!threadVars,
             OnRenderThread!vars, OnRenderThread!queueVars,
             OnRenderThread!threadVars
    <2> QED
      BY <2>1, <2>2
  <1>2. CASE path = "main thread"
    <2>1. OnMainThread!FrameInv'
      BY <1>1, <1>2, PathAssumptions, OnMainThread!FrameStep DEF PathInv
    <2>2. OnMainThread!TypeOK
      BY <1>2 DEF PathInv, OnMainThread!FrameInv, OnMainThread!OrderInv
    <2>3. OnMainThread!EventForEachFrame'
      BY <1>1, <1>2, <2>2, PathAssumptions, OnMainThread!EventStep DEF PathInv
    <2> QED
      BY <1>1, <1>2, <2>1, <2>3 DEF PathInv
  <1>3. CASE path = "render thread"
    BY <1>1, <1>3, PathAssumptions, OnRenderThread!FrameStep DEF PathInv
  <1> QED
    BY <1>2, <1>3 DEF PathInv

LEMMA PathInvariant == MCSpec => []PathInv
  BY PathInit, PathStep, PTL DEF MCSpec

\* On either path a frame is in one place until it is freed, once.
THEOREM PathFramesCorrect == MCSpec => []FramesAccountedFor
  <1>1. PathInv => FramesAccountedFor
    BY PathAssumptions, MainThreadIs, RenderThreadIs,
       OnMainThread!FrameInvImplies, OnRenderThread!FrameInvImplies
       DEF PathInv, FramesAccountedFor
  <1> QED
    BY <1>1, PathInvariant, PTL

\* Where frames are rendered on the main thread an event is on its way for
\* each of them.
THEOREM PathEventCorrect == MCSpec => []EventForEachFrame
  <1>1. PathInv => EventForEachFrame
    BY MainThreadIs DEF PathInv, EventForEachFrame
  <1> QED
    BY <1>1, PathInvariant, PTL
=============================================================================
