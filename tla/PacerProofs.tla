---------------------------- MODULE PacerProofs ----------------------------
(***************************************************************************)
(* Proofs about the pacer, for every queue capacity, frame rate, number of *)
(* frames and choice of threads: its types, and that it keeps the pictures *)
(* in decode order and implements the abstract hand-off FramePipeline,     *)
(* whatever its threads do.                                                *)
(***************************************************************************)
EXTENDS Pacer, TLAPS

-----------------------------------------------------------------------------
(* Sequences. *)

\* The elements of the tail of a queue: QQueue::dequeue of the code.
LEMMA TailProperties ==
    ASSUME NEW S, NEW q \in Seq(S), q # <<>>
    PROVE  /\ Head(q) \in S
           /\ Head(q) = q[1]
           /\ Tail(q) \in Seq(S)
           /\ Len(q) \in Nat \ {0}
           /\ Len(Tail(q)) = Len(q) - 1
           /\ \A i \in 1..(Len(q) - 1) : Tail(q)[i] = q[i + 1]
  OBVIOUS

\* The elements of a queue to which one is appended: QQueue::enqueue.
LEMMA AppendProperties ==
    ASSUME NEW S, NEW q \in Seq(S), NEW x \in S
    PROVE  /\ Append(q, x) \in Seq(S)
           /\ Len(Append(q, x)) = Len(q) + 1
           /\ \A i \in 1..Len(q) : Append(q, x)[i] = q[i]
           /\ Append(q, x)[Len(q) + 1] = x
  OBVIOUS

\* dropFrameForEnqueue makes room for one frame.
LEMMA DropForEnqueueProperties ==
    ASSUME NEW q \in Seq(Frame), Len(q) <= MAX_QUEUED_FRAMES
    PROVE  /\ DropForEnqueue(q) \in Seq(Frame)
           /\ Len(DropForEnqueue(q)) < MAX_QUEUED_FRAMES
           /\ Len(DropForEnqueue(q)) <= Len(q)
           /\ \E k \in {0, 1} :
                 /\ Len(DropForEnqueue(q)) = Len(q) - k
                 /\ \A i \in 1..(Len(q) - k) : DropForEnqueue(q)[i] = q[i + k]
  <1>1. CASE Len(q) = MAX_QUEUED_FRAMES
    <2>1. q # <<>>
      BY <1>1, PacerAssumption
    <2>2. DropForEnqueue(q) = Tail(q)
      BY <1>1 DEF DropForEnqueue
    <2> QED
      BY <1>1, <2>1, <2>2, TailProperties, PacerAssumption
  <1>2. CASE Len(q) # MAX_QUEUED_FRAMES
    <2>1. DropForEnqueue(q) = q
      BY <1>2 DEF DropForEnqueue
    <2>2. Len(q) \in Nat
      OBVIOUS
    <2> QED
      BY <1>2, <2>1, <2>2, PacerAssumption
  <1> QED
    BY <1>1, <1>2

\* What dropFrameForEnqueue drops is a frame.
LEMMA DroppedForEnqueueType ==
    ASSUME NEW q \in Seq(Frame), Len(q) <= MAX_QUEUED_FRAMES
    PROVE  DroppedForEnqueue(q) \in SUBSET Frame
  <1>1. CASE Len(q) = MAX_QUEUED_FRAMES
    <2>1. q # <<>>
      BY <1>1, PacerAssumption
    <2> QED
      BY <2>1, TailProperties DEF DroppedForEnqueue
  <1>2. CASE Len(q) # MAX_QUEUED_FRAMES
    BY <1>2 DEF DroppedForEnqueue
  <1> QED
    BY <1>1, <1>2

\* A rolling history stays within its cap.
LEMMA RolledType ==
    ASSUME NEW h \in Seq(Nat), NEW cap \in Nat \ {0}, NEW n \in Nat,
           Len(h) <= cap
    PROVE  Rolled(h, cap, n) \in Seq(Nat) /\ Len(Rolled(h, cap, n)) <= cap
  <1>1. CASE Len(h) = cap
    <2>1. h # <<>>
      BY <1>1
    <2>2. Tail(h) \in Seq(Nat) /\ Len(Tail(h)) = cap - 1
      BY <1>1, <2>1, TailProperties
    <2>3. Rolled(h, cap, n) = Append(Tail(h), n)
      BY <1>1 DEF Rolled
    <2> QED
      BY <2>2, <2>3, AppendProperties
  <1>2. CASE Len(h) # cap
    <2>1. Rolled(h, cap, n) = Append(h, n)
      BY <1>2 DEF Rolled
    <2>2. Len(h) \in Nat
      OBVIOUS
    <2> QED
      BY <1>2, <2>1, <2>2, AppendProperties
  <1> QED
    BY <1>1, <1>2

-----------------------------------------------------------------------------
(* Type correctness. *)

LEMMA PromoteType ==
    ASSUME TypeOK, NEW t \in Nat, Promote(t)
    PROVE  /\ pacingQueue' \in Seq(Frame)
           /\ Len(pacingQueue') <= MAX_QUEUED_FRAMES
           /\ renderQueue' \in Seq(Frame)
           /\ Len(renderQueue') <= MAX_QUEUED_FRAMES
  <1>1. pacingQueue # <<>>
    BY DEF Promote, TypeOK
  <1>2. /\ Head(pacingQueue) \in Frame
        /\ Tail(pacingQueue) \in Seq(Frame)
        /\ Len(Tail(pacingQueue)) <= MAX_QUEUED_FRAMES
    BY <1>1, TailProperties, PacerAssumption DEF TypeOK
  <1>3. /\ DropForEnqueue(renderQueue) \in Seq(Frame)
        /\ Len(DropForEnqueue(renderQueue)) < MAX_QUEUED_FRAMES
    BY DropForEnqueueProperties DEF TypeOK
  <1> QED
    BY <1>2, <1>3, AppendProperties, PacerAssumption DEF Promote

\* The elements of a queue of frames are frames.
LEMMA ToSetType ==
    ASSUME NEW q \in Seq(Frame)
    PROVE  ToSet(q) \in SUBSET Frame
  BY DEF ToSet

LEMMA TypeInit ==
    ASSUME Init
    PROVE  TypeOK
  <1>1. DisplayFps \div 2 \in Nat /\ MaxVideoFps \div 2 \in Nat
    BY PacerAssumption
  <1>2. /\ pacingQueue \in Seq(Frame) /\ Len(pacingQueue) = 0
        /\ renderQueue \in Seq(Frame) /\ Len(renderQueue) = 0
        /\ pacingHistory \in Seq(Nat) /\ Len(pacingHistory) = 0
        /\ renderHistory \in Seq(Nat) /\ Len(renderHistory) = 0
    BY DEF Init
  <1>3. vsync \in VsyncState /\ renderer \in RendererState
    BY DEF Init, VsyncState, RendererState
  <1>4. nextFrame \in 1..(MaxFrames + 1)
    BY PacerAssumption DEF Init
  <1>5. /\ Len(pacingQueue) <= MAX_QUEUED_FRAMES
        /\ Len(renderQueue) <= MAX_QUEUED_FRAMES
        /\ Len(pacingHistory) <= DisplayFps \div 2
        /\ Len(renderHistory) <= MaxVideoFps \div 2
    BY <1>1, <1>2, PacerAssumption
  <1>6. /\ deferredFree \in Frame \cup {NoFrame}
        /\ rendered \in Frame \cup {NoFrame}
        /\ freed \in SUBSET Frame
        /\ frameReady \in Nat
    BY DEF Init
  <1>7. /\ stopping \in BOOLEAN /\ lockHeld \in BOOLEAN
        /\ decoder \in {"idle", "wakePacing", "wakeRender", "exited"}
        /\ dtor \in {"alive", "wakeVsync", "joinVsync", "vsyncStopped",
                     "joinRender", "destroyed"}
    BY DEF Init
  <1> QED
    BY <1>2, <1>3, <1>4, <1>5, <1>6, <1>7 DEF TypeOK

\* Moving a thread keeps the type of its record.
LEMMA PcTypes ==
    ASSUME TypeOK
    PROVE  /\ vsync.pc # "dropping" =>
                 \A p \in {"top", "handle", "woken", "fault", "exited"} :
                    [vsync EXCEPT !.pc = p] \in VsyncState
           /\ renderer.pc \notin {"rendering", "trimming"} =>
                 \A p \in {"ready", "testing", "waiting", "exited"} :
                    [renderer EXCEPT !.pc = p] \in RendererState
  <1>1. ASSUME vsync.pc # "dropping",
               NEW p \in {"top", "handle", "woken", "fault", "exited"}
        PROVE  [vsync EXCEPT !.pc = p] \in VsyncState
    BY <1>1 DEF TypeOK, VsyncState
  <1>2. ASSUME renderer.pc \notin {"rendering", "trimming"},
               NEW p \in {"ready", "testing", "waiting", "exited"}
        PROVE  [renderer EXCEPT !.pc = p] \in RendererState
    BY <1>2 DEF TypeOK, RendererState
  <1> QED
    BY <1>1, <1>2

\* What the threads have in their hands.
LEMMA HandTypes ==
    ASSUME TypeOK
    PROVE  /\ vsync.target \in Nat /\ renderer.target \in Nat
           /\ vsync.frame \in Frame \cup {NoFrame}
           /\ renderer.frame \in Frame \cup {NoFrame}
           /\ vsync.pc = "dropping" => vsync.frame \in Frame
           /\ renderer.pc \in {"rendering", "trimming"} => renderer.frame \in Frame
  BY DEF TypeOK, VsyncState, RendererState

LEMMA WakeTypes ==
    ASSUME TypeOK
    PROVE  /\ WakeVsync => vsync' \in VsyncState
           /\ WakeRenderer => renderer' \in RendererState
           /\ UNCHANGED vsync => vsync' \in VsyncState
           /\ UNCHANGED renderer => renderer' \in RendererState
  BY PcTypes DEF WakeVsync, WakeRenderer, TypeOK

\* Every action of the decoder thread keeps the types.
LEMMA TypeDecoder ==
    ASSUME TypeOK, DecoderStep
    PROVE  TypeOK'
  <1>1. CASE SubmitForPacing
    <2>1. nextFrame \in Frame
      BY <1>1, PacerAssumption DEF SubmitForPacing, TypeOK, Frame
    <2>2. /\ pacingQueue' \in Seq(Frame)
          /\ Len(pacingQueue') <= MAX_QUEUED_FRAMES
      BY <1>1, <2>1, DropForEnqueueProperties, AppendProperties,
         PacerAssumption DEF SubmitForPacing, TypeOK
    <2>3. freed' \in SUBSET Frame
      BY <1>1, DroppedForEnqueueType DEF SubmitForPacing, TypeOK
    <2> QED
      BY <1>1, <2>2, <2>3, PacerAssumption DEF SubmitForPacing, TypeOK
  <1>2. CASE SubmitForRendering
    <2>1. nextFrame \in Frame
      BY <1>2, PacerAssumption DEF SubmitForRendering, TypeOK, Frame
    <2>2. /\ renderQueue' \in Seq(Frame)
          /\ Len(renderQueue') <= MAX_QUEUED_FRAMES
      BY <1>2, <2>1, DropForEnqueueProperties, AppendProperties,
         PacerAssumption DEF SubmitForRendering, TypeOK
    <2>3. freed' \in SUBSET Frame
      BY <1>2, DroppedForEnqueueType DEF SubmitForRendering, TypeOK
    <2> QED
      BY <1>2, <2>2, <2>3, PacerAssumption DEF SubmitForRendering, TypeOK
  <1>3. CASE DecoderWakesPacing
    BY <1>3, WakeTypes DEF DecoderWakesPacing, TypeOK, queueVars
  <1>4. CASE DecoderWakesRender
    <2>1. renderer' \in RendererState /\ frameReady' \in Nat
      BY <1>4, WakeTypes DEF DecoderWakesRender, TypeOK
    <2> QED
      BY <1>4, <2>1 DEF DecoderWakesRender, TypeOK, queueVars
  <1> QED
    BY <1>1, <1>2, <1>3, <1>4 DEF DecoderStep

\* The three outcomes of the drop loop keep the types of the queues and of
\* the V-sync thread.
LEMMA DropLoopType ==
    ASSUME TypeOK, NEW t \in Nat,
           VsyncDropOne(t) \/ VsyncWaitForFrame(t) \/ Promote(t)
    PROVE  /\ pacingQueue' \in Seq(Frame)
           /\ Len(pacingQueue') <= MAX_QUEUED_FRAMES
           /\ renderQueue' \in Seq(Frame)
           /\ Len(renderQueue') <= MAX_QUEUED_FRAMES
           /\ vsync' \in VsyncState
  <1>1. CASE VsyncDropOne(t)
    <2>1. pacingQueue # <<>>
      BY <1>1 DEF VsyncDropOne, TypeOK
    <2> QED
      BY <1>1, <2>1, TailProperties, PacerAssumption 
         DEF VsyncDropOne, VsyncState, TypeOK
  <1>2. CASE VsyncWaitForFrame(t)
    BY <1>2 DEF VsyncWaitForFrame, VsyncState, TypeOK
  <1>3. CASE Promote(t)
    BY <1>3, PromoteType DEF Promote, VsyncState
  <1> QED
    BY <1>1, <1>2, <1>3

\* Every action of the V-sync thread keeps the types.
LEMMA TypeVsync ==
    ASSUME TypeOK, VsyncStep
    PROVE  TypeOK'
  <1>1. CASE VsyncHandle
    <2>1. VsyncDropTarget \in Nat
      BY DEF VsyncDropTarget
    <2>2. /\ pacingHistory' \in Seq(Nat)
          /\ Len(pacingHistory') <= DisplayFps \div 2
      <3>1. DisplayFps \div 2 \in Nat \ {0}
        BY PacerAssumption
      <3>2. Len(pacingQueue) \in Nat
        BY DEF TypeOK
      <3> QED
        BY <1>1, <3>1, <3>2, RolledType DEF VsyncHandle, TypeOK
    <2>3. freed' \in SUBSET Frame
      BY <1>1, DroppedForEnqueueType DEF VsyncHandle, TypeOK
    <2>4. \/ VsyncDropOne(VsyncDropTarget)
          \/ VsyncWaitForFrame(VsyncDropTarget)
          \/ Promote(VsyncDropTarget)
      BY <1>1 DEF VsyncHandle
    <2> HIDE DEF VsyncDropTarget
    <2> QED
      BY <1>1, <2>1, <2>2, <2>3, <2>4, DropLoopType DEF VsyncHandle, TypeOK
  <1>2. CASE VsyncDropped
    <2>1. vsync.target \in Nat /\ vsync.frame \in Frame
      BY <1>2, HandTypes DEF VsyncDropped
    <2>2. \/ VsyncDropOne(vsync.target)
          \/ VsyncWaitForFrame(vsync.target)
          \/ Promote(vsync.target)
      BY <1>2 DEF VsyncDropped
    <2>3. freed' \in SUBSET Frame
      BY <1>2, <2>1, DroppedForEnqueueType DEF VsyncDropped, TypeOK
    <2> QED
      BY <1>2, <2>1, <2>2, <2>3, DropLoopType DEF VsyncDropped, TypeOK
  <1>3. CASE VsyncWoken
    <2>1. CASE ~stopping /\ pacingQueue # <<>> /\ Promote(Len(pacingQueue))
               /\ freed' = freed \cup DroppedForEnqueue(renderQueue)
      <3>1. Len(pacingQueue) \in Nat
        BY DEF TypeOK
      <3>2. freed' \in SUBSET Frame
        BY <2>1, DroppedForEnqueueType DEF TypeOK
      <3> QED
        BY <1>3, <2>1, <3>1, <3>2, DropLoopType DEF VsyncWoken, TypeOK
    <2>2. CASE /\ UNCHANGED <<pacingQueue, renderQueue, freed>>
               /\ \/ vsync' = [vsync EXCEPT !.pc = "top"]
                  \/ vsync' = [vsync EXCEPT !.pc = "fault"]
      BY <1>3, <2>2, PcTypes DEF VsyncWoken, TypeOK
    <2> QED
      BY <1>3, <2>1, <2>2 DEF VsyncWoken
  <1>4. CASE VsyncExit
    BY <1>4, PcTypes DEF VsyncExit, TypeOK, queueVars
  <1>5. CASE VsyncTick
    BY <1>5, PcTypes DEF VsyncTick, TypeOK, queueVars
  <1>6. CASE VsyncTimeout
    BY <1>6, PcTypes DEF VsyncTimeout, TypeOK, queueVars
  <1>7. CASE VsyncWakesRender
    <2>1. renderer' \in RendererState /\ frameReady' \in Nat
      BY <1>7, WakeTypes DEF VsyncWakesRender, TypeOK
    <2> QED
      BY <1>7, <2>1, PcTypes DEF VsyncWakesRender, TypeOK, queueVars
  <1> QED
    BY <1>1, <1>2, <1>3, <1>4, <1>5, <1>6, <1>7 DEF VsyncStep

LEMMA TakeFrameType ==
    ASSUME TypeOK, TakeFrame
    PROVE  /\ renderQueue' \in Seq(Frame)
           /\ Len(renderQueue') <= MAX_QUEUED_FRAMES
           /\ renderer' \in RendererState
  BY TailProperties, PacerAssumption DEF TakeFrame, RendererState, TypeOK

LEMMA TrimOneType ==
    ASSUME TypeOK, NEW t \in Nat, TrimOne(t)
    PROVE  /\ renderQueue' \in Seq(Frame)
           /\ Len(renderQueue') <= MAX_QUEUED_FRAMES
           /\ renderer' \in RendererState
  <1>1. CASE Len(renderQueue) > t /\ renderQueue' = Tail(renderQueue)
             /\ renderer' = [pc |-> "trimming", target |-> t,
                             frame |-> Head(renderQueue)]
    <2>1. renderQueue # <<>>
      BY <1>1 DEF TypeOK
    <2> QED
      BY <1>1, <2>1, TailProperties, PacerAssumption DEF RendererState, TypeOK
  <1>2. CASE /\ renderer' = [pc |-> "ready", target |-> 0, frame |-> NoFrame]
             /\ UNCHANGED renderQueue
    BY <1>2 DEF RendererState, TypeOK
  <1> QED
    BY <1>1, <1>2 DEF TrimOne

\* Every action of the renderer keeps the types.
LEMMA TypeRenderer ==
    ASSUME TypeOK, RendererStep
    PROVE  TypeOK'
  <1>1. CASE RenderThreadExit
    BY <1>1, PcTypes DEF RenderThreadExit, TypeOK, queueVars
  <1>2. CASE RenderThreadTake
    BY <1>2, TakeFrameType DEF RenderThreadTake, TypeOK
  <1>3. CASE RenderThreadTest
    BY <1>3, PcTypes DEF RenderThreadTest, TypeOK, queueVars
  <1>4. CASE RenderThreadWait
    BY <1>4, PcTypes DEF RenderThreadWait, TypeOK, queueVars
  <1>5. CASE RenderOnMainThread
    <2>1. frameReady' \in Nat
      BY <1>5 DEF RenderOnMainThread, TypeOK
    <2>2. /\ renderQueue' \in Seq(Frame)
          /\ Len(renderQueue') <= MAX_QUEUED_FRAMES
          /\ renderer' \in RendererState
      <3>1. CASE TakeFrame
        BY <3>1, TakeFrameType
      <3>2. CASE UNCHANGED <<renderQueue, renderer>>
        BY <3>2 DEF TypeOK
      <3> QED
        BY <1>5, <3>1, <3>2 DEF RenderOnMainThread
    <2> QED
      BY <1>5, <2>1, <2>2 DEF RenderOnMainThread, TypeOK
  <1>6. CASE RenderFrame
    <2>1. renderer.frame \in Frame
      BY <1>6, HandTypes DEF RenderFrame
    <2>2. renderer' \in RendererState
      BY <1>6 DEF RenderFrame, TypeOK, RendererState
    <2>3. freed' \in SUBSET Frame
      BY <1>6 DEF RenderFrame, NonNull, TypeOK
    <2> QED
      BY <1>6, <2>1, <2>2, <2>3 DEF RenderFrame, TypeOK, queueVars
  <1>7. CASE TrimRenderQueue
    <2>1. RenderDropTarget \in Nat
      BY DEF RenderDropTarget
    <2>2. /\ renderHistory' \in Seq(Nat)
          /\ Len(renderHistory') <= MaxVideoFps \div 2
      <3>1. MaxVideoFps \div 2 \in Nat \ {0}
        BY PacerAssumption
      <3>2. Len(renderQueue) \in Nat
        BY DEF TypeOK
      <3> QED
        BY <1>7, <3>1, <3>2, RolledType DEF TrimRenderQueue, TypeOK
    <2>3. TrimOne(RenderDropTarget)
      BY <1>7 DEF TrimRenderQueue
    <2> QED
      BY <1>7, <2>1, <2>2, <2>3, TrimOneType DEF TrimRenderQueue, TypeOK
  <1>8. CASE TrimmedFrame
    <2>1. /\ renderer.target \in Nat /\ renderer.frame \in Frame
          /\ TrimOne(renderer.target)
      BY <1>8, HandTypes DEF TrimmedFrame
    <2>2. freed' \in SUBSET Frame
      BY <1>8, <2>1 DEF TrimmedFrame, TypeOK
    <2> QED
      BY <1>8, <2>1, <2>2, TrimOneType DEF TrimmedFrame, TypeOK
  <1> QED
    BY <1>1, <1>2, <1>3, <1>4, <1>5, <1>6, <1>7, <1>8 DEF RendererStep

\* Every action of the destructor keeps the types.
LEMMA TypeDtor ==
    ASSUME TypeOK, DtorStop \/ DtorStep \/ Destroyed
    PROVE  TypeOK'
  <1>1. CASE DtorStop
    BY <1>1 DEF DtorStop, TypeOK, queueVars
  <1>2. CASE DtorWakeVsync
    BY <1>2, WakeTypes DEF DtorWakeVsync, TypeOK, queueVars
  <1>3. CASE DtorJoinVsync
    BY <1>3 DEF DtorJoinVsync, TypeOK, queueVars
  <1>4. CASE DtorWakeRender
    BY <1>4, WakeTypes DEF DtorWakeRender, TypeOK, queueVars
  <1>5. CASE DtorFreeFrames
    <2>1. freed' \in SUBSET Frame
      BY <1>5, ToSetType DEF DtorFreeFrames, NonNull, TypeOK
    <2>2. <<>> \in Seq(Frame) /\ Len(<<>>) <= MAX_QUEUED_FRAMES
      BY PacerAssumption
    <2> QED
      BY <1>5, <2>1, <2>2 DEF DtorFreeFrames, TypeOK
  <1>6. CASE Destroyed
    BY <1>6 DEF Destroyed, vars, TypeOK, queueVars, threadVars
  <1> QED
    BY <1>1, <1>2, <1>3, <1>4, <1>5, <1>6 DEF DtorStep

LEMMA TypeStep ==
    ASSUME TypeOK, [Next]_vars
    PROVE  TypeOK'
  <1>1. CASE UNCHANGED vars
    BY <1>1 DEF vars, TypeOK, queueVars, threadVars
  <1> QED
    BY <1>1, TypeDecoder, TypeVsync, TypeRenderer, TypeDtor DEF Next

\* The types of the pacer's state: neither queue outgrows its capacity, and
\* no history its cap, in any step of any thread.
THEOREM TypeCorrect == Spec => []TypeOK
  BY TypeInit, TypeStep, PTL DEF Spec

-----------------------------------------------------------------------------
(* The inductive invariant.  FramesInOrder alone is not inductive: a frame *)
(* that is submitted must be younger than all the others, one that is taken*)
(* to be rendered younger than the one on screen, and a pacer without a    *)
(* V-sync thread must leave its pacing queue empty.                        *)

Increasing(q) == \A i, j \in 1..Len(q) : i < j => q[i] < q[j]
Above(q, n) == \A i \in 1..Len(q) : n < q[i]
Below(q, n) == \A i \in 1..Len(q) : q[i] < n
Before(p, q) == \A i \in 1..Len(p), j \in 1..Len(q) : p[i] < q[j]

QueueOrder ==
    /\ Increasing(renderQueue) /\ Increasing(pacingQueue)
    /\ Before(renderQueue, pacingQueue)
    /\ Below(renderQueue, nextFrame) /\ Below(pacingQueue, nextFrame)
    /\ ~HasVsyncSource => pacingQueue = <<>>

\* Pictures that have left the queues.
HandOrder ==
    /\ Above(renderQueue, rendered) /\ Above(pacingQueue, rendered)
    /\ Above(renderQueue, renderer.frame) /\ Above(pacingQueue, renderer.frame)
    /\ Above(pacingQueue, vsync.frame)
    /\ rendered < nextFrame
    /\ renderer.frame < nextFrame
    /\ vsync.frame < nextFrame
    /\ renderer.pc = "rendering" => rendered < renderer.frame

OrderInv == TypeOK /\ QueueOrder /\ HandOrder

-----------------------------------------------------------------------------
(* Order and the operations on queues. *)

LEMMA TailOrder ==
    ASSUME NEW q \in Seq(Nat), q # <<>>, Increasing(q)
    PROVE  /\ Increasing(Tail(q))
           /\ Above(Tail(q), Head(q))
           /\ Head(q) \in Nat
           /\ \A n \in Nat : Above(q, n) => Above(Tail(q), n) /\ n < Head(q)
           /\ \A n \in Nat : Below(q, n) => Below(Tail(q), n) /\ Head(q) < n
           /\ \A p \in Seq(Nat) : Before(p, q) => Before(p, Tail(q))
                                                  /\ Below(p, Head(q))
           /\ \A p \in Seq(Nat) : Before(q, p) => Before(Tail(q), p)
                                                  /\ Above(p, Head(q))
  BY TailProperties DEF Increasing, Above, Below, Before

LEMMA AppendOrder ==
    ASSUME NEW q \in Seq(Nat), NEW x \in Nat, Increasing(q), Below(q, x)
    PROVE  /\ Increasing(Append(q, x))
           /\ \A n \in Nat : Above(q, n) /\ n < x => Above(Append(q, x), n)
           /\ \A n \in Nat : Below(q, n) /\ x < n => Below(Append(q, x), n)
           /\ \A p \in Seq(Nat) : Before(p, q) /\ Below(p, x)
                                     => Before(p, Append(q, x))
           /\ \A p \in Seq(Nat) : Before(q, p) /\ Above(p, x)
                                     => Before(Append(q, x), p)
  BY AppendProperties DEF Increasing, Above, Below, Before

LEMMA DropOrder ==
    ASSUME NEW q \in Seq(Frame), Len(q) <= MAX_QUEUED_FRAMES, Increasing(q)
    PROVE  /\ DropForEnqueue(q) \in Seq(Frame)
           /\ Increasing(DropForEnqueue(q))
           /\ \A n \in Nat : Above(q, n) => Above(DropForEnqueue(q), n)
           /\ \A n \in Nat : Below(q, n) => Below(DropForEnqueue(q), n)
           /\ \A p \in Seq(Nat) : Before(p, q) => Before(p, DropForEnqueue(q))
           /\ \A p \in Seq(Nat) : Before(q, p) => Before(DropForEnqueue(q), p)
  <1>1. CASE Len(q) = MAX_QUEUED_FRAMES
    <2>1. q # <<>> /\ q \in Seq(Nat)
      BY <1>1, PacerAssumption DEF Frame
    <2>2. DropForEnqueue(q) = Tail(q)
      BY <1>1 DEF DropForEnqueue
    <2> QED
      BY <2>1, <2>2, TailOrder, TailProperties
  <1>2. CASE Len(q) # MAX_QUEUED_FRAMES
    BY <1>2 DEF DropForEnqueue
  <1> QED
    BY <1>1, <1>2

\* The queues hold naturals, and so do the threads' hands.
LEMMA OrderTypes ==
    ASSUME TypeOK
    PROVE  /\ pacingQueue \in Seq(Nat) /\ renderQueue \in Seq(Nat)
           /\ rendered \in Nat /\ nextFrame \in Nat
           /\ vsync.frame \in Nat /\ renderer.frame \in Nat
           /\ Frame \subseteq Nat \ {0}
  <1>1. Frame \subseteq Nat \ {0}
    BY PacerAssumption DEF Frame
  <1>2. ASSUME NEW q \in Seq(Frame)
        PROVE  q \in Seq(Nat)
    BY PacerAssumption DEF Frame
  <1>3. pacingQueue \in Seq(Nat) /\ renderQueue \in Seq(Nat)
    BY <1>2 DEF TypeOK
  <1>4. rendered \in Nat /\ nextFrame \in Nat
    BY <1>1, PacerAssumption DEF TypeOK, NoFrame
  <1>5. vsync.frame \in Nat /\ renderer.frame \in Nat
    BY HandTypes, PacerAssumption DEF NoFrame, Frame
  <1> QED
    BY <1>1, <1>3, <1>4, <1>5

-----------------------------------------------------------------------------
(* The invariant holds at first and in every step. *)

LEMMA OrderInit ==
    ASSUME Init
    PROVE  OrderInv
  <1>1. TypeOK
    BY TypeInit
  <1>2. /\ Len(pacingQueue) = 0 /\ Len(renderQueue) = 0
        /\ nextFrame = 1 /\ rendered = 0
        /\ vsync.frame = 0 /\ renderer.frame = 0 /\ renderer.pc = "ready"
    BY DEF Init, NoFrame
  <1> QED
    BY <1>1, <1>2
       DEF Init, OrderInv, QueueOrder, HandOrder, Increasing, Above, Below,
           Before

\* A new frame is younger than all the others.
LEMMA OrderDecoder ==
    ASSUME OrderInv, DecoderStep
    PROVE  QueueOrder' /\ HandOrder'
  <1> USE DEF OrderInv, QueueOrder, HandOrder
  <1>0. TypeOK
    OBVIOUS
  <1>1. CASE SubmitForPacing
    <2>1. /\ pacingQueue' = Append(DropForEnqueue(pacingQueue), nextFrame)
          /\ nextFrame' = nextFrame + 1
          /\ HasVsyncSource
          /\ UNCHANGED <<renderQueue, vsync, renderer, rendered>>
      BY <1>1 DEF SubmitForPacing
    <2> DEFINE q == DropForEnqueue(pacingQueue)
    <2>2. /\ q \in Seq(Nat) /\ Increasing(q) /\ Below(q, nextFrame)
          /\ Before(renderQueue, q)
          /\ \A n \in Nat : Above(pacingQueue, n) => Above(q, n)
      BY <1>0, DropOrder, OrderTypes DEF TypeOK
    <2> HIDE DEF q
    <2>3. pacingQueue' = Append(q, nextFrame)
      BY <2>1 DEF q
    <2>4. /\ Increasing(pacingQueue') /\ Before(renderQueue, pacingQueue')
          /\ Below(pacingQueue', nextFrame + 1)
          /\ \A n \in Nat : Above(pacingQueue, n) /\ n < nextFrame
                              => Above(pacingQueue', n)
      <3>1. Below(q, nextFrame + 1)
        BY <2>2, OrderTypes, <1>0 DEF Below
      <3> QED
        BY <2>2, <2>3, <3>1, AppendOrder, OrderTypes, <1>0
    <2>5. Below(renderQueue, nextFrame + 1)
      BY OrderTypes, <1>0 DEF Below
    <2> QED
      BY <2>1, <2>4, <2>5, OrderTypes, <1>0
  <1>2. CASE SubmitForRendering
    <2>1. /\ renderQueue' = Append(DropForEnqueue(renderQueue), nextFrame)
          /\ nextFrame' = nextFrame + 1
          /\ ~HasVsyncSource
          /\ UNCHANGED <<pacingQueue, vsync, renderer, rendered>>
      BY <1>2 DEF SubmitForRendering
    <2> DEFINE q == DropForEnqueue(renderQueue)
    <2>2. /\ q \in Seq(Nat) /\ Increasing(q) /\ Below(q, nextFrame)
          /\ \A n \in Nat : Above(renderQueue, n) => Above(q, n)
      BY <1>0, DropOrder, OrderTypes DEF TypeOK
    <2> HIDE DEF q
    <2>3. renderQueue' = Append(q, nextFrame)
      BY <2>1 DEF q
    <2>4. /\ Increasing(renderQueue')
          /\ Below(renderQueue', nextFrame + 1)
          /\ \A n \in Nat : Above(renderQueue, n) /\ n < nextFrame
                              => Above(renderQueue', n)
      <3>1. Below(q, nextFrame + 1)
        BY <2>2, OrderTypes, <1>0 DEF Below
      <3> QED
        BY <2>2, <2>3, <3>1, AppendOrder, OrderTypes, <1>0
    <2>5. Before(renderQueue', pacingQueue') /\ Below(pacingQueue', nextFrame + 1)
      <3>1. pacingQueue' = <<>> /\ Len(pacingQueue') = 0
        BY <2>1
      <3> QED
        BY <3>1 DEF Before, Below
    <2> QED
      BY <2>1, <2>4, <2>5, OrderTypes, <1>0
  <1>3. CASE DecoderWakesPacing
    <2>1. /\ UNCHANGED <<pacingQueue, renderQueue, renderer, nextFrame,
                         rendered>>
          /\ vsync'.frame = vsync.frame
      BY <1>3, <1>0 DEF DecoderWakesPacing, WakeVsync, TypeOK, VsyncState,
                        queueVars
    <2> QED
      BY <2>1
  <1>4. CASE DecoderWakesRender
    <2>1. /\ UNCHANGED <<pacingQueue, renderQueue, vsync, nextFrame, rendered>>
          /\ renderer'.frame = renderer.frame
          /\ renderer'.pc = "rendering" => renderer.pc = "rendering"
      BY <1>4, <1>0 DEF DecoderWakesRender, WakeRenderer, TypeOK,
                        RendererState, queueVars
    <2> QED
      BY <2>1
  <1> QED
    BY <1>1, <1>2, <1>3, <1>4 DEF DecoderStep

\* The oldest frame of the pacing queue becomes the youngest of the other.
LEMMA OrderPromote ==
    ASSUME OrderInv, NEW t \in Nat, Promote(t),
           UNCHANGED <<renderer, nextFrame, rendered>>
    PROVE  QueueOrder' /\ HandOrder'
  <1> USE DEF OrderInv, QueueOrder, HandOrder
  <1>0. TypeOK
    OBVIOUS
  <1> DEFINE q == DropForEnqueue(renderQueue)
             f == Head(pacingQueue)
  <1>1. pacingQueue # <<>>
    BY <1>0 DEF Promote, TypeOK
  <1>2. /\ Increasing(Tail(pacingQueue))
        /\ Above(Tail(pacingQueue), f)
        /\ f \in Nat /\ f < nextFrame /\ Below(Tail(pacingQueue), nextFrame)
        /\ Before(renderQueue, Tail(pacingQueue)) /\ Below(renderQueue, f)
        /\ \A n \in Nat : Above(pacingQueue, n)
                            => Above(Tail(pacingQueue), n) /\ n < f
    BY <1>0, <1>1, TailOrder, OrderTypes
  <1>3. Tail(pacingQueue) \in Seq(Nat)
    BY <1>0, <1>1, TailProperties, OrderTypes
  <1>4. /\ q \in Seq(Nat) /\ Increasing(q) /\ Below(q, f)
        /\ Below(q, nextFrame)
        /\ Before(q, Tail(pacingQueue))
        /\ \A n \in Nat : Above(renderQueue, n) => Above(q, n)
    <2>1. q \in Seq(Frame)
      BY <1>0, DropOrder DEF TypeOK
    <2>2. q \in Seq(Nat)
      BY <2>1, PacerAssumption DEF Frame
    <2> QED
      BY <1>0, <1>2, <1>3, <2>2, DropOrder, OrderTypes DEF TypeOK
  <1> HIDE DEF q
  <1>5. /\ renderQueue' = Append(q, f)
        /\ pacingQueue' = Tail(pacingQueue)
        /\ vsync'.frame = 0
    BY DEF Promote, q, NoFrame
  <1> HIDE DEF f
  <1>6. /\ Increasing(renderQueue') /\ Below(renderQueue', nextFrame)
        /\ Before(renderQueue', pacingQueue')
        /\ \A n \in Nat : Above(renderQueue, n) /\ n < f
                            => Above(renderQueue', n)
    BY <1>0, <1>2, <1>3, <1>4, <1>5, AppendOrder, OrderTypes
  <1>7. Above(pacingQueue', 0)
    BY <1>2, <1>3, <1>5 DEF Above
  <1>8. HasVsyncSource
    BY <1>1
  <1> QED
    BY <1>0, <1>2, <1>5, <1>6, <1>7, <1>8, OrderTypes

LEMMA OrderVsync ==
    ASSUME OrderInv, VsyncStep
    PROVE  QueueOrder' /\ HandOrder'
  <1> USE DEF OrderInv, QueueOrder, HandOrder
  <1>0. TypeOK
    OBVIOUS
  <1>1. ASSUME NEW t \in Nat, VsyncDropOne(t),
               UNCHANGED <<renderer, nextFrame, rendered>>
        PROVE  QueueOrder' /\ HandOrder'
    <2>1. pacingQueue # <<>>
      BY <1>0, <1>1 DEF VsyncDropOne, TypeOK
    <2>2. /\ pacingQueue' = Tail(pacingQueue)
          /\ vsync'.frame = Head(pacingQueue)
          /\ UNCHANGED renderQueue
      BY <1>1 DEF VsyncDropOne
    <2>3. HasVsyncSource
      BY <2>1
    <2> QED
      BY <1>0, <1>1, <2>1, <2>2, <2>3, TailOrder, OrderTypes
  <1>2. ASSUME NEW t \in Nat, VsyncWaitForFrame(t),
               UNCHANGED <<renderer, nextFrame, rendered>>
        PROVE  QueueOrder' /\ HandOrder'
    <2>1. /\ UNCHANGED <<pacingQueue, renderQueue>>
          /\ vsync'.frame = 0 /\ Len(pacingQueue) = 0
      BY <1>2 DEF VsyncWaitForFrame, NoFrame
    <2> QED
      BY <1>0, <1>2, <2>1, OrderTypes DEF Above
  <1>3. ASSUME UNCHANGED <<pacingQueue, renderQueue, nextFrame, rendered>>,
               vsync'.frame = vsync.frame,
               renderer'.frame = renderer.frame,
               renderer'.pc = "rendering" => renderer.pc = "rendering"
        PROVE  QueueOrder' /\ HandOrder'
    BY <1>3
  <1>4. CASE VsyncHandle
    <2>1. VsyncDropTarget \in Nat
      BY DEF VsyncDropTarget
    <2>2. /\ UNCHANGED <<renderer, nextFrame, rendered>>
          /\ \/ VsyncDropOne(VsyncDropTarget)
             \/ VsyncWaitForFrame(VsyncDropTarget)
             \/ Promote(VsyncDropTarget)
      BY <1>4 DEF VsyncHandle
    <2> HIDE DEF VsyncDropTarget
    <2> QED
      BY <1>1, <1>2, <2>1, <2>2, OrderPromote
  <1>5. CASE VsyncDropped
    <2>1. vsync.target \in Nat
      BY <1>0, HandTypes
    <2>2. /\ UNCHANGED <<renderer, nextFrame, rendered>>
          /\ \/ VsyncDropOne(vsync.target)
             \/ VsyncWaitForFrame(vsync.target)
             \/ Promote(vsync.target)
      BY <1>5 DEF VsyncDropped
    <2> QED
      BY <1>1, <1>2, <2>1, <2>2, OrderPromote
  <1>6. CASE VsyncWoken
    <2>1. UNCHANGED <<renderer, nextFrame, rendered>>
      BY <1>6 DEF VsyncWoken
    <2>2. CASE Promote(Len(pacingQueue))
      <3>1. Len(pacingQueue) \in Nat
        BY <1>0 DEF TypeOK
      <3> QED
        BY <2>1, <2>2, <3>1, OrderPromote
    <2>3. CASE /\ UNCHANGED <<pacingQueue, renderQueue>>
               /\ \/ vsync' = [vsync EXCEPT !.pc = "top"]
                  \/ vsync' = [vsync EXCEPT !.pc = "fault"]
      <3>1. vsync'.frame = vsync.frame
        BY <1>0, <2>3 DEF TypeOK, VsyncState
      <3> QED
        BY <1>3, <2>1, <2>3, <3>1
    <2> QED
      BY <1>6, <2>2, <2>3 DEF VsyncWoken
  <1>7. CASE VsyncExit \/ VsyncTick \/ VsyncTimeout
    <2>1. /\ UNCHANGED <<pacingQueue, renderQueue, renderer, nextFrame, rendered>>
          /\ vsync'.frame = vsync.frame
      BY <1>0, <1>7 DEF VsyncExit, VsyncTick, VsyncTimeout, TypeOK,
                        VsyncState, queueVars
    <2> QED
      BY <1>3, <2>1
  <1>8. CASE VsyncWakesRender
    <2>1. /\ UNCHANGED <<pacingQueue, renderQueue, nextFrame, rendered>>
          /\ vsync'.frame = vsync.frame
      BY <1>0, <1>8 DEF VsyncWakesRender, TypeOK, VsyncState, queueVars
    <2>2. /\ renderer'.frame = renderer.frame
          /\ renderer'.pc = "rendering" => renderer.pc = "rendering"
      BY <1>0, <1>8 DEF VsyncWakesRender, WakeRenderer, TypeOK, RendererState
    <2> QED
      BY <1>3, <2>1, <2>2
  <1> QED
    BY <1>4, <1>5, <1>6, <1>7, <1>8 DEF VsyncStep

\* The oldest frame of the render queue goes into the renderer's hands.
LEMMA OrderTake ==
    ASSUME OrderInv, renderQueue # <<>>, renderQueue' = Tail(renderQueue),
           renderer'.frame = Head(renderQueue),
           UNCHANGED <<pacingQueue, vsync, nextFrame, rendered>>
    PROVE  QueueOrder' /\ HandOrder'
  BY TailOrder, OrderTypes DEF OrderInv, QueueOrder, HandOrder

LEMMA OrderRenderer ==
    ASSUME OrderInv, RendererStep
    PROVE  QueueOrder' /\ HandOrder'
  <1> USE DEF OrderInv, QueueOrder, HandOrder
  <1>0. TypeOK
    OBVIOUS
  <1>1. ASSUME UNCHANGED <<pacingQueue, renderQueue, vsync, nextFrame, rendered>>,
               renderer'.frame \in {0, renderer.frame},
               renderer'.pc # "rendering"
        PROVE  QueueOrder' /\ HandOrder'
    <2>1. Above(renderQueue, 0) /\ Above(pacingQueue, 0)
      BY <1>0, OrderTypes DEF Above
    <2> QED
      BY <1>0, <1>1, <2>1, OrderTypes
  <1>2. ASSUME TakeFrame, UNCHANGED <<pacingQueue, vsync, nextFrame, rendered>>
        PROVE  QueueOrder' /\ HandOrder'
    BY <1>2, OrderTake DEF TakeFrame
  <1>3. ASSUME NEW t \in Nat, TrimOne(t),
               UNCHANGED <<pacingQueue, vsync, nextFrame, rendered>>
        PROVE  QueueOrder' /\ HandOrder'
    <2>1. CASE /\ Len(renderQueue) > t
               /\ renderQueue' = Tail(renderQueue)
               /\ renderer' = [pc |-> "trimming", target |-> t,
                               frame |-> Head(renderQueue)]
      <3>1. renderQueue # <<>>
        BY <1>0, <2>1 DEF TypeOK
      <3> QED
        BY <1>3, <2>1, <3>1, OrderTake
    <2>2. CASE /\ renderer' = [pc |-> "ready", target |-> 0, frame |-> NoFrame]
               /\ UNCHANGED renderQueue
      BY <1>1, <1>3, <2>2 DEF NoFrame
    <2> QED
      BY <1>3, <2>1, <2>2 DEF TrimOne
  <1>4. CASE RenderThreadExit \/ RenderThreadTest \/ RenderThreadWait
    <2>1. /\ UNCHANGED <<pacingQueue, renderQueue, vsync, nextFrame, rendered>>
          /\ renderer'.frame = renderer.frame
          /\ renderer'.pc # "rendering"
      BY <1>0, <1>4 DEF RenderThreadExit, RenderThreadTest, RenderThreadWait,
                        TypeOK, RendererState, queueVars
    <2> QED
      BY <1>1, <2>1
  <1>5. CASE RenderThreadTake
    BY <1>2, <1>5 DEF RenderThreadTake
  <1>6. CASE RenderOnMainThread
    <2>1. UNCHANGED <<pacingQueue, vsync, nextFrame, rendered>>
      BY <1>6 DEF RenderOnMainThread
    <2>2. CASE UNCHANGED <<renderQueue, renderer>>
      BY <2>1, <2>2
    <2> QED
      BY <1>2, <1>6, <2>1, <2>2 DEF RenderOnMainThread
  <1>7. CASE RenderFrame
    <2>1. /\ UNCHANGED <<pacingQueue, renderQueue, vsync, nextFrame>>
          /\ renderer.pc = "rendering"
          /\ rendered' = renderer.frame
          /\ renderer'.frame = 0 /\ renderer'.pc = "trim"
      BY <1>0, <1>7 DEF RenderFrame, queueVars, NoFrame, TypeOK, RendererState
    <2>2. Above(renderQueue, 0) /\ Above(pacingQueue, 0)
      BY <1>0, OrderTypes DEF Above
    <2> QED
      BY <1>0, <2>1, <2>2, OrderTypes
  <1>8. CASE TrimRenderQueue
    <2>1. RenderDropTarget \in Nat
      BY DEF RenderDropTarget
    <2>2. /\ UNCHANGED <<pacingQueue, vsync, nextFrame, rendered>>
          /\ TrimOne(RenderDropTarget)
      BY <1>8 DEF TrimRenderQueue
    <2> HIDE DEF RenderDropTarget
    <2> QED
      BY <1>3, <2>1, <2>2
  <1>9. CASE TrimmedFrame
    <2>1. /\ renderer.target \in Nat
          /\ UNCHANGED <<pacingQueue, vsync, nextFrame, rendered>>
          /\ TrimOne(renderer.target)
      BY <1>0, <1>9, HandTypes DEF TrimmedFrame
    <2> QED
      BY <1>3, <2>1
  <1> QED
    BY <1>4, <1>5, <1>6, <1>7, <1>8, <1>9 DEF RendererStep

\* The destructor only empties the queues.
LEMMA OrderDtor ==
    ASSUME OrderInv, DtorStop \/ DtorStep \/ Destroyed
    PROVE  QueueOrder' /\ HandOrder'
  <1> USE DEF OrderInv, QueueOrder, HandOrder
  <1>0. TypeOK
    OBVIOUS
  <1>1. CASE DtorFreeFrames
    <2>1. /\ Len(pacingQueue') = 0 /\ Len(renderQueue') = 0
          /\ pacingQueue' = <<>>
          /\ UNCHANGED <<vsync, renderer, nextFrame, rendered>>
      BY <1>1 DEF DtorFreeFrames
    <2> QED
      BY <2>1 DEF Increasing, Above, Below, Before
  <1>2. CASE DtorStop \/ DtorWakeVsync \/ DtorJoinVsync \/ DtorWakeRender
                      \/ Destroyed
    <2>1. UNCHANGED <<pacingQueue, renderQueue, nextFrame, rendered>>
      BY <1>2 DEF DtorStop, DtorWakeVsync, DtorJoinVsync, DtorWakeRender,
                  Destroyed, vars, queueVars
    <2>2. vsync'.frame = vsync.frame
      BY <1>0, <1>2
         DEF DtorStop, DtorWakeVsync, DtorJoinVsync, DtorWakeRender, Destroyed,
             WakeVsync, TypeOK, VsyncState, vars, threadVars
    <2>3. /\ renderer'.frame = renderer.frame
          /\ renderer'.pc = "rendering" => renderer.pc = "rendering"
      BY <1>0, <1>2
         DEF DtorStop, DtorWakeVsync, DtorJoinVsync, DtorWakeRender, Destroyed,
             WakeRenderer, TypeOK, RendererState, vars, threadVars
    <2> QED
      BY <2>1, <2>2, <2>3
  <1> QED
    BY <1>1, <1>2 DEF DtorStep

LEMMA OrderStep ==
    ASSUME OrderInv, [Next]_vars
    PROVE  OrderInv'
  <1>1. TypeOK'
    BY TypeStep DEF OrderInv
  <1>2. QueueOrder' /\ HandOrder'
    <2>1. CASE UNCHANGED vars
      BY <2>1 DEF vars, queueVars, threadVars, OrderInv, QueueOrder, HandOrder
    <2> QED
      BY <2>1, OrderDecoder, OrderVsync, OrderRenderer, OrderDtor DEF Next
  <1> QED
    BY <1>1, <1>2 DEF OrderInv

LEMMA OrderInvariant == Spec => []OrderInv
  BY OrderInit, OrderStep, PTL DEF Spec

LEMMA OrderInvImplies ==
    ASSUME OrderInv
    PROVE  FramesInOrder
  <1> USE DEF OrderInv, QueueOrder, HandOrder
  <1>1. ASSUME NEW f \in Queued
        PROVE  rendered < f /\ renderer.frame < f
    <2>1. \/ \E i \in 1..Len(pacingQueue) : f = pacingQueue[i]
          \/ \E i \in 1..Len(renderQueue) : f = renderQueue[i]
      BY <1>1 DEF Queued, ToSet, TypeOK
    <2> QED
      BY <2>1 DEF Above
  <1> QED
    BY <1>1 DEF FramesInOrder, Increasing, Before, Above

\* In every state the queues hold the pictures in decode order, behind those
\* in the renderer's hands and on screen, however the threads interleave.
THEOREM OrderCorrect == Spec => []FramesInOrder
  BY OrderInvariant, OrderInvImplies, PTL

-----------------------------------------------------------------------------
(* The pacer implements FramePipeline: submitFrame is Accept, the rendering*)
(* of a frame is Show, and every other step gives up some frames or none.  *)

LEMMA QueueElements ==
    ASSUME NEW S, NEW q \in Seq(S)
    PROVE  /\ \A x \in S : ToSet(Append(q, x)) = ToSet(q) \cup {x}
           /\ q # <<>> => /\ ToSet(Tail(q)) \subseteq ToSet(q)
                          /\ Head(q) \in ToSet(q)
  <1>1. ASSUME NEW x \in S
        PROVE  ToSet(Append(q, x)) = ToSet(q) \cup {x}
    <2>1. /\ DOMAIN Append(q, x) = 1..(Len(q) + 1)
          /\ DOMAIN q = 1..Len(q)
          /\ Len(q) \in Nat
      BY AppendProperties
    <2> QED
      BY <2>1, AppendProperties DEF ToSet
  <1>2. ASSUME q # <<>>
        PROVE  ToSet(Tail(q)) \subseteq ToSet(q) /\ Head(q) \in ToSet(q)
    <2>1. /\ DOMAIN Tail(q) = 1..(Len(q) - 1)
          /\ DOMAIN q = 1..Len(q)
      BY <1>2, TailProperties
    <2> QED
      BY <1>2, <2>1, TailProperties DEF ToSet
  <1> QED
    BY <1>1, <1>2

LEMMA DropElements ==
    ASSUME NEW q \in Seq(Frame), Len(q) <= MAX_QUEUED_FRAMES
    PROVE  /\ DropForEnqueue(q) \in Seq(Frame)
           /\ ToSet(DropForEnqueue(q)) \subseteq ToSet(q)
  <1>1. CASE Len(q) = MAX_QUEUED_FRAMES
    <2>1. q # <<>>
      BY <1>1, PacerAssumption
    <2> QED
      BY <1>1, <2>1, QueueElements, TailProperties DEF DropForEnqueue
  <1>2. CASE Len(q) # MAX_QUEUED_FRAMES
    BY <1>2 DEF DropForEnqueue
  <1> QED
    BY <1>1, <1>2

\* A step in which no picture becomes pending and none is shown.
GivesUp == PendingFrames' \subseteq PendingFrames
           /\ UNCHANGED <<nextFrame, rendered>>

LEMMA RefineGiveUp ==
    ASSUME GivesUp
    PROVE  Pipeline!Next
  BY DEF GivesUp, Pipeline!Next, Pipeline!GiveUp

LEMMA RefineAccept ==
    ASSUME OrderInv, SubmitForPacing \/ SubmitForRendering
    PROVE  Pipeline!Next
  <1>0. TypeOK /\ nextFrame \in Frame
    BY PacerAssumption
       DEF OrderInv, SubmitForPacing, SubmitForRendering, TypeOK, Frame
  <1>1. /\ nextFrame <= MaxFrames
        /\ nextFrame' = nextFrame + 1
        /\ UNCHANGED <<rendered, renderer>>
    BY DEF SubmitForPacing, SubmitForRendering
  <1>2. /\ Queued' \subseteq Queued \cup {nextFrame}
        /\ nextFrame \in Queued'
    <2>1. CASE SubmitForPacing
      <3>1. /\ pacingQueue' = Append(DropForEnqueue(pacingQueue), nextFrame)
            /\ UNCHANGED renderQueue
        BY <2>1 DEF SubmitForPacing
      <3>2. /\ ToSet(pacingQueue') \subseteq ToSet(pacingQueue) \cup {nextFrame}
            /\ nextFrame \in ToSet(pacingQueue')
        BY <1>0, <3>1, DropElements, QueueElements DEF TypeOK
      <3> QED
        BY <3>1, <3>2 DEF Queued
    <2>2. CASE SubmitForRendering
      <3>1. /\ renderQueue' = Append(DropForEnqueue(renderQueue), nextFrame)
            /\ UNCHANGED pacingQueue
        BY <2>2 DEF SubmitForRendering
      <3>2. /\ ToSet(renderQueue') \subseteq ToSet(renderQueue) \cup {nextFrame}
            /\ nextFrame \in ToSet(renderQueue')
        BY <1>0, <3>1, DropElements, QueueElements DEF TypeOK
      <3> QED
        BY <3>1, <3>2 DEF Queued
    <2> QED
      BY <2>1, <2>2
  <1>3. /\ PendingFrames' \subseteq PendingFrames \cup {nextFrame}
        /\ nextFrame \in PendingFrames'
    BY <1>1, <1>2 DEF PendingFrames
  <1>4. PendingFrames' = (PendingFrames' \ {nextFrame}) \cup {nextFrame}
    BY <1>3
  <1>5. PendingFrames' \ {nextFrame} \in SUBSET PendingFrames
    BY <1>3
  <1> QED
    BY <1>1, <1>4, <1>5 DEF Pipeline!Next, Pipeline!Accept

LEMMA RefineShow ==
    ASSUME OrderInv, RenderFrame
    PROVE  Pipeline!Next
  <1>0. TypeOK /\ renderer.frame \in Nat
    BY OrderTypes DEF OrderInv
  <1>1. /\ renderer.pc = "rendering" /\ renderer'.pc = "trim"
        /\ rendered' = renderer.frame
        /\ rendered < renderer.frame
        /\ UNCHANGED <<pacingQueue, renderQueue, nextFrame>>
    BY <1>0 DEF OrderInv, HandOrder, RenderFrame, queueVars, TypeOK,
                RendererState
  <1>2. \A g \in Queued : renderer.frame < g
    BY OrderInvImplies DEF FramesInOrder
  <1>3. /\ PendingFrames = Queued \cup {renderer.frame}
        /\ PendingFrames' = Queued
        /\ renderer.frame \notin Queued
    BY <1>0, <1>1, <1>2 DEF PendingFrames, Queued
  <1>4. \A g \in PendingFrames : renderer.frame <= g
    <2>1. Queued \subseteq Nat
      BY <1>0, ToSetType, OrderTypes DEF TypeOK, Queued
    <2> QED
      BY <1>0, <1>2, <1>3, <2>1
  <1>5. PendingFrames' = PendingFrames \ {renderer.frame}
    BY <1>3
  <1> QED
    BY <1>1, <1>3, <1>4, <1>5 DEF Pipeline!Next, Pipeline!Show

LEMMA RefineVsync ==
    ASSUME OrderInv, VsyncStep
    PROVE  Pipeline!Next
  <1>0. TypeOK
    BY DEF OrderInv
  <1>1. UNCHANGED <<nextFrame, rendered>>
    BY DEF VsyncStep, VsyncExit, VsyncTick, VsyncHandle, VsyncDropped,
           VsyncTimeout, VsyncWoken, VsyncWakesRender
  <1>2. ASSUME NEW t \in Nat, Promote(t)
        PROVE  Queued' \subseteq Queued
    <2>1. pacingQueue # <<>>
      BY <1>0, <1>2 DEF Promote, TypeOK
    <2>2. /\ pacingQueue' = Tail(pacingQueue)
          /\ renderQueue' = Append(DropForEnqueue(renderQueue),
                                   Head(pacingQueue))
      BY <1>2 DEF Promote
    <2>3. Head(pacingQueue) \in Frame
      BY <1>0, <2>1, TailProperties DEF TypeOK
    <2>4. ToSet(renderQueue') \subseteq ToSet(renderQueue)
                                            \cup {Head(pacingQueue)}
      BY <1>0, <2>2, <2>3, DropElements, QueueElements DEF TypeOK
    <2> QED
      BY <1>0, <2>1, <2>2, <2>4, QueueElements DEF Queued, TypeOK
  <1>3. ASSUME NEW t \in Nat, VsyncDropOne(t)
        PROVE  Queued' \subseteq Queued
    <2>1. pacingQueue # <<>>
      BY <1>0, <1>3 DEF VsyncDropOne, TypeOK
    <2> QED
      BY <1>0, <1>3, <2>1, QueueElements DEF Queued, TypeOK, VsyncDropOne
  <1>4. ASSUME UNCHANGED <<pacingQueue, renderQueue>>
        PROVE  Queued' \subseteq Queued
    BY <1>4 DEF Queued
  <1>5. Queued' \subseteq Queued
    <2>1. VsyncDropTarget \in Nat
      BY DEF VsyncDropTarget
    <2>2. vsync.target \in Nat /\ Len(pacingQueue) \in Nat
      BY <1>0, HandTypes DEF TypeOK
    <2> HIDE DEF VsyncDropTarget
    <2>3. CASE VsyncHandle
      BY <1>2, <1>3, <1>4, <2>1, <2>3 DEF VsyncHandle, VsyncWaitForFrame
    <2>4. CASE VsyncDropped
      BY <1>2, <1>3, <1>4, <2>2, <2>4 DEF VsyncDropped, VsyncWaitForFrame
    <2>5. CASE VsyncWoken
      BY <1>2, <1>4, <2>2, <2>5 DEF VsyncWoken
    <2>6. CASE VsyncExit \/ VsyncTick \/ VsyncTimeout \/ VsyncWakesRender
      BY <1>4, <2>6 DEF VsyncExit, VsyncTick, VsyncTimeout, VsyncWakesRender,
                        queueVars
    <2> QED
      BY <2>3, <2>4, <2>5, <2>6 DEF VsyncStep
  <1>6. renderer'.pc = "rendering" => /\ renderer.pc = "rendering"
                                      /\ renderer'.frame = renderer.frame
    BY <1>0 DEF VsyncStep, VsyncExit, VsyncTick, VsyncHandle, VsyncDropped,
                VsyncTimeout, VsyncWoken, VsyncWakesRender, WakeRenderer,
                TypeOK, RendererState
  <1>7. PendingFrames' \subseteq PendingFrames
    BY <1>5, <1>6 DEF PendingFrames
  <1> QED
    BY <1>1, <1>7, RefineGiveUp DEF GivesUp

LEMMA RefineRenderer ==
    ASSUME OrderInv, RendererStep
    PROVE  Pipeline!Next
  <1>0. TypeOK
    BY DEF OrderInv
  <1>1. ASSUME ~RenderFrame
        PROVE  PendingFrames' \subseteq PendingFrames
    <2>1. ASSUME TakeFrame, UNCHANGED pacingQueue
          PROVE  PendingFrames' \subseteq PendingFrames
      BY <1>0, <2>1, QueueElements
         DEF TakeFrame, TypeOK, PendingFrames, Queued
    <2>2. ASSUME NEW t \in Nat, TrimOne(t), UNCHANGED pacingQueue
          PROVE  PendingFrames' \subseteq PendingFrames
      <3>1. renderer'.pc # "rendering"
        BY <2>2 DEF TrimOne
      <3>2. ToSet(renderQueue') \subseteq ToSet(renderQueue)
        <4>1. CASE Len(renderQueue) > t /\ renderQueue' = Tail(renderQueue)
          <5>1. renderQueue # <<>>
            BY <1>0, <4>1 DEF TypeOK
          <5> QED
            BY <1>0, <4>1, <5>1, QueueElements DEF TypeOK
        <4> QED
          BY <2>2, <4>1 DEF TrimOne
      <3> QED
        BY <2>2, <3>1, <3>2 DEF PendingFrames, Queued
    <2>3. RenderDropTarget \in Nat /\ renderer.target \in Nat
      BY <1>0, HandTypes DEF RenderDropTarget
    <2> HIDE DEF RenderDropTarget
    <2>4. CASE TrimRenderQueue
      BY <2>2, <2>3, <2>4 DEF TrimRenderQueue
    <2>5. CASE TrimmedFrame
      BY <2>2, <2>3, <2>5 DEF TrimmedFrame
    <2>6. CASE RenderThreadTake
      BY <2>1, <2>6 DEF RenderThreadTake
    <2>7. CASE RenderOnMainThread
      <3>1. CASE UNCHANGED <<renderQueue, renderer>>
        BY <2>7, <3>1 DEF RenderOnMainThread, PendingFrames, Queued
      <3> QED
        BY <2>1, <2>7, <3>1 DEF RenderOnMainThread
    <2>8. CASE RenderThreadExit \/ RenderThreadTest \/ RenderThreadWait
      <3>1. /\ UNCHANGED <<pacingQueue, renderQueue>>
            /\ renderer'.pc # "rendering"
        BY <1>0, <2>8 DEF RenderThreadExit, RenderThreadTest, RenderThreadWait,
                          queueVars, TypeOK, RendererState
      <3> QED
        BY <3>1 DEF PendingFrames, Queued
    <2> QED
      BY <1>1, <2>4, <2>5, <2>6, <2>7, <2>8 DEF RendererStep
  <1>2. ASSUME ~RenderFrame
        PROVE  UNCHANGED <<nextFrame, rendered>>
    BY <1>2 DEF RendererStep, RenderThreadExit, RenderThreadTake,
           RenderThreadTest, RenderThreadWait, RenderOnMainThread,
           TrimRenderQueue, TrimmedFrame
  <1> QED
    BY <1>1, <1>2, RefineShow, RefineGiveUp DEF GivesUp

LEMMA RefineRest ==
    ASSUME OrderInv,
           \/ DecoderWakesPacing \/ DecoderWakesRender
           \/ DtorStop \/ DtorStep \/ Destroyed
    PROVE  Pipeline!Next
  <1>0. TypeOK
    BY DEF OrderInv
  <1>1. UNCHANGED <<nextFrame, rendered>>
    BY DEF DecoderWakesPacing, DecoderWakesRender, DtorStop, DtorStep,
           DtorWakeVsync, DtorJoinVsync, DtorWakeRender, DtorFreeFrames,
           Destroyed, vars
  <1>2. renderer'.pc = "rendering" => /\ renderer.pc = "rendering"
                                      /\ renderer'.frame = renderer.frame
    BY <1>0 DEF DecoderWakesPacing, DecoderWakesRender, DtorStop, DtorStep,
           DtorWakeVsync, DtorJoinVsync, DtorWakeRender, DtorFreeFrames,
           Destroyed, vars, threadVars, WakeRenderer, TypeOK, RendererState
  <1>3. Queued' \subseteq Queued
    <2>1. CASE DtorFreeFrames
      BY <2>1 DEF DtorFreeFrames, Queued, ToSet
    <2>2. CASE ~DtorFreeFrames
      BY <2>2 DEF DecoderWakesPacing, DecoderWakesRender, DtorStop, DtorStep,
           DtorWakeVsync, DtorJoinVsync, DtorWakeRender, Destroyed, vars,
           queueVars, Queued
    <2> QED
      BY <2>1, <2>2
  <1> QED
    BY <1>1, <1>2, <1>3, RefineGiveUp DEF GivesUp, PendingFrames

LEMMA RefineInit ==
    ASSUME Init
    PROVE  Pipeline!Init
  <1>1. Queued = {}
    BY DEF Init, Queued, ToSet
  <1> QED
    BY <1>1 DEF Init, Pipeline!Init, PendingFrames, NoFrame

LEMMA RefineStep ==
    ASSUME OrderInv, [Next]_vars
    PROVE  [Pipeline!Next]_(Pipeline!pipelineVars)
  <1>1. CASE UNCHANGED vars
    BY <1>1 DEF vars, queueVars, threadVars, Pipeline!pipelineVars,
                PendingFrames, Queued
  <1>2. CASE Next
    BY <1>2, RefineAccept, RefineVsync, RefineRenderer, RefineRest
       DEF Next, DecoderStep
  <1> QED
    BY <1>1, <1>2

\* Every behaviour of the pacer's threads is one of the abstract hand-off: no
\* picture is shown twice, out of order, or after it was given up.
THEOREM ImplementsPipeline == Spec => PipelineSpec
  BY OrderInvariant, RefineInit, RefineStep, PTL
     DEF Spec, PipelineSpec, Pipeline!Spec
=============================================================================
