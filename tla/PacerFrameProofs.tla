-------------------------- MODULE PacerFrameProofs --------------------------
(***************************************************************************)
(* Every frame the pacer accepts is in exactly one place until it is freed,*)
(* once; the one on screen is not freed before it is replaced; and with    *)
(* main-thread rendering an event is on its way for every queued frame.    *)
(***************************************************************************)
EXTENDS PacerProofs

-----------------------------------------------------------------------------
(* The inductive invariant.  A frame may be freed because it is in no other*)
(* place, and that follows from the order of the places it can be in: on   *)
(* screen, in the renderer's hands, render queue, in the V-sync thread's   *)
(* hands, pacing queue.  That ~Pacer leaves nothing behind follows from    *)
(* where it finds the threads.                                             *)

PlaceOrder ==
    /\ vsync.frame # NoFrame => /\ Below(renderQueue, vsync.frame)
                                /\ renderer.frame < vsync.frame
                                /\ rendered < vsync.frame
    /\ renderer.frame # NoFrame => rendered < renderer.frame
    /\ deferredFree = IF dtor = "destroyed" THEN NoFrame ELSE rendered

Teardown ==
    /\ dtor # "alive" => /\ decoder = "exited"
                         /\ HasRenderThread \/ renderer.pc = "ready"
    /\ dtor \in {"vsyncStopped", "joinRender", "destroyed"}
          => vsync.pc = "exited"
    /\ ~HasVsyncSource => vsync.pc = "exited"
    /\ dtor = "joinRender" => HasRenderThread
    /\ dtor = "destroyed" => /\ pacingQueue = <<>> /\ renderQueue = <<>>
                             /\ HasRenderThread => renderer.pc = "exited"

Accounted ==
    /\ Held \cup freed = Submitted
    /\ Held \cap freed = {}

FrameInv == OrderInv /\ PlaceOrder /\ Teardown /\ Accounted

-----------------------------------------------------------------------------
(* Queues of distinct frames, as sets. *)

LEMMA TailElements ==
    ASSUME NEW q \in Seq(Nat), q # <<>>, Increasing(q)
    PROVE  /\ ToSet(q) = ToSet(Tail(q)) \cup {Head(q)}
           /\ Head(q) \notin ToSet(Tail(q))
  <1>1. /\ DOMAIN Tail(q) = 1..(Len(q) - 1)
        /\ DOMAIN q = 1..Len(q)
        /\ Len(q) \in Nat \ {0}
        /\ Head(q) = q[1]
        /\ \A i \in 1..(Len(q) - 1) : Tail(q)[i] = q[i + 1]
    BY TailProperties
  <1>2. ToSet(q) \subseteq ToSet(Tail(q)) \cup {Head(q)}
    <2>1. ASSUME NEW i \in 1..Len(q), i # 1
          PROVE  q[i] \in ToSet(Tail(q))
      <3>1. i - 1 \in 1..(Len(q) - 1) /\ Tail(q)[i - 1] = q[i]
        BY <1>1, <2>1
      <3> QED
        BY <1>1, <3>1 DEF ToSet
    <2> QED
      BY <1>1, <2>1 DEF ToSet
  <1>3. ToSet(Tail(q)) \subseteq ToSet(q) /\ Head(q) \in ToSet(q)
    BY QueueElements
  <1>4. Head(q) \notin ToSet(Tail(q))
    <2>1. \A i \in 1..(Len(q) - 1) : q[1] < q[i + 1]
      BY <1>1 DEF Increasing
    <2>2. \A i \in 1..(Len(q) - 1) : Tail(q)[i] # q[1]
      BY <1>1, <2>1
    <2> QED
      BY <1>1, <2>2 DEF ToSet
  <1> QED
    BY <1>2, <1>3, <1>4

LEMMA DroppedElements ==
    ASSUME NEW q \in Seq(Frame), Len(q) <= MAX_QUEUED_FRAMES, Increasing(q)
    PROVE  /\ ToSet(DropForEnqueue(q)) = ToSet(q) \ DroppedForEnqueue(q)
           /\ DroppedForEnqueue(q) \subseteq ToSet(q)
           /\ DropForEnqueue(q) \in Seq(Frame)
  <1>1. CASE Len(q) = MAX_QUEUED_FRAMES
    <2>1. q # <<>> /\ q \in Seq(Nat)
      BY <1>1, PacerAssumption DEF Frame
    <2>2. /\ DropForEnqueue(q) = Tail(q)
          /\ DroppedForEnqueue(q) = {Head(q)}
      BY <1>1 DEF DropForEnqueue, DroppedForEnqueue
    <2> QED
      BY <2>1, <2>2, TailElements, TailProperties
  <1>2. CASE Len(q) # MAX_QUEUED_FRAMES
    BY <1>2 DEF DropForEnqueue, DroppedForEnqueue
  <1> QED
    BY <1>1, <1>2

\* The five places have no frame in common.
LEMMA PlacesApart ==
    ASSUME OrderInv, PlaceOrder
    PROVE  /\ ToSet(renderQueue) \cap ToSet(pacingQueue) = {}
           /\ \A n \in {vsync.frame, renderer.frame, deferredFree} :
                 n \notin ToSet(renderQueue) /\ n \notin ToSet(pacingQueue)
           /\ NonNull(vsync.frame) \cap NonNull(renderer.frame) = {}
           /\ NonNull(vsync.frame) \cap NonNull(deferredFree) = {}
           /\ NonNull(renderer.frame) \cap NonNull(deferredFree) = {}
  <1> USE DEF OrderInv, QueueOrder, HandOrder, PlaceOrder
  <1>0. TypeOK
    OBVIOUS
  <1>1. /\ DOMAIN renderQueue = 1..Len(renderQueue)
        /\ DOMAIN pacingQueue = 1..Len(pacingQueue)
        /\ Len(renderQueue) \in Nat /\ Len(pacingQueue) \in Nat
        /\ \A i \in 1..Len(renderQueue) : renderQueue[i] \in Nat \ {0}
        /\ \A i \in 1..Len(pacingQueue) : pacingQueue[i] \in Nat \ {0}
    BY <1>0, OrderTypes DEF TypeOK
  <1>2. ToSet(renderQueue) \cap ToSet(pacingQueue) = {}
    BY <1>1 DEF ToSet, Before
  <1>3. ASSUME NEW n \in Nat, Above(renderQueue, n)
        PROVE  n \notin ToSet(renderQueue)
    BY <1>1, <1>3 DEF ToSet, Above
  <1>4. ASSUME NEW n \in Nat, Above(pacingQueue, n)
        PROVE  n \notin ToSet(pacingQueue)
    BY <1>1, <1>4 DEF ToSet, Above
  <1>5. vsync.frame \notin ToSet(renderQueue)
    BY <1>0, <1>1, OrderTypes DEF ToSet, Below, NoFrame
  <1>6. deferredFree \in {NoFrame, rendered}
    OBVIOUS
  <1>7. deferredFree \notin ToSet(renderQueue) /\ deferredFree \notin ToSet(pacingQueue)
    <2>1. NoFrame \notin ToSet(renderQueue) /\ NoFrame \notin ToSet(pacingQueue)
      BY <1>1 DEF ToSet, NoFrame
    <2> QED
      BY <1>0, <1>3, <1>4, <1>6, <2>1, OrderTypes
  <1>8. /\ NonNull(vsync.frame) \cap NonNull(renderer.frame) = {}
        /\ NonNull(vsync.frame) \cap NonNull(deferredFree) = {}
        /\ NonNull(renderer.frame) \cap NonNull(deferredFree) = {}
    BY <1>0, <1>6, OrderTypes DEF NonNull
  <1> QED
    BY <1>0, <1>2, <1>3, <1>4, <1>5, <1>7, <1>8, OrderTypes

-----------------------------------------------------------------------------
(* A step frees frames it holds, or accepts one. *)

Frees(D) ==
    /\ D \subseteq Held
    /\ Held' = Held \ D
    /\ freed' = freed \cup D
    /\ UNCHANGED nextFrame

LEMMA FreesAccounted ==
    ASSUME Accounted, NEW D, Frees(D)
    PROVE  Accounted'
  BY DEF Accounted, Frees, Submitted

-----------------------------------------------------------------------------
(* The V-sync thread. *)

\* The places as sets with no frame in common.
LEMMA SetsApart ==
    ASSUME OrderInv, PlaceOrder
    PROVE  LET P == ToSet(pacingQueue)
               R == ToSet(renderQueue)
               V == NonNull(vsync.frame)
               N == NonNull(renderer.frame)
               S == NonNull(deferredFree)
           IN  /\ Held = P \cup R \cup V \cup N \cup S
               /\ P \cap R = {} /\ P \cap V = {} /\ P \cap N = {} /\ P \cap S = {}
               /\ R \cap V = {} /\ R \cap N = {} /\ R \cap S = {}
               /\ V \cap N = {} /\ V \cap S = {} /\ N \cap S = {}
  BY PlacesApart DEF Held, Queued, InHand, NonNull

\* The V-sync thread takes a frame to drop it, once it has freed the one in
\* its hands.
LEMMA FrameDropOne ==
    ASSUME OrderInv, PlaceOrder, Accounted, NEW t \in Nat, VsyncDropOne(t),
           freed' = freed \cup NonNull(vsync.frame),
           UNCHANGED <<renderer, nextFrame, rendered, deferredFree, dtor>>
    PROVE  PlaceOrder' /\ Accounted'
  <1>0. /\ TypeOK /\ QueueOrder /\ HandOrder
        /\ pacingQueue # <<>>
        /\ pacingQueue \in Seq(Nat) /\ renderQueue \in Seq(Nat)
    BY OrderTypes DEF OrderInv, VsyncDropOne, TypeOK
  <1>1. /\ pacingQueue' = Tail(pacingQueue)
        /\ vsync'.frame = Head(pacingQueue)
        /\ UNCHANGED renderQueue
    BY DEF VsyncDropOne
  <1>2. /\ Below(renderQueue, Head(pacingQueue))
        /\ renderer.frame < Head(pacingQueue)
        /\ rendered < Head(pacingQueue)
        /\ Head(pacingQueue) # NoFrame
    BY <1>0, TailOrder, OrderTypes DEF QueueOrder, HandOrder, NoFrame
  <1>3. PlaceOrder'
    BY <1>1, <1>2 DEF PlaceOrder
  <1>4. /\ ToSet(pacingQueue) = ToSet(pacingQueue') \cup NonNull(vsync'.frame)
        /\ ToSet(pacingQueue') \cap NonNull(vsync'.frame) = {}
    BY <1>0, <1>1, <1>2, TailElements DEF QueueOrder, NonNull
  <1>5. Held' = ToSet(pacingQueue') \cup ToSet(renderQueue')
                  \cup NonNull(vsync'.frame) \cup NonNull(renderer.frame)
                  \cup NonNull(deferredFree)
    BY DEF Held, Queued, InHand, NonNull
  <1>6. Frees(NonNull(vsync.frame))
    BY <1>1, <1>4, <1>5, SetsApart DEF Frees
  <1> QED
    BY <1>3, <1>6, FreesAccounted

\* It finds no frame, once it has freed the one in its hands.
LEMMA FrameWaitForFrame ==
    ASSUME OrderInv, PlaceOrder, Accounted, NEW t \in Nat, VsyncWaitForFrame(t),
           freed' = freed \cup NonNull(vsync.frame),
           UNCHANGED <<renderer, nextFrame, rendered, deferredFree, dtor>>
    PROVE  PlaceOrder' /\ Accounted'
  <1>1. /\ UNCHANGED <<pacingQueue, renderQueue>>
        /\ vsync'.frame = NoFrame
        /\ NonNull(vsync'.frame) = {}
    BY DEF VsyncWaitForFrame, NonNull
  <1>2. PlaceOrder'
    BY <1>1 DEF PlaceOrder
  <1>3. Held' = ToSet(pacingQueue) \cup ToSet(renderQueue)
                  \cup NonNull(renderer.frame) \cup NonNull(deferredFree)
    BY <1>1 DEF Held, Queued, InHand, NonNull
  <1>4. Frees(NonNull(vsync.frame))
    BY <1>3, SetsApart DEF Frees
  <1> QED
    BY <1>2, <1>4, FreesAccounted

\* It moves a frame to the render queue, once it has freed the one in its
\* hands and the one the render queue gives up.
LEMMA FramePromote ==
    ASSUME OrderInv, PlaceOrder, Accounted, NEW t \in Nat, Promote(t),
           freed' = freed \cup NonNull(vsync.frame)
                          \cup DroppedForEnqueue(renderQueue),
           UNCHANGED <<renderer, nextFrame, rendered, deferredFree, dtor>>
    PROVE  PlaceOrder' /\ Accounted'
  <1> DEFINE D == NonNull(vsync.frame) \cup DroppedForEnqueue(renderQueue)
             f == Head(pacingQueue)
  <1>0. /\ TypeOK /\ QueueOrder /\ HandOrder
        /\ pacingQueue # <<>>
        /\ pacingQueue \in Seq(Nat) /\ pacingQueue \in Seq(Frame)
        /\ renderQueue \in Seq(Frame)
        /\ Len(renderQueue) <= MAX_QUEUED_FRAMES
        /\ f \in Frame
    BY OrderTypes DEF OrderInv, Promote, TypeOK
  <1>1. /\ pacingQueue' = Tail(pacingQueue)
        /\ renderQueue' = Append(DropForEnqueue(renderQueue), f)
        /\ vsync'.frame = NoFrame
        /\ NonNull(vsync'.frame) = {}
    BY DEF Promote, NonNull
  <1>2. PlaceOrder'
    BY <1>1 DEF PlaceOrder
  <1>3. /\ ToSet(pacingQueue) = ToSet(pacingQueue') \cup {f}
        /\ f \notin ToSet(pacingQueue')
    BY <1>0, <1>1, TailElements DEF QueueOrder
  <1>4. /\ ToSet(renderQueue') = (ToSet(renderQueue)
                                    \ DroppedForEnqueue(renderQueue)) \cup {f}
        /\ DroppedForEnqueue(renderQueue) \subseteq ToSet(renderQueue)
    BY <1>0, <1>1, DroppedElements, QueueElements DEF QueueOrder
  <1>5. Held' = ToSet(pacingQueue') \cup ToSet(renderQueue')
                  \cup NonNull(renderer.frame) \cup NonNull(deferredFree)
    BY <1>1 DEF Held, Queued, InHand, NonNull
  <1>6. Frees(D)
    BY <1>3, <1>4, <1>5, SetsApart DEF Frees
  <1> QED
    BY <1>2, <1>6, FreesAccounted

\* A step that moves no frame.
LEMMA FrameNoMove ==
    ASSUME PlaceOrder, Accounted,
           UNCHANGED <<pacingQueue, renderQueue, deferredFree, rendered, freed,
                       nextFrame>>,
           vsync'.frame = vsync.frame, renderer'.frame = renderer.frame,
           dtor' = "destroyed" <=> dtor = "destroyed"
    PROVE  PlaceOrder' /\ Accounted'
  BY DEF PlaceOrder, Accounted, Held, Queued, InHand, NonNull, Submitted

LEMMA FrameVsync ==
    ASSUME OrderInv, PlaceOrder, Accounted, VsyncStep
    PROVE  PlaceOrder' /\ Accounted'
  <1>0. TypeOK
    BY DEF OrderInv
  <1>1. CASE VsyncHandle
    <2>1. VsyncDropTarget \in Nat /\ NonNull(vsync.frame) = {}
      BY <1>0, <1>1 DEF VsyncDropTarget, VsyncHandle, TypeOK, VsyncState, NonNull
    <2>2. UNCHANGED <<renderer, nextFrame, rendered, deferredFree, dtor>>
      BY <1>1 DEF VsyncHandle
    <2>3. \/ VsyncDropOne(VsyncDropTarget) /\ UNCHANGED freed
          \/ VsyncWaitForFrame(VsyncDropTarget) /\ UNCHANGED freed
          \/ /\ Promote(VsyncDropTarget)
             /\ freed' = freed \cup DroppedForEnqueue(renderQueue)
      BY <1>1 DEF VsyncHandle
    <2> HIDE DEF VsyncDropTarget
    <2> QED
      BY <2>1, <2>2, <2>3, FrameDropOne, FrameWaitForFrame, FramePromote
  <1>2. CASE VsyncDropped
    <2>1. vsync.target \in Nat /\ NonNull(vsync.frame) = {vsync.frame}
      BY <1>0, <1>2, HandTypes, PacerAssumption
         DEF VsyncDropped, NonNull, NoFrame, Frame
    <2>2. UNCHANGED <<renderer, nextFrame, rendered, deferredFree, dtor>>
      BY <1>2 DEF VsyncDropped
    <2>3. \/ VsyncDropOne(vsync.target) /\ freed' = freed \cup {vsync.frame}
          \/ VsyncWaitForFrame(vsync.target) /\ freed' = freed \cup {vsync.frame}
          \/ /\ Promote(vsync.target)
             /\ freed' = freed \cup {vsync.frame}
                               \cup DroppedForEnqueue(renderQueue)
      BY <1>2 DEF VsyncDropped
    <2> QED
      BY <2>1, <2>2, <2>3, FrameDropOne, FrameWaitForFrame, FramePromote
  <1>3. CASE VsyncWoken
    <2>1. UNCHANGED <<renderer, nextFrame, rendered, deferredFree, dtor>>
      BY <1>3 DEF VsyncWoken
    <2>2. NonNull(vsync.frame) = {} /\ Len(pacingQueue) \in Nat
      BY <1>0, <1>3 DEF VsyncWoken, TypeOK, VsyncState, NonNull
    <2>3. CASE /\ Promote(Len(pacingQueue))
               /\ freed' = freed \cup DroppedForEnqueue(renderQueue)
      BY <2>1, <2>2, <2>3, FramePromote
    <2>4. CASE /\ UNCHANGED <<pacingQueue, renderQueue, freed>>
               /\ \/ vsync' = [vsync EXCEPT !.pc = "top"]
                  \/ vsync' = [vsync EXCEPT !.pc = "fault"]
      <3>1. vsync'.frame = vsync.frame
        BY <1>0, <2>4 DEF TypeOK, VsyncState
      <3> QED
        BY <2>1, <2>4, <3>1, FrameNoMove
    <2> QED
      BY <1>3, <2>3, <2>4 DEF VsyncWoken
  <1>4. CASE VsyncExit \/ VsyncTick \/ VsyncTimeout \/ VsyncWakesRender
    <2>1. /\ UNCHANGED <<pacingQueue, renderQueue, deferredFree, rendered,
                         freed, nextFrame, dtor>>
          /\ vsync'.frame = vsync.frame
      BY <1>0, <1>4 DEF VsyncExit, VsyncTick, VsyncTimeout, VsyncWakesRender,
                        TypeOK, VsyncState, queueVars
    <2>2. renderer'.frame = renderer.frame
      BY <1>0, <1>4 DEF VsyncExit, VsyncTick, VsyncTimeout, VsyncWakesRender,
                        WakeRenderer, TypeOK, RendererState
    <2> QED
      BY <2>1, <2>2, FrameNoMove
  <1> QED
    BY <1>1, <1>2, <1>3, <1>4 DEF VsyncStep

-----------------------------------------------------------------------------
(* The renderer. *)

\* It takes the oldest frame of the render queue, once it has freed the one
\* in its hands.
LEMMA FrameTake ==
    ASSUME OrderInv, PlaceOrder, Accounted, renderQueue # <<>>,
           renderQueue' = Tail(renderQueue),
           renderer'.frame = Head(renderQueue),
           freed' = freed \cup NonNull(renderer.frame),
           UNCHANGED <<pacingQueue, vsync, nextFrame, rendered, deferredFree,
                       dtor>>
    PROVE  PlaceOrder' /\ Accounted'
  <1>0. /\ TypeOK /\ QueueOrder /\ HandOrder
        /\ pacingQueue \in Seq(Nat) /\ renderQueue \in Seq(Nat)
    BY OrderTypes DEF OrderInv
  <1>1. /\ \A n \in Nat : Below(renderQueue, n)
              => Below(renderQueue', n) /\ Head(renderQueue) < n
        /\ rendered < Head(renderQueue)
        /\ Head(renderQueue) # NoFrame
    BY <1>0, TailOrder, OrderTypes DEF QueueOrder, HandOrder, NoFrame
  <1>2. PlaceOrder'
    BY <1>0, <1>1, OrderTypes DEF PlaceOrder
  <1>3. /\ ToSet(renderQueue) = ToSet(renderQueue') \cup NonNull(renderer'.frame)
        /\ ToSet(renderQueue') \cap NonNull(renderer'.frame) = {}
    BY <1>0, <1>1, TailElements DEF QueueOrder, NonNull
  <1>4. Held' = ToSet(pacingQueue') \cup ToSet(renderQueue')
                  \cup NonNull(vsync.frame) \cup NonNull(renderer'.frame)
                  \cup NonNull(deferredFree)
    BY DEF Held, Queued, InHand, NonNull
  <1>5. Frees(NonNull(renderer.frame))
    BY <1>3, <1>4, SetsApart DEF Frees
  <1> QED
    BY <1>2, <1>5, FreesAccounted

\* The catch-up loop: another frame to drop, or none.
LEMMA FrameTrimOne ==
    ASSUME OrderInv, PlaceOrder, Accounted, NEW t \in Nat, TrimOne(t),
           freed' = freed \cup NonNull(renderer.frame),
           UNCHANGED <<pacingQueue, vsync, nextFrame, rendered, deferredFree,
                       dtor>>
    PROVE  PlaceOrder' /\ Accounted'
  <1>1. CASE /\ Len(renderQueue) > t
             /\ renderQueue' = Tail(renderQueue)
             /\ renderer' = [pc |-> "trimming", target |-> t,
                             frame |-> Head(renderQueue)]
    <2>1. renderQueue # <<>>
      BY <1>1 DEF OrderInv, TypeOK
    <2> QED
      BY <1>1, <2>1, FrameTake
  <1>2. CASE /\ renderer' = [pc |-> "ready", target |-> 0, frame |-> NoFrame]
             /\ UNCHANGED renderQueue
    <2>1. renderer'.frame = NoFrame /\ NonNull(renderer'.frame) = {}
      BY <1>2 DEF NonNull
    <2>2. PlaceOrder'
      <3>1. vsync.frame # NoFrame => 0 < vsync.frame
        BY OrderTypes DEF OrderInv, NoFrame
      <3> QED
        BY <1>2, <2>1, <3>1 DEF PlaceOrder, NoFrame
    <2>3. Held' = ToSet(pacingQueue) \cup ToSet(renderQueue)
                    \cup NonNull(vsync.frame) \cup NonNull(deferredFree)
      BY <1>2, <2>1 DEF Held, Queued, InHand, NonNull
    <2>4. Frees(NonNull(renderer.frame))
      BY <2>3, SetsApart DEF Frees
    <2> QED
      BY <2>2, <2>4, FreesAccounted
  <1> QED
    BY <1>1, <1>2 DEF TrimOne

\* The frame in the renderer's hands replaces the one on screen.
LEMMA FrameShow ==
    ASSUME OrderInv, PlaceOrder, Teardown, Accounted, RenderFrame
    PROVE  PlaceOrder' /\ Accounted'
  <1>0. /\ TypeOK /\ renderer.pc = "rendering" /\ renderer.frame \in Frame
        /\ renderer.frame \in Nat /\ renderer.frame # 0
    BY HandTypes, OrderTypes DEF OrderInv, RenderFrame
  <1>1. dtor # "destroyed"
    BY <1>0 DEF Teardown
  <1>2. /\ UNCHANGED <<pacingQueue, renderQueue, vsync, nextFrame, dtor>>
        /\ rendered' = renderer.frame
        /\ deferredFree' = renderer.frame
        /\ freed' = freed \cup NonNull(deferredFree)
        /\ renderer'.frame = NoFrame
        /\ NonNull(renderer'.frame) = {}
    BY <1>0 DEF RenderFrame, queueVars, TypeOK, RendererState, NonNull
  <1>3. PlaceOrder'
    <2>1. vsync.frame # NoFrame => 0 < vsync.frame
      BY <1>0, OrderTypes DEF NoFrame
    <2> QED
      BY <1>1, <1>2, <2>1 DEF PlaceOrder, NoFrame
  <1>4. Held' = ToSet(pacingQueue) \cup ToSet(renderQueue)
                  \cup NonNull(vsync.frame) \cup NonNull(renderer.frame)
    BY <1>2 DEF Held, Queued, InHand, NonNull
  <1>5. Frees(NonNull(deferredFree))
    BY <1>2, <1>4, SetsApart DEF Frees
  <1> QED
    BY <1>3, <1>5, FreesAccounted

LEMMA FrameRenderer ==
    ASSUME OrderInv, PlaceOrder, Teardown, Accounted, RendererStep
    PROVE  PlaceOrder' /\ Accounted'
  <1>0. TypeOK
    BY DEF OrderInv
  <1>1. ASSUME renderer.pc = "ready", TakeFrame,
               UNCHANGED <<pacingQueue, vsync, nextFrame, rendered,
                           deferredFree, dtor, freed>>
        PROVE  PlaceOrder' /\ Accounted'
    <2>1. NonNull(renderer.frame) = {}
      BY <1>0, <1>1 DEF TypeOK, RendererState, NonNull
    <2> QED
      BY <1>1, <2>1, FrameTake DEF TakeFrame
  <1>2. CASE RenderThreadTake
    BY <1>1, <1>2 DEF RenderThreadTake
  <1>3. CASE RenderOnMainThread
    <2>1. /\ renderer.pc = "ready"
          /\ UNCHANGED <<pacingQueue, vsync, nextFrame, rendered,
                         deferredFree, dtor, freed>>
      BY <1>3 DEF RenderOnMainThread
    <2>2. CASE UNCHANGED <<renderQueue, renderer>>
      BY <2>1, <2>2, FrameNoMove
    <2> QED
      BY <1>1, <1>3, <2>1, <2>2 DEF RenderOnMainThread
  <1>4. CASE RenderThreadExit \/ RenderThreadTest \/ RenderThreadWait
    <2>1. /\ UNCHANGED <<pacingQueue, renderQueue, deferredFree, rendered,
                         freed, nextFrame, vsync, dtor>>
          /\ renderer'.frame = renderer.frame
      BY <1>0, <1>4 DEF RenderThreadExit, RenderThreadTest, RenderThreadWait,
                        TypeOK, RendererState, queueVars
    <2> QED
      BY <2>1, FrameNoMove
  <1>5. CASE TrimRenderQueue
    <2>1. RenderDropTarget \in Nat /\ NonNull(renderer.frame) = {}
      BY <1>0, <1>5 DEF RenderDropTarget, TrimRenderQueue, TypeOK,
                        RendererState, NonNull
    <2>2. /\ UNCHANGED <<pacingQueue, vsync, nextFrame, rendered,
                         deferredFree, dtor, freed>>
          /\ TrimOne(RenderDropTarget)
      BY <1>5 DEF TrimRenderQueue
    <2> HIDE DEF RenderDropTarget
    <2> QED
      BY <2>1, <2>2, FrameTrimOne
  <1>6. CASE TrimmedFrame
    <2>1. renderer.target \in Nat /\ NonNull(renderer.frame) = {renderer.frame}
      BY <1>0, <1>6, HandTypes, PacerAssumption
         DEF TrimmedFrame, NonNull, NoFrame, Frame
    <2>2. /\ UNCHANGED <<pacingQueue, vsync, nextFrame, rendered,
                         deferredFree, dtor>>
          /\ freed' = freed \cup {renderer.frame}
          /\ TrimOne(renderer.target)
      BY <1>6 DEF TrimmedFrame
    <2> QED
      BY <2>1, <2>2, FrameTrimOne
  <1> QED
    BY <1>2, <1>3, <1>4, <1>5, <1>6, FrameShow DEF RendererStep

-----------------------------------------------------------------------------
(* The decoder thread and the destructor. *)

\* The new frame is in no place yet, and the one that makes room is freed.
LEMMA FrameSubmit ==
    ASSUME OrderInv, PlaceOrder, Teardown, Accounted,
           SubmitForPacing \/ SubmitForRendering
    PROVE  PlaceOrder' /\ Accounted'
  <1>0. /\ TypeOK /\ QueueOrder /\ nextFrame \in Frame
        /\ nextFrame \in Nat
        /\ pacingQueue \in Seq(Frame) /\ renderQueue \in Seq(Frame)
        /\ Len(pacingQueue) <= MAX_QUEUED_FRAMES
        /\ Len(renderQueue) <= MAX_QUEUED_FRAMES
    BY PacerAssumption, OrderTypes
       DEF OrderInv, SubmitForPacing, SubmitForRendering, TypeOK, Frame
  <1>1. /\ nextFrame' = nextFrame + 1
        /\ UNCHANGED <<vsync, renderer, rendered, deferredFree, dtor>>
    BY DEF SubmitForPacing, SubmitForRendering
  <1>2. Submitted' = Submitted \cup {nextFrame}
    BY <1>0, <1>1, PacerAssumption DEF Submitted, Frame
  <1>3. nextFrame \notin Held \cup freed
    BY <1>0 DEF Accounted, Submitted
  <1>4. ASSUME NEW D \in SUBSET Held, Held' = (Held \ D) \cup {nextFrame},
               freed' = freed \cup D
        PROVE  Accounted'
    BY <1>2, <1>3, <1>4 DEF Accounted
  <1>5. CASE SubmitForPacing
    <2> DEFINE D == DroppedForEnqueue(pacingQueue)
    <2>1. /\ pacingQueue' = Append(DropForEnqueue(pacingQueue), nextFrame)
          /\ freed' = freed \cup D
          /\ UNCHANGED renderQueue
      BY <1>5 DEF SubmitForPacing
    <2>2. /\ ToSet(pacingQueue') = (ToSet(pacingQueue) \ D) \cup {nextFrame}
          /\ D \subseteq ToSet(pacingQueue)
      BY <1>0, <2>1, DroppedElements, QueueElements DEF QueueOrder
    <2>3. PlaceOrder'
      BY <1>1, <2>1 DEF PlaceOrder
    <2>4. Held' = ToSet(pacingQueue') \cup ToSet(renderQueue)
                    \cup NonNull(vsync.frame) \cup NonNull(renderer.frame)
                    \cup NonNull(deferredFree)
      BY <1>1, <2>1 DEF Held, Queued, InHand, NonNull
    <2> HIDE DEF D
    <2>5. D \in SUBSET Held /\ Held' = (Held \ D) \cup {nextFrame}
      BY <2>2, <2>4, SetsApart
    <2> QED
      BY <1>4, <2>1, <2>3, <2>5
  <1>6. CASE SubmitForRendering
    <2> DEFINE D == DroppedForEnqueue(renderQueue)
    <2>1. /\ renderQueue' = Append(DropForEnqueue(renderQueue), nextFrame)
          /\ freed' = freed \cup D
          /\ ~HasVsyncSource
          /\ UNCHANGED pacingQueue
      BY <1>6 DEF SubmitForRendering
    <2>2. /\ ToSet(renderQueue') = (ToSet(renderQueue) \ D) \cup {nextFrame}
          /\ D \subseteq ToSet(renderQueue)
      BY <1>0, <2>1, DroppedElements, QueueElements DEF QueueOrder
    <2>3. PlaceOrder'
      <3>1. vsync.frame = NoFrame
        BY <1>0, <2>1 DEF Teardown, TypeOK, VsyncState
      <3> QED
        BY <1>1, <3>1 DEF PlaceOrder
    <2>4. Held' = ToSet(pacingQueue) \cup ToSet(renderQueue')
                    \cup NonNull(vsync.frame) \cup NonNull(renderer.frame)
                    \cup NonNull(deferredFree)
      BY <1>1, <2>1 DEF Held, Queued, InHand, NonNull
    <2> HIDE DEF D
    <2>5. D \in SUBSET Held /\ Held' = (Held \ D) \cup {nextFrame}
      BY <2>2, <2>4, SetsApart
    <2> QED
      BY <1>4, <2>1, <2>3, <2>5
  <1> QED
    BY <1>5, <1>6

\* ~Pacer finds no frame in a thread's hands and frees all the others.
LEMMA FrameDtorFreeFrames ==
    ASSUME OrderInv, PlaceOrder, Teardown, Accounted, DtorFreeFrames
    PROVE  PlaceOrder' /\ Accounted'
  <1>0. TypeOK
    BY DEF OrderInv
  <1>1. /\ freed' = freed \cup ToSet(renderQueue) \cup ToSet(pacingQueue)
                          \cup NonNull(deferredFree)
        /\ renderQueue' = <<>> /\ pacingQueue' = <<>>
        /\ deferredFree' = NoFrame /\ dtor' = "destroyed"
        /\ UNCHANGED <<vsync, renderer, nextFrame, rendered>>
    BY DEF DtorFreeFrames
  <1>2. vsync.frame = NoFrame /\ renderer.frame = NoFrame
    BY <1>0 DEF DtorFreeFrames, Teardown, TypeOK, VsyncState, RendererState
  <1>3. PlaceOrder'
    BY <1>1, <1>2 DEF PlaceOrder
  <1>4. Held' = {}
    BY <1>1, <1>2 DEF Held, Queued, InHand, NonNull, ToSet
  <1>5. Held = ToSet(renderQueue) \cup ToSet(pacingQueue) \cup NonNull(deferredFree)
    BY <1>2 DEF Held, Queued, InHand, NonNull
  <1>6. Frees(Held)
    BY <1>1, <1>4, <1>5 DEF Frees
  <1> QED
    BY <1>3, <1>6, FreesAccounted

\* The steps that only wake, join or stop a thread.
LEMMA FrameRest ==
    ASSUME OrderInv, PlaceOrder, Accounted,
           \/ DecoderWakesPacing \/ DecoderWakesRender
           \/ DtorStop \/ DtorWakeVsync \/ DtorJoinVsync \/ DtorWakeRender
           \/ Destroyed
    PROVE  PlaceOrder' /\ Accounted'
  <1>0. TypeOK
    BY DEF OrderInv
  <1>1. /\ UNCHANGED <<pacingQueue, renderQueue, deferredFree, rendered, freed,
                       nextFrame>>
        /\ dtor' = "destroyed" <=> dtor = "destroyed"
    BY DEF DecoderWakesPacing, DecoderWakesRender, DtorStop, DtorWakeVsync,
           DtorJoinVsync, DtorWakeRender, Destroyed, vars, queueVars, threadVars
  <1>2. vsync'.frame = vsync.frame
    BY <1>0 DEF DecoderWakesPacing, DecoderWakesRender, DtorStop,
           DtorWakeVsync, DtorJoinVsync, DtorWakeRender, Destroyed, vars,
           threadVars, WakeVsync, TypeOK, VsyncState
  <1>3. renderer'.frame = renderer.frame
    BY <1>0 DEF DecoderWakesPacing, DecoderWakesRender, DtorStop,
           DtorWakeVsync, DtorJoinVsync, DtorWakeRender, Destroyed, vars,
           threadVars, WakeRenderer, TypeOK, RendererState
  <1> QED
    BY <1>1, <1>2, <1>3, FrameNoMove

-----------------------------------------------------------------------------
(* Where ~Pacer finds the threads, and the invariant. *)

LEMMA TeardownStep ==
    ASSUME TypeOK, Teardown, Next
    PROVE  Teardown'
  <1> USE DEF Teardown
  <1>1. CASE SubmitForPacing \/ SubmitForRendering
    BY <1>1 DEF SubmitForPacing, SubmitForRendering
  <1>2. CASE DecoderWakesPacing \/ DecoderWakesRender
    BY <1>2 DEF DecoderWakesPacing, DecoderWakesRender, WakeVsync,
                WakeRenderer, TypeOK, VsyncState, RendererState, queueVars
  <1>3. CASE VsyncStep
    <2>1. /\ vsync.pc # "exited"
          /\ UNCHANGED <<dtor, decoder>>
      BY <1>3 DEF VsyncStep, VsyncExit, VsyncTick, VsyncHandle, VsyncDropped,
                  VsyncTimeout, VsyncWoken, VsyncWakesRender
    <2>2. renderer.pc \in {"ready", "exited"} => UNCHANGED renderer
      BY <1>3 DEF VsyncStep, VsyncExit, VsyncTick, VsyncHandle, VsyncDropped,
                  VsyncTimeout, VsyncWoken, VsyncWakesRender, WakeRenderer
    <2> QED
      BY <2>1, <2>2
  <1>4. CASE RendererStep
    <2>1. /\ UNCHANGED <<dtor, decoder, vsync, pacingQueue>>
          /\ renderer.pc # "exited"
      BY <1>4 DEF RendererStep, RenderThreadExit, RenderThreadTake,
                  RenderThreadTest, RenderThreadWait, RenderOnMainThread,
                  RenderFrame, TrimRenderQueue, TrimmedFrame, queueVars
    <2>2. ~HasRenderThread /\ dtor # "alive" => FALSE
      BY <1>4 DEF RendererStep, RenderThreadExit, RenderThreadTake,
                  RenderThreadTest, RenderThreadWait, RenderOnMainThread,
                  RenderFrame, TrimRenderQueue, TrimmedFrame
    <2> QED
      BY <2>1, <2>2
  <1>5. CASE DtorStop
    BY <1>5 DEF DtorStop, queueVars
  <1>6. CASE DtorStep
    BY <1>6 DEF DtorStep, DtorWakeVsync, DtorJoinVsync, DtorWakeRender,
                DtorFreeFrames, WakeVsync, WakeRenderer, TypeOK, VsyncState,
                RendererState, queueVars
  <1>7. CASE Destroyed
    BY <1>7 DEF Destroyed, vars, queueVars, threadVars
  <1> QED
    BY <1>1, <1>2, <1>3, <1>4, <1>5, <1>6, <1>7 DEF Next, DecoderStep

LEMMA FrameInit ==
    ASSUME Init
    PROVE  FrameInv
  <1>1. OrderInv
    BY OrderInit
  <1>2. PlaceOrder
    BY DEF Init, PlaceOrder, NoFrame
  <1>3. Teardown
    BY DEF Init, Teardown
  <1>4. Held = {} /\ freed = {} /\ Submitted = {}
    BY DEF Init, Held, Queued, InHand, NonNull, NoFrame, ToSet, Submitted
  <1> QED
    BY <1>1, <1>2, <1>3, <1>4 DEF FrameInv, Accounted

LEMMA FrameStep ==
    ASSUME FrameInv, [Next]_vars
    PROVE  FrameInv'
  <1> USE DEF FrameInv
  <1>1. OrderInv'
    BY OrderStep
  <1>2. CASE UNCHANGED vars
    BY <1>1, <1>2 DEF vars, queueVars, threadVars, PlaceOrder, Teardown,
                      Accounted, Held, Queued, InHand, NonNull, Submitted
  <1>3. CASE Next
    <2>1. Teardown'
      BY <1>3, TeardownStep DEF OrderInv
    <2>2. PlaceOrder' /\ Accounted'
      BY <1>3, FrameSubmit, FrameVsync, FrameRenderer, FrameDtorFreeFrames,
         FrameRest DEF Next, DecoderStep, DtorStep
    <2> QED
      BY <1>1, <2>1, <2>2
  <1> QED
    BY <1>2, <1>3

LEMMA FrameInvariant == Spec => []FrameInv
  BY FrameInit, FrameStep, PTL DEF Spec

LEMMA FrameInvImplies ==
    ASSUME FrameInv
    PROVE  FramesAccountedFor /\ ShownFrameKept
  <1> USE DEF FrameInv
  <1>1. Held \cup freed = Submitted /\ Held \cap freed = {}
    BY DEF Accounted
  <1>2. ASSUME dtor = "destroyed"
        PROVE  Held = {}
    <2>1. vsync.frame = NoFrame /\ renderer.frame = NoFrame
      BY <1>2 DEF Teardown, OrderInv, TypeOK, VsyncState, RendererState
    <2>2. /\ pacingQueue = <<>> /\ renderQueue = <<>>
          /\ deferredFree = NoFrame
      BY <1>2 DEF Teardown, PlaceOrder
    <2> QED
      BY <2>1, <2>2 DEF Held, Queued, InHand, NonNull, ToSet
  <1>3. ASSUME rendered # NoFrame, dtor # "destroyed"
        PROVE  rendered \in Held
    BY <1>3 DEF PlaceOrder, Held, NonNull
  <1> QED
    BY <1>1, <1>2, <1>3 DEF FramesAccountedFor, ShownFrameKept

\* Every frame the pacer accepts is held in exactly one place or has been
\* freed, and ~Pacer frees what is left: no leak and no double free, for any
\* number of frames, any queue capacity and any interleaving of the threads.
THEOREM FramesCorrect == Spec => []FramesAccountedFor
  BY FrameInvariant, FrameInvImplies, PTL

\* The buffer of the picture on screen is never among the freed ones until
\* the next picture has been rendered or the pacer is destroyed.
THEOREM ShownCorrect == Spec => []ShownFrameKept
  BY FrameInvariant, FrameInvImplies, PTL

-----------------------------------------------------------------------------
(* Events of main-thread rendering: EventForEachFrame is inductive as it   *)
(* stands.  Both of its sides are counted over one step.                   *)

Waking == (IF decoder = "wakeRender" THEN 1 ELSE 0)
              + (IF vsync.pc = "wakeRender" THEN 1 ELSE 0)

LEMMA EventCount ==
    ASSUME TypeOK
    PROVE  /\ EventForEachFrame
              <=> (~HasRenderThread => Len(renderQueue) <= frameReady + Waking)
           /\ Len(renderQueue) \in Nat /\ frameReady \in Nat /\ Waking \in 0..2
  BY DEF TypeOK, EventForEachFrame, Waking

LEMMA EventPromote ==
    ASSUME TypeOK, NEW t \in Nat, Promote(t)
    PROVE  Len(renderQueue') <= Len(renderQueue) + 1
  <1>1. pacingQueue # <<>>
    BY DEF Promote, TypeOK
  <1>2. /\ Head(pacingQueue) \in Frame
        /\ DropForEnqueue(renderQueue) \in Seq(Frame)
        /\ Len(DropForEnqueue(renderQueue)) <= Len(renderQueue)
    BY <1>1, TailProperties, DropForEnqueueProperties DEF TypeOK
  <1>3. Len(renderQueue') = Len(DropForEnqueue(renderQueue)) + 1
    BY <1>2, AppendProperties DEF Promote
  <1> QED
    BY <1>2, <1>3, EventCount

LEMMA EventTrimOne ==
    ASSUME TypeOK, NEW t \in Nat, TrimOne(t)
    PROVE  Len(renderQueue') <= Len(renderQueue)
  <1>1. CASE UNCHANGED renderQueue
    BY <1>1, EventCount
  <1>2. CASE Len(renderQueue) > t /\ renderQueue' = Tail(renderQueue)
    <2>1. renderQueue # <<>>
      BY <1>2 DEF TypeOK
    <2> QED
      BY <1>2, <2>1, TailProperties, EventCount DEF TypeOK
  <1> QED
    BY <1>1, <1>2 DEF TrimOne

LEMMA EventVsync ==
    ASSUME TypeOK, TypeOK', EventForEachFrame, VsyncStep, ~HasRenderThread
    PROVE  Len(renderQueue') <= frameReady' + Waking'
  <1>0. /\ Len(renderQueue) <= frameReady + Waking
        /\ vsync \in VsyncState
    BY EventCount DEF TypeOK
  <1>1. ASSUME vsync.pc # "wakeRender", NEW t \in Nat, Promote(t),
               UNCHANGED <<decoder, frameReady>>
        PROVE  Len(renderQueue') <= frameReady' + Waking'
    <2>1. Waking' = Waking + 1
      BY <1>1 DEF Waking, Promote
    <2> QED
      BY <1>0, <1>1, <2>1, EventPromote, EventCount
  <1>2. ASSUME vsync.pc # "wakeRender", vsync'.pc # "wakeRender",
               UNCHANGED <<renderQueue, decoder, frameReady>>
        PROVE  Len(renderQueue') <= frameReady' + Waking'
    BY <1>0, <1>2 DEF Waking
  <1>3. ASSUME NEW t \in Nat
        PROVE  VsyncDropOne(t) \/ VsyncWaitForFrame(t)
                  => UNCHANGED renderQueue /\ vsync'.pc # "wakeRender"
    BY DEF VsyncDropOne, VsyncWaitForFrame
  <1>4. CASE VsyncHandle
    <2>1. VsyncDropTarget \in Nat
      BY DEF VsyncDropTarget
    <2>2. /\ vsync.pc # "wakeRender" /\ UNCHANGED <<decoder, frameReady>>
          /\ \/ VsyncDropOne(VsyncDropTarget)
             \/ VsyncWaitForFrame(VsyncDropTarget)
             \/ Promote(VsyncDropTarget)
      BY <1>4 DEF VsyncHandle
    <2> HIDE DEF VsyncDropTarget
    <2> QED
      BY <1>1, <1>2, <1>3, <2>1, <2>2
  <1>5. CASE VsyncDropped
    <2>1. vsync.target \in Nat
      BY HandTypes
    <2>2. /\ vsync.pc # "wakeRender" /\ UNCHANGED <<decoder, frameReady>>
          /\ \/ VsyncDropOne(vsync.target)
             \/ VsyncWaitForFrame(vsync.target)
             \/ Promote(vsync.target)
      BY <1>5 DEF VsyncDropped
    <2> QED
      BY <1>1, <1>2, <1>3, <2>1, <2>2
  <1>6. CASE VsyncWoken
    <2>1. vsync.pc # "wakeRender" /\ UNCHANGED <<decoder, frameReady>>
      BY <1>6 DEF VsyncWoken
    <2>2. CASE Promote(Len(pacingQueue))
      BY <1>1, <2>1, <2>2 DEF TypeOK
    <2>3. CASE /\ UNCHANGED renderQueue
               /\ \/ vsync' = [vsync EXCEPT !.pc = "top"]
                  \/ vsync' = [vsync EXCEPT !.pc = "fault"]
      BY <1>0, <1>2, <2>1, <2>3 DEF VsyncState
    <2> QED
      BY <1>6, <2>2, <2>3 DEF VsyncWoken
  <1>7. CASE VsyncExit \/ VsyncTick \/ VsyncTimeout
    BY <1>0, <1>2, <1>7 DEF VsyncExit, VsyncTick, VsyncTimeout, VsyncState,
                            queueVars
  <1>8. CASE VsyncWakesRender
    <2>1. /\ vsync.pc = "wakeRender" /\ vsync'.pc = "top"
          /\ frameReady' = frameReady + 1
          /\ UNCHANGED <<renderQueue, decoder>>
      BY <1>0, <1>8 DEF VsyncWakesRender, VsyncState, queueVars
    <2> QED
      BY <1>0, <2>1, EventCount DEF Waking
  <1> QED
    BY <1>4, <1>5, <1>6, <1>7, <1>8 DEF VsyncStep

LEMMA EventRenderer ==
    ASSUME TypeOK, TypeOK', EventForEachFrame, RendererStep, ~HasRenderThread
    PROVE  Len(renderQueue') <= frameReady' + Waking'
  <1>0. /\ Len(renderQueue) <= frameReady + Waking
        /\ UNCHANGED <<decoder, vsync>> /\ Waking' = Waking
    BY EventCount
       DEF RendererStep, RenderThreadExit, RenderThreadTake, RenderThreadTest,
           RenderThreadWait, RenderOnMainThread, RenderFrame, TrimRenderQueue,
           TrimmedFrame, Waking
  <1>1. CASE RenderOnMainThread
    <2>1. frameReady' = frameReady - 1 /\ frameReady > 0
      BY <1>1 DEF RenderOnMainThread
    <2>2. \/ renderQueue # <<>> /\ Len(renderQueue') = Len(renderQueue) - 1
          \/ Len(renderQueue') = 0
      BY <1>1, TailProperties DEF RenderOnMainThread, TakeFrame, TypeOK
    <2> QED
      BY <1>0, <2>1, <2>2, EventCount
  <1>2. ASSUME NEW t \in Nat, TrimOne(t), UNCHANGED frameReady
        PROVE  Len(renderQueue') <= frameReady' + Waking'
    <2>1. Len(renderQueue') <= Len(renderQueue) /\ Len(renderQueue') \in Nat
      BY <1>2, EventTrimOne DEF TypeOK
    <2> QED
      BY <1>0, <1>2, <2>1, EventCount
  <1>3. CASE TrimRenderQueue \/ TrimmedFrame
    <2>1. RenderDropTarget \in Nat /\ renderer.target \in Nat
      BY HandTypes DEF RenderDropTarget
    <2> HIDE DEF RenderDropTarget
    <2> QED
      BY <1>2, <1>3, <2>1 DEF TrimRenderQueue, TrimmedFrame
  <1>4. CASE RenderThreadWait \/ RenderFrame
    BY <1>0, <1>4 DEF RenderThreadWait, RenderFrame, queueVars
  <1> QED
    BY <1>1, <1>3, <1>4
       DEF RendererStep, RenderThreadExit, RenderThreadTake, RenderThreadTest

LEMMA EventDecoderDtor ==
    ASSUME TypeOK, TypeOK', EventForEachFrame, ~HasRenderThread,
           DecoderStep \/ DtorStop \/ DtorStep \/ Destroyed
    PROVE  Len(renderQueue') <= frameReady' + Waking'
  <1>0. /\ Len(renderQueue) <= frameReady + Waking
        /\ vsync \in VsyncState
    BY EventCount DEF TypeOK
  <1>1. CASE SubmitForPacing
    BY <1>0, <1>1 DEF SubmitForPacing, Waking
  <1>2. CASE SubmitForRendering
    <2>1. nextFrame \in Frame
      BY <1>2, PacerAssumption DEF SubmitForRendering, TypeOK, Frame
    <2>2. Len(renderQueue') = Len(DropForEnqueue(renderQueue)) + 1
      BY <1>2, <2>1, DropForEnqueueProperties, AppendProperties
         DEF SubmitForRendering, TypeOK
    <2>3. /\ Len(DropForEnqueue(renderQueue)) <= Len(renderQueue)
          /\ Len(DropForEnqueue(renderQueue)) \in Nat
      BY DropForEnqueueProperties DEF TypeOK
    <2>4. Waking' = Waking + 1 /\ UNCHANGED frameReady
      BY <1>2 DEF SubmitForRendering, Waking
    <2> QED
      BY <1>0, <2>2, <2>3, <2>4, EventCount
  <1>3. CASE DecoderWakesPacing \/ DtorWakeVsync
    <2>1. vsync'.pc = "wakeRender" <=> vsync.pc = "wakeRender"
      BY <1>0, <1>3 DEF DecoderWakesPacing, DtorWakeVsync, WakeVsync, VsyncState
    <2>2. /\ UNCHANGED <<renderQueue, frameReady>>
          /\ decoder'= "wakeRender" <=> decoder = "wakeRender"
      BY <1>3 DEF DecoderWakesPacing, DtorWakeVsync, queueVars
    <2> QED
      BY <1>0, <2>1, <2>2 DEF Waking
  <1>4. CASE DecoderWakesRender
    <2>1. Waking' = Waking - 1
      BY <1>4 DEF DecoderWakesRender, Waking
    <2>2. UNCHANGED renderQueue /\ frameReady' = frameReady + 1
      BY <1>4 DEF DecoderWakesRender, queueVars
    <2> QED
      BY <1>0, <2>1, <2>2, EventCount
  <1>5. CASE DtorStop \/ DtorJoinVsync \/ DtorWakeRender \/ Destroyed
    BY <1>0, <1>5 DEF DtorStop, DtorJoinVsync, DtorWakeRender, Destroyed,
                      vars, queueVars, threadVars, Waking
  <1>6. CASE DtorFreeFrames
    BY <1>6 DEF DtorFreeFrames, Waking, TypeOK
  <1> QED
    BY <1>1, <1>2, <1>3, <1>4, <1>5, <1>6 DEF DecoderStep, DtorStep

LEMMA EventStep ==
    ASSUME TypeOK, EventForEachFrame, [Next]_vars
    PROVE  EventForEachFrame'
  <1>1. CASE UNCHANGED vars
    BY <1>1 DEF vars, queueVars, threadVars, EventForEachFrame
  <1>2. CASE Next
    <2>1. TypeOK'
      BY TypeStep
    <2>2. Len(renderQueue') \in Nat /\ frameReady' \in Nat
      BY <2>1 DEF TypeOK
    <2>3. (~HasRenderThread => Len(renderQueue') <= frameReady' + Waking')
              => EventForEachFrame'
      BY <2>2 DEF EventForEachFrame, Waking
    <2> QED
      BY <1>2, <2>1, <2>3, EventVsync, EventRenderer, EventDecoderDtor DEF Next
  <1> QED
    BY <1>1, <1>2

LEMMA EventInit ==
    ASSUME Init
    PROVE  EventForEachFrame
  BY DEF Init, EventForEachFrame

\* With main-thread rendering an SDL_CODE_FRAME_READY event is queued, or about
\* to be pushed, for every frame of the render queue, whatever is dropped.
THEOREM EventCorrect == Spec => []EventForEachFrame
  BY TypeCorrect, EventInit, EventStep, PTL DEF Spec
=============================================================================
