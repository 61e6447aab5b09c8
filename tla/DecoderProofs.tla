--------------------------- MODULE DecoderProofs ---------------------------
(***************************************************************************)
(* Proofs about the decoder thread and about the recreation of the decoder,*)
(* for every threshold, every number of units and every number of window   *)
(* changes, reset requests, full-screen keys and changes of the HDR mode.  *)
(***************************************************************************)
EXTENDS MCDecoder, FiniteSetTheorems, TLAPS

-----------------------------------------------------------------------------
(* The decoder thread.  GivesUpForGood needs to know where the thread can  *)
(* be once it has asked for a new decoder, FrameInfoMatches that it polls  *)
(* the codec only while it is owed a frame, and StampIsOwn that the codec  *)
(* and m_FrameInfoQueue hold the same units.                               *)

\* Where the thread has found that it is owed a frame, or that it is not.
OwedWhere ==
    /\ pc \in {"wait", "waiting"} => framesIn = framesOut
    /\ pc \in {"receive", "again"} => framesIn # framesOut

\* The threshold is reached once, and after it no unit is taken.
GivenUp ==
    /\ failures = FAILED_DECODES_RESET_THRESHOLD <=> resetEvents > 0
    /\ resetEvents > 0 =>
          /\ pc \in {"loop", "owed", "again", "exited"}
          /\ pc = "owed" => framesIn = framesOut
          /\ shouldQuit \/ reset = "done"

Joined == reset = "done" => pc = "exited"

\* What the codec holds is what the queue describes.
QueueIsCodec == lost \/ reset = "done" \/ infoQueue = codec

ThreadInv ==
    /\ FrameDecoderTypeOK
    /\ OwedWhere /\ GivenUp /\ Joined
    /\ FrameInfoMatches
    /\ QueueIsCodec /\ StampIsOwn

LEMMA TailType ==
    ASSUME NEW S, NEW q \in Seq(S), q # <<>>
    PROVE  /\ Tail(q) \in Seq(S)
           /\ Len(Tail(q)) = Len(q) - 1
           /\ Head(q) \in S
           /\ Len(q) \in Nat \ {0}
  OBVIOUS

LEMMA ThreadInit == FrameDecoderInit => ThreadInv
<1> SUFFICES ASSUME FrameDecoderInit PROVE ThreadInv
  OBVIOUS
<1> USE DecoderAssumption DEF FrameDecoderInit
<1>1. FrameDecoderTypeOK
  <2>1. shown \in [frame : 0..MaxUnits, stamp : 0..MaxUnits]
    BY DEF NoFrame
  <2>2. infoQueue \in Seq(1..MaxUnits) /\ codec \in Seq(1..MaxUnits)
    OBVIOUS
  <2>3. units \in Seq(Unit)
    OBVIOUS
  <2>4. received \in 0..MaxUnits /\ failures \in 0..FAILED_DECODES_RESET_THRESHOLD
    OBVIOUS
  <2>5. QED
    BY <2>1, <2>2, <2>3, <2>4 DEF FrameDecoderTypeOK
<1>2. OwedWhere /\ GivenUp /\ Joined
  BY DEF OwedWhere, GivenUp, Joined
<1>3. FrameInfoMatches /\ QueueIsCodec /\ StampIsOwn
  BY DEF FrameInfoMatches, QueueIsCodec, StampIsOwn, NoFrame
<1>4. QED
  BY <1>1, <1>2, <1>3 DEF ThreadInv

\* What a failed submission or decode counts.
LEMMA CountFailureCounts ==
    ASSUME FrameDecoderTypeOK, GivenUp, resetEvents = 0, CountFailure
    PROVE  /\ failures' \in 0..FAILED_DECODES_RESET_THRESHOLD
           /\ resetEvents' \in Nat
           /\ shouldQuit' \in BOOLEAN
           /\ failures' = FAILED_DECODES_RESET_THRESHOLD <=> resetEvents' > 0
           /\ resetEvents' > 0 => shouldQuit'
<1>1. /\ failures \in Nat /\ failures < FAILED_DECODES_RESET_THRESHOLD
      /\ FAILED_DECODES_RESET_THRESHOLD \in Nat
      /\ shouldQuit \in BOOLEAN
  BY DecoderAssumption DEF FrameDecoderTypeOK, GivenUp
<1>2. CASE failures + 1 = FAILED_DECODES_RESET_THRESHOLD
  BY <1>1, <1>2 DEF CountFailure
<1>3. CASE failures + 1 # FAILED_DECODES_RESET_THRESHOLD
  BY <1>1, <1>3 DEF CountFailure
<1>4. QED
  BY <1>2, <1>3

\* What is left of the counts and queues when the next unit is consumed.
Consumed ==
    /\ units' \in Seq(Unit)
    /\ failures' \in 0..FAILED_DECODES_RESET_THRESHOLD
    /\ resetEvents' \in Nat /\ shouldQuit' \in BOOLEAN
    /\ failures' = FAILED_DECODES_RESET_THRESHOLD <=> resetEvents' > 0
    /\ resetEvents' > 0 => shouldQuit'
    /\ infoQueue' \in Seq(1..MaxUnits) /\ codec' \in Seq(1..MaxUnits)
    /\ framesOut' = framesOut
    /\ UNCHANGED <<received, userWake, lost, reset, shown>>
    /\ \/ /\ framesIn' = framesIn + 1
          /\ resetEvents' = 0
          /\ Len(infoQueue') = Len(infoQueue) + 1
          /\ Len(codec') = Len(codec) + 1
          /\ infoQueue = codec => infoQueue' = codec'
       \/ framesIn' = framesIn /\ UNCHANGED <<infoQueue, codec>>

LEMMA ConsumeUnitConsumes ==
    ASSUME FrameDecoderTypeOK, GivenUp, resetEvents = 0, ConsumeUnit
    PROVE  Consumed
<1>1. /\ units' \in Seq(Unit)
      /\ Head(units) \in Unit
      /\ Head(units).number \in 1..MaxUnits
  <2>1. units \in Seq(Unit) /\ units # <<>> /\ units' = Tail(units)
    BY DEF FrameDecoderTypeOK, ConsumeUnit
  <2>2. units' \in Seq(Unit) /\ Head(units) \in Unit
    BY <2>1, TailType
  <2>3. QED
    BY <2>2 DEF Unit
<1>2. CASE SubmitAccepted(Head(units))
  <2>1. /\ infoQueue' \in Seq(1..MaxUnits) /\ codec' \in Seq(1..MaxUnits)
        /\ Len(infoQueue') = Len(infoQueue) + 1
        /\ Len(codec') = Len(codec) + 1
        /\ infoQueue = codec => infoQueue' = codec'
    BY <1>1, <1>2 DEF FrameDecoderTypeOK, SubmitAccepted
  <2>2. QED
    BY <1>1, <1>2, <2>1
    DEF Consumed, ConsumeUnit, SubmitAccepted, FrameDecoderTypeOK, GivenUp
<1>3. CASE SubmitFailed(Head(units))
  <2>1. CountFailure /\ UNCHANGED <<framesIn, infoQueue, codec>>
    BY <1>3 DEF SubmitFailed
  <2>2. QED
    BY <1>1, <2>1, CountFailureCounts
    DEF Consumed, ConsumeUnit, FrameDecoderTypeOK
<1>4. CASE SubmitRejected(Head(units))
  BY <1>1, <1>4
  DEF Consumed, ConsumeUnit, SubmitRejected, FrameDecoderTypeOK, GivenUp
<1>5. QED
  BY <1>2, <1>3, <1>4 DEF ConsumeUnit

\* The two steps of the thread that consume a unit.
LEMMA ThreadConsumes ==
    ASSUME ThreadInv,
           \/ Go("waiting", "owed") /\ Consumed
           \/ Go("receive", "again") /\ Consumed
    PROVE  ThreadInv'
<1>0. /\ Consumed /\ resetEvents = 0
      /\ \/ pc = "waiting" /\ pc' = "owed"
         \/ pc = "receive" /\ pc' = "again"
  BY DEF ThreadInv, GivenUp, Go, FrameDecoderTypeOK
<1>1. FrameDecoderTypeOK'
  BY <1>0 DEF ThreadInv, FrameDecoderTypeOK, Consumed
<1>2. reset # "done"
  BY <1>0 DEF ThreadInv, Joined
<1>3. /\ framesIn \in Nat /\ framesOut \in Nat
      /\ Len(codec) \in Nat /\ Len(infoQueue) \in Nat
      /\ framesIn >= framesOut
  BY DEF ThreadInv, FrameDecoderTypeOK, FrameInfoMatches
<1>4. OwedWhere'
  BY <1>0, <1>3 DEF ThreadInv, OwedWhere, Consumed
<1>5. GivenUp'
  <2>1. pc = "waiting" => framesIn = framesOut
    BY DEF ThreadInv, OwedWhere
  <2>2. QED
    BY <1>0, <2>1 DEF GivenUp, Consumed
<1>6. Joined'
  BY <1>0, <1>2 DEF Joined, Consumed
<1>7. FrameInfoMatches'
  BY <1>0, <1>3 DEF ThreadInv, FrameInfoMatches, Consumed
<1>8. QueueIsCodec' /\ StampIsOwn'
  BY <1>0 DEF ThreadInv, QueueIsCodec, StampIsOwn, Consumed
<1>9. QED
  BY <1>1, <1>4, <1>5, <1>6, <1>7, <1>8 DEF ThreadInv

\* The steps of the thread that only move it.
LEMMA ThreadMoves ==
    ASSUME ThreadInv, Loop \/ EnterWait \/ WaitWoken \/ TestOwed \/ ReceiveAgain
                        \/ PollAgain
    PROVE  ThreadInv'
<1> USE DEF ThreadInv, threadVars, externalVars, Go
<1>1. /\ UNCHANGED <<framesIn, framesOut, infoQueue, failures, resetEvents,
                     shouldQuit, reset, received, units, codec, lost, shown>>
      /\ userWake' \in BOOLEAN
      /\ \/ pc = "loop" /\ pc' = IF shouldQuit THEN "exited"
                                 ELSE IF framesIn = framesOut THEN "wait"
                                 ELSE "owed"
         \/ pc = "wait" /\ pc' = "waiting"
         \/ pc = "waiting" /\ pc' = "loop"
         \/ pc = "owed" /\ pc' = "receive" /\ framesIn # framesOut
         \/ pc = "owed" /\ pc' = "loop"
         \/ pc = "receive" /\ pc' = "again"
         \/ pc = "again" /\ pc' = IF shouldQuit THEN "loop" ELSE "receive"
  BY DEF FrameDecoderTypeOK, Loop, EnterWait, WaitWoken, TestOwed,
         ReceiveAgain, PollAgain
<1>2. FrameDecoderTypeOK'
  BY <1>1 DEF FrameDecoderTypeOK
<1>3. reset # "done"
  BY <1>1 DEF Joined
<1>4. OwedWhere'
  BY <1>1 DEF OwedWhere
<1>5. GivenUp'
  BY <1>1, <1>3 DEF GivenUp
<1>6. Joined' /\ FrameInfoMatches' /\ QueueIsCodec' /\ StampIsOwn'
  BY <1>1, <1>3 DEF Joined, FrameInfoMatches, QueueIsCodec, StampIsOwn
<1>7. QED
  BY <1>2, <1>4, <1>5, <1>6

LEMMA ThreadReceives ==
    ASSUME ThreadInv, ReceiveFrame
    PROVE  ThreadInv'
<1> USE DEF ReceiveFrame, Go
<1>1. /\ framesIn \in Nat /\ framesOut \in Nat /\ framesIn > framesOut
      /\ reset # "done" /\ resetEvents = 0
  BY DEF ThreadInv, FrameDecoderTypeOK, OwedWhere, FrameInfoMatches, Joined,
         GivenUp
<1>2. /\ codec' \in Seq(1..MaxUnits) /\ Len(codec') = Len(codec) - 1
      /\ Head(codec) \in 1..MaxUnits
      /\ Len(codec) \in Nat
  BY TailType DEF ThreadInv, FrameDecoderTypeOK
<1>3. infoQueue # <<>>
  BY <1>1 DEF ThreadInv, FrameInfoMatches
<1>4. /\ infoQueue' = Tail(infoQueue)
      /\ infoQueue' \in Seq(1..MaxUnits) /\ Len(infoQueue') = Len(infoQueue) - 1
      /\ Head(infoQueue) \in 1..MaxUnits
      /\ shown' = [frame |-> Head(codec), stamp |-> Head(infoQueue)]
  <2>1. infoQueue \in Seq(1..MaxUnits)
    BY DEF ThreadInv, FrameDecoderTypeOK
  <2>2. /\ Tail(infoQueue) \in Seq(1..MaxUnits)
        /\ Len(Tail(infoQueue)) = Len(infoQueue) - 1
        /\ Head(infoQueue) \in 1..MaxUnits
    BY <1>3, <2>1, TailType
  <2>3. QED
    BY <1>3, <2>2
<1>5. FrameDecoderTypeOK'
  <2>1. shown' \in [frame : 0..MaxUnits, stamp : 0..MaxUnits]
    BY <1>2, <1>4
  <2>2. failures' \in 0..FAILED_DECODES_RESET_THRESHOLD
    BY DecoderAssumption
  <2>3. QED
    BY <1>1, <1>2, <1>4, <2>1, <2>2 DEF ThreadInv, FrameDecoderTypeOK
<1>6. OwedWhere' /\ Joined'
  BY <1>1 DEF OwedWhere, Joined
<1>7. GivenUp'
  BY <1>1, DecoderAssumption DEF GivenUp
<1>8. FrameInfoMatches'
  BY <1>1, <1>2, <1>4 DEF ThreadInv, FrameInfoMatches
<1>9. QueueIsCodec' /\ StampIsOwn'
  BY <1>1, <1>4 DEF ThreadInv, QueueIsCodec, StampIsOwn
<1>10. QED
  BY <1>5, <1>6, <1>7, <1>8, <1>9 DEF ThreadInv

LEMMA ThreadFails ==
    ASSUME ThreadInv, ReceiveFails
    PROVE  ThreadInv'
<1>1. /\ pc = "receive" /\ pc' = "loop" /\ CountFailure
      /\ \/ UNCHANGED <<codec, lost>>
         \/ codec # <<>> /\ codec' = Tail(codec) /\ lost'
      /\ UNCHANGED <<framesIn, framesOut, infoQueue, reset, received, units,
                     userWake, shown>>
  BY DEF ReceiveFails, Go
<1>2. resetEvents = 0 /\ reset # "done"
  BY <1>1 DEF ThreadInv, FrameDecoderTypeOK, GivenUp, Joined
<1>3. /\ failures' \in 0..FAILED_DECODES_RESET_THRESHOLD
      /\ resetEvents' \in Nat
      /\ shouldQuit' \in BOOLEAN
      /\ failures' = FAILED_DECODES_RESET_THRESHOLD <=> resetEvents' > 0
      /\ resetEvents' > 0 => shouldQuit'
  BY <1>1, <1>2, CountFailureCounts DEF ThreadInv
<1>4. codec' \in Seq(1..MaxUnits) /\ lost' \in BOOLEAN
  <2>1. codec \in Seq(1..MaxUnits) /\ lost \in BOOLEAN
    BY DEF ThreadInv, FrameDecoderTypeOK
  <2>2. codec # <<>> => Tail(codec) \in Seq(1..MaxUnits)
    BY <2>1, TailType
  <2>3. lost' = lost \/ lost' = TRUE
    BY DEF ReceiveFails
  <2>4. QED
    BY <1>1, <2>1, <2>2, <2>3
<1>5. FrameDecoderTypeOK'
  BY <1>1, <1>3, <1>4 DEF ThreadInv, FrameDecoderTypeOK
<1>6. OwedWhere' /\ GivenUp' /\ Joined'
  BY <1>1, <1>2, <1>3 DEF OwedWhere, GivenUp, Joined
<1>7. FrameInfoMatches' /\ QueueIsCodec' /\ StampIsOwn'
  BY <1>1 DEF ThreadInv, FrameInfoMatches, QueueIsCodec, StampIsOwn
<1>8. QED
  BY <1>5, <1>6, <1>7 DEF ThreadInv

\* reset() and the library.
LEMMA ThreadOthers ==
    ASSUME ThreadInv, Reset \/ \E idr \in BOOLEAN : UnitArrives(idr)
    PROVE  ThreadInv'
<1> USE DEF threadVars, externalVars
<1>1. CASE ResetSetsFlag
  <2>1. FrameDecoderTypeOK'
    BY <1>1 DEF ThreadInv, FrameDecoderTypeOK, ResetSetsFlag
  <2>2. OwedWhere' /\ GivenUp' /\ Joined'
    BY <1>1 DEF ThreadInv, OwedWhere, GivenUp, Joined, ResetSetsFlag
  <2>3. FrameInfoMatches' /\ QueueIsCodec' /\ StampIsOwn'
    BY <1>1 DEF ThreadInv, FrameInfoMatches, QueueIsCodec, StampIsOwn,
                ResetSetsFlag
  <2>4. QED
    BY <2>1, <2>2, <2>3 DEF ThreadInv
<1>2. CASE LiWakeWaitForVideoFrame
  <2>1. FrameDecoderTypeOK'
    BY <1>2 DEF ThreadInv, FrameDecoderTypeOK, LiWakeWaitForVideoFrame
  <2>2. OwedWhere' /\ GivenUp' /\ Joined'
    BY <1>2 DEF ThreadInv, OwedWhere, GivenUp, Joined, LiWakeWaitForVideoFrame
  <2>3. FrameInfoMatches' /\ QueueIsCodec' /\ StampIsOwn'
    BY <1>2 DEF ThreadInv, FrameInfoMatches, QueueIsCodec, StampIsOwn,
                LiWakeWaitForVideoFrame
  <2>4. QED
    BY <2>1, <2>2, <2>3 DEF ThreadInv
<1>3. CASE ResetJoins
  <2>1. FrameDecoderTypeOK'
    <3>1. /\ framesIn' = 0 /\ framesOut' = 0 /\ infoQueue' = <<>>
          /\ shouldQuit' = FALSE /\ reset' = "done"
      BY <1>3 DEF ResetJoins
    <3>2. UNCHANGED <<pc, failures, resetEvents, received, units, userWake,
                      codec, lost, shown>>
      BY <1>3 DEF ResetJoins
    <3>3. infoQueue' \in Seq(1..MaxUnits)
      BY <3>1
    <3>4. QED
      BY <3>1, <3>2, <3>3 DEF ThreadInv, FrameDecoderTypeOK
  <2>2. OwedWhere' /\ GivenUp' /\ Joined'
    BY <1>3 DEF ThreadInv, OwedWhere, GivenUp, Joined, ResetJoins
  <2>3. FrameInfoMatches' /\ QueueIsCodec' /\ StampIsOwn'
    BY <1>3 DEF ThreadInv, FrameInfoMatches, QueueIsCodec, StampIsOwn,
                ResetJoins
  <2>4. QED
    BY <2>1, <2>2, <2>3 DEF ThreadInv
<1>4. ASSUME NEW idr \in BOOLEAN, UnitArrives(idr)
      PROVE  ThreadInv'
  <2>1. received' \in 0..MaxUnits /\ units' \in Seq(Unit)
    BY <1>4, DecoderAssumption
    DEF ThreadInv, FrameDecoderTypeOK, UnitArrives, Unit
  <2>2. FrameDecoderTypeOK'
    BY <1>4, <2>1 DEF ThreadInv, FrameDecoderTypeOK, UnitArrives
  <2>3. OwedWhere' /\ GivenUp' /\ Joined'
    BY <1>4 DEF ThreadInv, OwedWhere, GivenUp, Joined, UnitArrives
  <2>4. FrameInfoMatches' /\ QueueIsCodec' /\ StampIsOwn'
    BY <1>4 DEF ThreadInv, FrameInfoMatches, QueueIsCodec, StampIsOwn,
                UnitArrives
  <2>5. QED
    BY <2>2, <2>3, <2>4 DEF ThreadInv
<1>5. QED
  BY <1>1, <1>2, <1>3, <1>4 DEF Reset

LEMMA ThreadStep ==
    ASSUME ThreadInv, [FrameDecoderNext]_frameDecoderVars
    PROVE  ThreadInv'
<1>1. CASE WaitedForUnit \/ ReceiveAgainWithInput
  <2>1. Go("waiting", "owed") \/ Go("receive", "again")
    BY <1>1 DEF WaitedForUnit, ReceiveAgainWithInput
  <2>2. resetEvents = 0
    BY <2>1 DEF ThreadInv, GivenUp, FrameDecoderTypeOK, Go
  <2>3. Consumed
    BY <1>1, <2>2, ConsumeUnitConsumes
    DEF ThreadInv, WaitedForUnit, ReceiveAgainWithInput
  <2>4. QED
    BY <2>1, <2>3, ThreadConsumes
<1>2. CASE Loop \/ EnterWait \/ WaitWoken \/ TestOwed \/ ReceiveAgain \/ PollAgain
  BY <1>2, ThreadMoves
<1>3. CASE ReceiveFrame
  BY <1>3, ThreadReceives
<1>4. CASE ReceiveFails
  BY <1>4, ThreadFails
<1>5. CASE Reset \/ \E idr \in BOOLEAN : UnitArrives(idr)
  BY <1>5, ThreadOthers
<1>6. CASE UNCHANGED frameDecoderVars
  <2>1. FrameDecoderTypeOK'
    BY <1>6 DEF ThreadInv, FrameDecoderTypeOK, frameDecoderVars, threadVars,
                externalVars
  <2>2. (OwedWhere /\ GivenUp /\ Joined)'
    BY <1>6 DEF ThreadInv, OwedWhere, GivenUp, Joined, frameDecoderVars,
                threadVars, externalVars
  <2>3. (FrameInfoMatches /\ QueueIsCodec /\ StampIsOwn)'
    BY <1>6 DEF ThreadInv, FrameInfoMatches, QueueIsCodec, StampIsOwn,
                frameDecoderVars, threadVars, externalVars
  <2>4. QED
    BY <2>1, <2>2, <2>3 DEF ThreadInv
<1>7. QED
  BY <1>1, <1>2, <1>3, <1>4, <1>5, <1>6 DEF FrameDecoderNext, DecoderThread

LEMMA ThreadInvariant == FrameDecoderSpec => []ThreadInv
  BY ThreadInit, ThreadStep, PTL DEF FrameDecoderSpec

\* The assertions of the decoder thread: the information it keeps is of the
\* frames it is owed, and the codec holds as many.
THEOREM InfoMatches == FrameDecoderSpec => []FrameInfoMatches
  BY ThreadInvariant, PTL DEF ThreadInv

\* A frame bears the time stamp of its own unit while the codec loses none.
THEOREM StampsAreRight == FrameDecoderSpec => []StampIsOwn
  BY ThreadInvariant, PTL DEF ThreadInv

\* Once the thread has asked for a new decoder it takes no unit and does not
\* ask again, wherever reset() and the library are.
LEMMA GivesUpStep ==
    ASSUME ThreadInv, FrameDecoderNext, resetEvents > 0
    PROVE  resetEvents' = resetEvents /\ Len(units') >= Len(units)
<1>1. pc \notin {"waiting", "receive"}
  BY DEF ThreadInv, GivenUp
<1>2. ~WaitedForUnit /\ ~ReceiveAgainWithInput /\ ~ReceiveFrame /\ ~ReceiveFails
  BY <1>1 DEF WaitedForUnit, ReceiveAgainWithInput, ReceiveFrame, ReceiveFails,
              Go
<1>3. /\ resetEvents' = resetEvents
      /\ \/ units' = units
         \/ \E unit : units' = Append(units, unit)
  <2>1. CASE DecoderThread
    BY <1>2, <2>1
    DEF DecoderThread, Loop, EnterWait, WaitWoken, TestOwed, ReceiveAgain,
        PollAgain, threadVars, externalVars
  <2>2. CASE Reset
    BY <2>2 DEF Reset, ResetSetsFlag, LiWakeWaitForVideoFrame, ResetJoins,
                threadVars, externalVars
  <2>3. CASE \E idr \in BOOLEAN : UnitArrives(idr)
    BY <2>3 DEF UnitArrives, threadVars, externalVars
  <2>4. QED
    BY <2>1, <2>2, <2>3 DEF FrameDecoderNext
<1>4. units \in Seq(Unit) /\ units' \in Seq(Unit)
  BY ThreadStep DEF ThreadInv, FrameDecoderTypeOK
<1>5. QED
  BY <1>3, <1>4

THEOREM AsksOnce == FrameDecoderSpec => GivesUpForGood
<1>1. ThreadInv /\ [FrameDecoderNext]_frameDecoderVars
        => [resetEvents > 0 => /\ resetEvents' = resetEvents
                               /\ Len(units') >= Len(units)]_frameDecoderVars
  BY GivesUpStep
<1>2. QED
  BY <1>1, ThreadInvariant, PTL DEF FrameDecoderSpec, GivesUpForGood

-----------------------------------------------------------------------------
(* The recreation: the event queue.  The window event a decoder waits for  *)
(* must not be among those dropped, so the proof needs to know where the   *)
(* latest change of the window is queued.                                  *)

\* The places of the events of a kind.
Of(kind) == {i \in DOMAIN events : events[i].kind = kind}

\* Behind an event that is out of date there is the one with the geometry of
\* the window.
LatestIsQueued ==
    \A i \in DOMAIN events :
        events[i].kind = "window" /\ events[i].geometry # geometry
            => \E j \in DOMAIN events :
                  /\ i < j
                  /\ events[j].kind = "window" /\ events[j].geometry = geometry

\* The toggles that are queued and those done account for what the geometry
\* may have beyond its own changes.
ToggleBudget ==
    /\ Cardinality(Of("toggle")) <= toggles
    /\ geometry + Cardinality(Of("toggle")) <= MaxResized + toggles

\* Between the destruction and the creation of a decoder no reset is queued.
NoneWhileChoosing ==
    /\ main = "choosing" =>
          /\ decoder = NoDecoder
          /\ \A i \in DOMAIN events : events[i].kind # "reset"
    /\ main \in {"chosen", "hdrRead"} => decoder # NoDecoder

\* What is known of the HDR mode while it is on its way to the decoder.
HdrUnderWay ==
    /\ callback # NoCallback => callback[1] = hostHdr
    /\ main = "hdrRead" /\ callback = NoCallback
          => readHdr = hostHdr \/ hdrMissed

RecreationInv ==
    /\ RecreationTypeOK
    /\ LatestIsQueued /\ ToggleBudget /\ NoneWhileChoosing /\ HdrUnderWay
    /\ WindowChangesReachDecoder
    /\ ResetIsForThisDecoder
    /\ HdrModeSettles

LEMMA EventTypes ==
    /\ \A g \in 1..MaxGeometry :
          /\ WindowEvent(g) \in Event
          /\ WindowEvent(g).kind = "window" /\ WindowEvent(g).geometry = g
    /\ \A n \in Nat \ {0} :
          /\ ResetEvent(n) \in Event
          /\ ResetEvent(n).kind = "reset" /\ ResetEvent(n).serial = n
    /\ Barrier \in Event /\ Barrier.kind = "barrier"
    /\ ToggleKey \in Event /\ ToggleKey.kind = "toggle"
    /\ \A e \in Event : e.kind = "window" => e.geometry \in 1..MaxGeometry
  BY DEF Event, WindowEvent, ResetEvent, Barrier, ToggleKey

\* The queue without what was at the places T, and with new events at N.
Requeued(T, N) ==
    /\ DOMAIN events' = (DOMAIN events \ T) \cup N
    /\ events' \in [DOMAIN events' -> Event]
    /\ \A j \in DOMAIN events \ T : events'[j] = events[j]
    /\ place' \in Nat \ {0} /\ place <= place'
    /\ \A n \in N : n \in Nat /\ place <= n /\ n < place'

QueueType ==
    /\ place \in Nat \ {0}
    /\ DOMAIN events \subseteq 1..(place - 1)
    /\ events \in [DOMAIN events -> Event]

LEMMA RequeuedType ==
    ASSUME QueueType, NEW T, NEW N, Requeued(T, N)
    PROVE  QueueType'
  BY DEF QueueType, Requeued

LEMMA PushRequeues ==
    ASSUME QueueType, NEW e \in Event, Push(events, e)
    PROVE  Requeued({}, {place}) /\ events'[place] = e
  BY DEF QueueType, Push, With, Requeued

LEMMA TakeRequeues ==
    ASSUME QueueType, NEW i \in DOMAIN events, NEW kind, Taken(i, kind)
    PROVE  Requeued({i}, {})
  BY DEF QueueType, Taken, Without, Restrict, Requeued

LEMMA ReplaceRequeues ==
    ASSUME QueueType, NEW i \in DOMAIN events, NEW e \in Event,
           Push(Without(i), e)
    PROVE  Requeued({i}, {place}) /\ events'[place] = e
  BY DEF QueueType, Push, With, Without, Restrict, Requeued

LEMMA FiniteQueue ==
    ASSUME QueueType, NEW kind
    PROVE  IsFiniteSet(Of(kind)) /\ Cardinality(Of(kind)) \in Nat
<1>1. IsFiniteSet(1..(place - 1))
  BY FS_Interval DEF QueueType
<1>2. Of(kind) \subseteq 1..(place - 1)
  BY DEF Of, QueueType
<1>3. QED
  BY <1>1, <1>2, FS_Subset, FS_CardinalityType

\* How many events of a kind there are, when one is pushed, one is taken, or
\* neither.
LEMMA CountKept ==
    ASSUME QueueType, NEW T, NEW N, Requeued(T, N), NEW kind,
           \A i \in T : events[i].kind # kind,
           \A n \in N : events'[n].kind # kind
    PROVE  Of(kind)' = Of(kind)
  BY DEF QueueType, Requeued, Of

LEMMA CountPushed ==
    ASSUME QueueType, NEW T, NEW N, Requeued(T, N), NEW kind,
           \A i \in T : events[i].kind # kind,
           NEW m \in N, events'[m].kind = kind,
           \A n \in N \ {m} : events'[n].kind # kind
    PROVE  /\ Of(kind)' = Of(kind) \cup {m}
           /\ Cardinality(Of(kind)') = Cardinality(Of(kind)) + 1
<1>1. Of(kind)' = Of(kind) \cup {m}
  BY DEF QueueType, Requeued, Of
<1>2. m \notin Of(kind)
  BY DEF QueueType, Requeued, Of
<1>3. QED
  BY <1>1, <1>2, FiniteQueue, FS_AddElement

LEMMA CountTaken ==
    ASSUME QueueType, NEW T, NEW N, Requeued(T, N), NEW kind,
           NEW i \in DOMAIN events, T = {i}, events[i].kind = kind,
           \A n \in N : events'[n].kind # kind
    PROVE  /\ Of(kind)' = Of(kind) \ {i}
           /\ Cardinality(Of(kind)') = Cardinality(Of(kind)) - 1
           /\ Cardinality(Of(kind)') \in Nat
<1>1. Of(kind)' = Of(kind) \ {i}
  BY DEF QueueType, Requeued, Of
<1>2. i \in Of(kind)
  BY DEF Of
<1>3. /\ IsFiniteSet(Of(kind) \ {i})
      /\ Cardinality(Of(kind) \ {i}) = Cardinality(Of(kind)) - 1
  BY <1>2, FiniteQueue, FS_RemoveElement
<1>4. QED
  BY <1>1, <1>3, FS_CardinalityType

LEMMA NoneCounted ==
    ASSUME QueueType, NEW kind, Cardinality(Of(kind)) = 0
    PROVE  Of(kind) = {}
  BY FiniteQueue, FS_EmptySet

\* Pushing the event of a new geometry behind all others.
LEMMA LatestPushed ==
    ASSUME QueueType, NEW T, NEW N, Requeued(T, N), NEW m \in N,
           \A n \in N : n <= m \/ events'[n].kind # "window",
           events'[m].kind = "window", events'[m].geometry = geometry'
    PROVE  LatestIsQueued'
<1> SUFFICES ASSUME NEW k \in DOMAIN events', events'[k].kind = "window",
                    events'[k].geometry # geometry'
             PROVE  \E j \in DOMAIN events' :
                       /\ k < j
                       /\ events'[j].kind = "window"
                       /\ events'[j].geometry = geometry'
  BY DEF LatestIsQueued
<1>1. m \in DOMAIN events' /\ k # m /\ m \in Nat /\ place <= m
  BY DEF Requeued
<1>2. k < m
  BY <1>1 DEF Requeued, QueueType
<1>3. QED
  BY <1>1, <1>2

\* Taking the event at the head, or one that is no window event, and pushing
\* none, while the geometry stays.
LEMMA LatestKept ==
    ASSUME QueueType, LatestIsQueued, NEW T, NEW N, Requeued(T, N),
           \A i \in T : \/ events[i].kind # "window"
                        \/ \A j \in DOMAIN events : i <= j,
           \A n \in N : events'[n].kind # "window", geometry' = geometry
    PROVE  LatestIsQueued'
<1> SUFFICES ASSUME NEW k \in DOMAIN events', events'[k].kind = "window",
                    events'[k].geometry # geometry
             PROVE  \E j \in DOMAIN events' :
                       /\ k < j
                       /\ events'[j].kind = "window"
                       /\ events'[j].geometry = geometry
  BY DEF LatestIsQueued
<1>1. k \in DOMAIN events /\ k \notin T /\ events'[k] = events[k]
  BY DEF Requeued
<1>2. PICK j \in DOMAIN events : /\ k < j
                                 /\ events[j].kind = "window"
                                 /\ events[j].geometry = geometry
  BY <1>1 DEF LatestIsQueued
<1>3. ~(j <= k)
  BY <1>1, <1>2 DEF QueueType
<1>4. j \notin T
  BY <1>1, <1>2, <1>3
<1>5. j \in DOMAIN events' /\ events'[j] = events[j]
  BY <1>2, <1>4 DEF Requeued
<1>6. QED
  BY <1>2, <1>5

\* A window event that waits for no barrier goes on waiting for none.
LEMMA AfterKept ==
    ASSUME QueueType, NEW T, NEW N, Requeued(T, N),
           \A n \in N : events'[n].kind # "barrier",
           NEW j \in DOMAIN events \ T, AfterBarriers(j)
    PROVE  j \in DOMAIN events' /\ AfterBarriers(j)' /\ events'[j] = events[j]
  BY DEF QueueType, Requeued, AfterBarriers

LEMMA AfterPushed ==
    ASSUME QueueType, NEW T, NEW N, Requeued(T, N),
           \A n \in N : events'[n].kind # "barrier",
           NEW m \in N, events'[m].kind = "window"
    PROVE  m \in DOMAIN events' /\ AfterBarriers(m)'
<1>1. m \in DOMAIN events' /\ m \in Nat /\ place <= m
  BY DEF Requeued
<1>2. ASSUME NEW j \in DOMAIN events', events'[j].kind = "barrier"
      PROVE  j < m
  BY <1>1, <1>2 DEF QueueType, Requeued
<1>3. QED
  BY <1>1, <1>2 DEF AfterBarriers

\* What a decoder, or the lack of one, waits for stays queued.
LEMMA WaitingKept ==
    ASSUME QueueType, RecreationPending, RendererLearnsGeometry,
           NEW T, NEW N, Requeued(T, N),
           \A i \in T : events[i].kind # "reset" /\ ~AfterBarriers(i),
           \A n \in N : events'[n].kind # "barrier",
           UNCHANGED <<main, decoder, geometry>>
    PROVE  RecreationPending' /\ RendererLearnsGeometry'
<1>1. ASSUME main = "idle", decoder = NoDecoder
      PROVE  \E i \in DOMAIN events' :
                events'[i].kind = "reset" \/ AfterBarriers(i)'
  <2>1. PICK i \in DOMAIN events : events[i].kind = "reset" \/ AfterBarriers(i)
    BY <1>1 DEF RecreationPending
  <2>2. i \notin T
    BY <2>1
  <2>3. i \in DOMAIN events' /\ events'[i] = events[i]
    BY <2>2 DEF Requeued
  <2>4. AfterBarriers(i) => AfterBarriers(i)'
    BY <2>2, AfterKept
  <2>5. QED
    BY <2>1, <2>3, <2>4
<1>2. ASSUME decoder # NoDecoder, decoder.geometry # geometry
      PROVE  \E i \in DOMAIN events' :
                AfterBarriers(i)' /\ events'[i].geometry = geometry
  <2>1. PICK i \in DOMAIN events :
                AfterBarriers(i) /\ events[i].geometry = geometry
    BY <1>2 DEF RendererLearnsGeometry
  <2>2. i \notin T
    BY <2>1
  <2>3. QED
    BY <2>1, <2>2, AfterKept
<1>3. QED
  BY <1>1, <1>2 DEF RecreationPending, RendererLearnsGeometry

\* The event of a new geometry, pushed with no barrier, is what they wait for.
LEMMA WaitingPushed ==
    ASSUME QueueType, NEW T, NEW N, Requeued(T, N),
           \A n \in N : events'[n].kind # "barrier",
           NEW m \in N, events'[m].kind = "window",
           events'[m].geometry = geometry'
    PROVE  RecreationPending' /\ RendererLearnsGeometry'
<1>1. m \in DOMAIN events' /\ AfterBarriers(m)'
  BY AfterPushed
<1>2. QED
  BY <1>1 DEF RecreationPending, RendererLearnsGeometry

LEMMA ResetsKept ==
    ASSUME QueueType, ResetIsForThisDecoder, NEW T, NEW N, Requeued(T, N),
           \A n \in N : events'[n].kind = "reset"
                           => events'[n].serial = decoder'.serial,
           decoder' # NoDecoder
              => decoder # NoDecoder /\ decoder'.serial = decoder.serial
    PROVE  ResetIsForThisDecoder'
  BY DEF Requeued, ResetIsForThisDecoder

LEMMA TypeParts ==
    RecreationTypeOK
        <=> /\ QueueType
            /\ flushRef \in Nat
            /\ decoder \in Decoder \cup {NoDecoder}
            /\ serial \in Nat
            /\ geometry \in 1..MaxGeometry
            /\ main \in {"idle", "choosing", "chosen", "hdrRead", "ended"}
            /\ readHdr \in BOOLEAN /\ hostHdr \in BOOLEAN
            /\ callback \in {NoCallback, <<TRUE>>, <<FALSE>>}
            /\ hdrMissed \in BOOLEAN
            /\ resets \in 0..MaxResets
            /\ toggles \in 0..MaxToggles
            /\ hdrChanges \in 0..MaxHdrChanges
  BY DEF RecreationTypeOK, QueueType

LEMMA TypeKept ==
    ASSUME RecreationTypeOK,
           QueueType',
           flushRef' \in Nat,
           decoder' \in Decoder \cup {NoDecoder},
           geometry' \in 1..MaxGeometry,
           main' \in {"idle", "choosing", "chosen", "hdrRead", "ended"},
           resets' \in 0..MaxResets,
           toggles' \in 0..MaxToggles,
           serial' \in Nat,
           UNCHANGED hdrVars
    PROVE  RecreationTypeOK'
  BY DEF RecreationTypeOK, QueueType, hdrVars

LEMMA Bounds ==
    /\ MaxGeometry \in Nat \ {0} /\ MaxToggles \in Nat /\ MaxResets \in Nat
    /\ MaxHdrChanges \in Nat
    /\ MaxResized \in Nat \ {0} /\ MaxResized + MaxToggles = MaxGeometry
  BY RecreationAssumption DEF MaxResized

LEMMA RecreationStarts == RecreationInit => RecreationInv
<1> SUFFICES ASSUME RecreationInit PROVE RecreationInv
  OBVIOUS
<1> USE Bounds DEF RecreationInit
<1>1. QueueType /\ DOMAIN events = {1} /\ events[1] = WindowEvent(1)
  <2>1. WindowEvent(1) \in Event
    BY EventTypes
  <2>2. QED
    BY <2>1 DEF QueueType
<1>2. events[1].kind = "window" /\ events[1].geometry = 1
  BY <1>1, EventTypes
<1>3. RecreationTypeOK
  <2>1. decoder \in Decoder \cup {NoDecoder}
    OBVIOUS
  <2>2. callback \in {NoCallback, <<TRUE>>, <<FALSE>>}
    OBVIOUS
  <2>3. geometry \in 1..MaxGeometry /\ resets \in 0..MaxResets
        /\ toggles \in 0..MaxToggles /\ hdrChanges \in 0..MaxHdrChanges
    OBVIOUS
  <2>4. QED
    BY <1>1, <2>1, <2>2, <2>3, TypeParts
<1>4. Of("barrier") = {} /\ Of("toggle") = {}
  BY <1>1, <1>2 DEF Of
<1>5. LatestIsQueued
  BY <1>1, <1>2 DEF LatestIsQueued
<1>6. ToggleBudget
  BY <1>4, FS_EmptySet DEF ToggleBudget
<1>7. NoneWhileChoosing /\ HdrUnderWay /\ HdrModeSettles
  BY DEF NoneWhileChoosing, HdrUnderWay, HdrModeSettles
<1>8. FlushRefCountsBarriers
  BY <1>4, FS_EmptySet DEF FlushRefCountsBarriers, Of
<1>9. RecreationPending /\ RendererLearnsGeometry /\ ResetIsForThisDecoder
  BY <1>1, <1>2
  DEF RecreationPending, RendererLearnsGeometry, ResetIsForThisDecoder,
      AfterBarriers
<1>10. QED
  BY <1>3, <1>5, <1>6, <1>7, <1>8, <1>9
  DEF RecreationInv, WindowChangesReachDecoder

\* The facts every step of the recreation starts from.
LEMMA InvParts ==
    ASSUME RecreationInv
    PROVE  /\ RecreationTypeOK /\ QueueType
           /\ flushRef = Cardinality(Of("barrier"))
           /\ RecreationPending /\ RendererLearnsGeometry
           /\ geometry \in 1..MaxGeometry /\ toggles \in 0..MaxToggles
           /\ decoder \in Decoder \cup {NoDecoder}
           /\ Cardinality(Of("toggle")) \in Nat
  BY TypeParts, FiniteQueue
  DEF RecreationInv, WindowChangesReachDecoder, FlushRefCountsBarriers, Of

LEMMA ResizeStep ==
    ASSUME RecreationInv, Resize
    PROVE  RecreationInv'
<1> DEFINE e == WindowEvent(geometry + 1)
<1>1. /\ geometry' = geometry + 1 /\ geometry' \in 1..MaxGeometry
      /\ geometry + 1 <= MaxResized
  BY InvParts, Bounds DEF Resize
<1>2. e \in Event /\ e.kind = "window" /\ e.geometry = geometry'
  BY <1>1, EventTypes
<1>3. Requeued({}, {place}) /\ events'[place] = e
  BY <1>2, InvParts, PushRequeues DEF Resize
<1>4. RecreationTypeOK'
  <2>1. QueueType'
    BY <1>3, InvParts, RequeuedType
  <2>2. QED
    BY <1>1, <2>1, InvParts, TypeParts, TypeKept DEF Resize
<1>5. LatestIsQueued' /\ RecreationPending' /\ RendererLearnsGeometry'
  BY <1>2, <1>3, InvParts, LatestPushed, WaitingPushed DEF QueueType
<1>6. Of("barrier")' = Of("barrier") /\ Of("toggle")' = Of("toggle")
  BY <1>2, <1>3, InvParts, CountKept
<1>7. FlushRefCountsBarriers'
  BY <1>6, InvParts DEF FlushRefCountsBarriers, Of, Resize
<1>8. ToggleBudget'
  BY <1>1, <1>6, InvParts, Bounds DEF RecreationInv, ToggleBudget, Resize
<1>9. ResetIsForThisDecoder'
  BY <1>2, <1>3, InvParts, ResetsKept DEF RecreationInv, Resize
<1>10. NoneWhileChoosing' /\ HdrUnderWay' /\ HdrModeSettles'
  BY DEF RecreationInv, NoneWhileChoosing, HdrUnderWay, HdrModeSettles, Resize,
         hdrVars
<1>11. QED
  BY <1>4, <1>5, <1>7, <1>8, <1>9, <1>10
  DEF RecreationInv, WindowChangesReachDecoder

LEMMA PressToggleStep ==
    ASSUME RecreationInv, PressToggle
    PROVE  RecreationInv'
<1>1. ToggleKey \in Event /\ ToggleKey.kind = "toggle"
  BY EventTypes
<1>2. Requeued({}, {place}) /\ events'[place] = ToggleKey
  BY <1>1, InvParts, PushRequeues DEF PressToggle
<1>3. toggles' = toggles + 1 /\ toggles' \in 0..MaxToggles
  BY InvParts, Bounds DEF PressToggle
<1>4. RecreationTypeOK'
  <2>1. QueueType'
    BY <1>2, InvParts, RequeuedType
  <2>2. QED
    BY <1>3, <2>1, InvParts, TypeParts, TypeKept DEF PressToggle
<1>5. LatestIsQueued'
  BY <1>1, <1>2, InvParts, LatestKept DEF RecreationInv, PressToggle
<1>6. RecreationPending' /\ RendererLearnsGeometry'
  BY <1>1, <1>2, InvParts, WaitingKept DEF PressToggle
<1>7. Of("barrier")' = Of("barrier")
  BY <1>1, <1>2, InvParts, CountKept
<1>8. Cardinality(Of("toggle")') = Cardinality(Of("toggle")) + 1
  BY <1>1, <1>2, InvParts, CountPushed
<1>9. FlushRefCountsBarriers'
  BY <1>7, InvParts DEF FlushRefCountsBarriers, Of, PressToggle
<1>10. ToggleBudget'
  BY <1>3, <1>8, InvParts, Bounds DEF RecreationInv, ToggleBudget, PressToggle
<1>11. ResetIsForThisDecoder'
  BY <1>1, <1>2, InvParts, ResetsKept DEF RecreationInv, PressToggle
<1>12. NoneWhileChoosing' /\ HdrUnderWay' /\ HdrModeSettles'
  BY DEF RecreationInv, NoneWhileChoosing, HdrUnderWay, HdrModeSettles,
         PressToggle, hdrVars
<1>13. QED
  BY <1>4, <1>5, <1>6, <1>9, <1>10, <1>11, <1>12
  DEF RecreationInv, WindowChangesReachDecoder

LEMMA RequestResetStep ==
    ASSUME RecreationInv, RequestReset
    PROVE  RecreationInv'
<1> DEFINE e == ResetEvent(decoder.serial)
<1>1. e \in Event /\ e.kind = "reset" /\ e.serial = decoder.serial
  BY InvParts, EventTypes DEF RequestReset, Decoder
<1>2. Requeued({}, {place}) /\ events'[place] = e
  BY <1>1, InvParts, PushRequeues DEF RequestReset
<1>3. RecreationTypeOK'
  <2>1. QueueType'
    BY <1>2, InvParts, RequeuedType
  <2>2. resets' \in 0..MaxResets
    BY InvParts, TypeParts, Bounds DEF RequestReset
  <2>3. QED
    BY <2>1, <2>2, InvParts, TypeParts, TypeKept DEF RequestReset
<1>4. LatestIsQueued'
  BY <1>1, <1>2, InvParts, LatestKept DEF RecreationInv, RequestReset
<1>5. RecreationPending' /\ RendererLearnsGeometry'
  BY <1>1, <1>2, InvParts, WaitingKept DEF RequestReset
<1>6. Of("barrier")' = Of("barrier") /\ Of("toggle")' = Of("toggle")
  BY <1>1, <1>2, InvParts, CountKept
<1>7. FlushRefCountsBarriers' /\ ToggleBudget'
  BY <1>6, InvParts
  DEF FlushRefCountsBarriers, Of, RecreationInv, ToggleBudget, RequestReset
<1>8. ResetIsForThisDecoder'
  BY <1>1, <1>2, InvParts, ResetsKept DEF RecreationInv, RequestReset
<1>9. NoneWhileChoosing' /\ HdrUnderWay' /\ HdrModeSettles'
  BY DEF RecreationInv, NoneWhileChoosing, HdrUnderWay, HdrModeSettles,
         RequestReset, hdrVars
<1>10. QED
  BY <1>3, <1>4, <1>5, <1>7, <1>8, <1>9
  DEF RecreationInv, WindowChangesReachDecoder

LEMMA HandleBarrierStep ==
    ASSUME RecreationInv, HandleBarrier
    PROVE  RecreationInv'
<1>1. PICK i \in DOMAIN events : Taken(i, "barrier")
  BY DEF HandleBarrier
<1>2. Requeued({i}, {}) /\ events[i].kind = "barrier"
  BY <1>1, InvParts, TakeRequeues DEF Taken, IsNext
<1>3. /\ Cardinality(Of("barrier")') = Cardinality(Of("barrier")) - 1
      /\ Cardinality(Of("barrier")') \in Nat
  <2>1. QueueType
    BY InvParts
  <2>2. \A n \in {} : events'[n].kind # "barrier"
    OBVIOUS
  <2>3. QED
    BY <1>1, <1>2, <2>1, <2>2, CountTaken
<1>4. FlushRefCountsBarriers'
  BY <1>3, InvParts DEF FlushRefCountsBarriers, Of, HandleBarrier
<1>5. RecreationTypeOK'
  <2>1. QueueType'
    BY <1>2, InvParts, RequeuedType
  <2>2. flushRef' \in Nat
    BY <1>3, InvParts DEF HandleBarrier
  <2>3. QED
    BY <2>1, <2>2, InvParts, TypeParts, TypeKept DEF HandleBarrier
<1>6. LatestIsQueued'
  BY <1>2, InvParts, LatestKept DEF RecreationInv, HandleBarrier
<1>7. RecreationPending' /\ RendererLearnsGeometry'
  <2>1. events[i].kind # "reset" /\ ~AfterBarriers(i)
    BY <1>2 DEF AfterBarriers
  <2>2. QED
    BY <1>2, <2>1, InvParts, WaitingKept DEF HandleBarrier
<1>8. ToggleBudget'
  <2>1. Of("toggle")' = Of("toggle")
    BY <1>2, InvParts, CountKept
  <2>2. QED
    BY <2>1, InvParts DEF RecreationInv, ToggleBudget, HandleBarrier
<1>9. ResetIsForThisDecoder'
  BY <1>2, InvParts, ResetsKept DEF RecreationInv, HandleBarrier
<1>10. NoneWhileChoosing' /\ HdrUnderWay' /\ HdrModeSettles'
  BY <1>1 DEF RecreationInv, NoneWhileChoosing, HdrUnderWay, HdrModeSettles,
              HandleBarrier, Taken, IsNext, hdrVars
<1>11. QED
  BY <1>4, <1>5, <1>6, <1>7, <1>8, <1>9, <1>10
  DEF RecreationInv, WindowChangesReachDecoder

LEMMA HandleToggleStep ==
    ASSUME RecreationInv, HandleToggle
    PROVE  RecreationInv'
<1> DEFINE e == WindowEvent(geometry + 1)
<1>1. PICK i \in DOMAIN events : IsNext(i, "toggle") /\ Push(Without(i), e)
  BY DEF HandleToggle
<1>2. events[i].kind = "toggle" /\ main = "idle"
  BY <1>1 DEF IsNext
<1>3. Cardinality(Of("toggle")) >= 1
  <2>1. Of("toggle") # {}
    BY <1>2 DEF Of
  <2>2. Cardinality(Of("toggle")) # 0
    BY <2>1, InvParts, NoneCounted
  <2>3. QED
    BY <2>2, InvParts
<1>4. geometry' = geometry + 1 /\ geometry' \in 1..MaxGeometry
  BY <1>3, InvParts, Bounds DEF HandleToggle, RecreationInv, ToggleBudget
<1>5. e \in Event /\ e.kind = "window" /\ e.geometry = geometry'
  BY <1>4, EventTypes
<1>6. Requeued({i}, {place}) /\ events'[place] = e
  BY <1>1, <1>5, InvParts, ReplaceRequeues
<1>7. RecreationTypeOK'
  <2>1. QueueType'
    BY <1>6, InvParts, RequeuedType
  <2>2. decoder' \in Decoder \cup {NoDecoder}
    BY InvParts DEF HandleToggle
  <2>3. QED
    BY <1>4, <2>1, <2>2, InvParts, TypeParts, TypeKept DEF HandleToggle
<1>8. LatestIsQueued' /\ RecreationPending' /\ RendererLearnsGeometry'
  BY <1>5, <1>6, InvParts, LatestPushed, WaitingPushed DEF QueueType
<1>9. Of("barrier")' = Of("barrier")
  BY <1>2, <1>5, <1>6, InvParts, CountKept
<1>10. Cardinality(Of("toggle")') = Cardinality(Of("toggle")) - 1
  BY <1>2, <1>5, <1>6, InvParts, CountTaken
<1>11. FlushRefCountsBarriers'
  BY <1>9, InvParts DEF FlushRefCountsBarriers, Of, HandleToggle
<1>12. ToggleBudget'
  BY <1>4, <1>10, InvParts, Bounds
  DEF RecreationInv, ToggleBudget, HandleToggle
<1>13. ResetIsForThisDecoder'
  <2>1. decoder' # NoDecoder => decoder # NoDecoder /\ decoder' = decoder
    BY DEF HandleToggle
  <2>2. QED
    BY <1>5, <1>6, <2>1, InvParts, ResetsKept DEF RecreationInv
<1>14. NoneWhileChoosing' /\ HdrUnderWay' /\ HdrModeSettles'
  BY <1>2 DEF RecreationInv, NoneWhileChoosing, HdrUnderWay, HdrModeSettles,
              HandleToggle, hdrVars
<1>15. QED
  BY <1>7, <1>8, <1>11, <1>12, <1>13, <1>14
  DEF RecreationInv, WindowChangesReachDecoder

\* Nothing that is dropped in a flush is waited for: its barrier is behind it.
LEMMA DropWindowEventStep ==
    ASSUME RecreationInv, DropWindowEvent
    PROVE  RecreationInv'
<1>1. PICK i \in DOMAIN events : Taken(i, "window")
  BY DEF DropWindowEvent
<1>2. Requeued({i}, {}) /\ events[i].kind = "window" /\ main = "idle"
  BY <1>1, InvParts, TakeRequeues DEF Taken, IsNext
<1>3. \A j \in DOMAIN events : i <= j
  BY <1>1 DEF Taken, IsNext
<1>4. ~AfterBarriers(i)
  <2>1. Of("barrier") # {}
    BY InvParts, FS_EmptySet DEF DropWindowEvent
  <2>2. PICK j \in DOMAIN events : events[j].kind = "barrier"
    BY <2>1 DEF Of
  <2>3. i \in Nat /\ j \in Nat /\ i <= j
    BY <1>3, InvParts DEF QueueType
  <2>4. QED
    BY <2>2, <2>3 DEF AfterBarriers
<1>5. RecreationTypeOK'
  <2>1. QueueType'
    BY <1>2, InvParts, RequeuedType
  <2>2. QED
    BY <2>1, InvParts, TypeParts, TypeKept DEF DropWindowEvent
<1>6. LatestIsQueued'
  BY <1>2, <1>3, InvParts, LatestKept DEF RecreationInv, DropWindowEvent
<1>7. RecreationPending' /\ RendererLearnsGeometry'
  BY <1>2, <1>4, InvParts, WaitingKept DEF DropWindowEvent
<1>8. Of("barrier")' = Of("barrier") /\ Of("toggle")' = Of("toggle")
  BY <1>2, InvParts, CountKept
<1>9. FlushRefCountsBarriers' /\ ToggleBudget'
  BY <1>8, InvParts
  DEF FlushRefCountsBarriers, Of, RecreationInv, ToggleBudget, DropWindowEvent
<1>10. ResetIsForThisDecoder'
  BY <1>2, InvParts, ResetsKept DEF RecreationInv, DropWindowEvent
<1>11. NoneWhileChoosing' /\ HdrUnderWay' /\ HdrModeSettles'
  BY <1>2 DEF RecreationInv, NoneWhileChoosing, HdrUnderWay, HdrModeSettles,
              DropWindowEvent, hdrVars
<1>12. QED
  BY <1>5, <1>6, <1>7, <1>9, <1>10, <1>11
  DEF RecreationInv, WindowChangesReachDecoder

\* A decoder told of a geometry that is out of date hears of the latest later:
\* no barrier is queued that would drop it.
LEMMA NotifyWindowChangedStep ==
    ASSUME RecreationInv, NotifyWindowChanged
    PROVE  RecreationInv'
<1>1. PICK i \in DOMAIN events :
              /\ Taken(i, "window")
              /\ decoder' = [decoder EXCEPT !.geometry = events[i].geometry]
  BY DEF NotifyWindowChanged
<1>2. Requeued({i}, {}) /\ events[i].kind = "window" /\ main = "idle"
  BY <1>1, InvParts, TakeRequeues DEF Taken, IsNext
<1>3. \A j \in DOMAIN events : i <= j
  BY <1>1 DEF Taken, IsNext
<1>4. events[i].geometry \in 1..MaxGeometry
  <2>1. events[i] \in Event
    BY InvParts DEF QueueType
  <2>2. QED
    BY <1>2, <2>1, EventTypes
<1>5. decoder \in Decoder
  BY InvParts DEF NotifyWindowChanged
<1>6. /\ decoder' \in Decoder /\ decoder' # NoDecoder
      /\ decoder'.serial = decoder.serial /\ decoder'.hdr = decoder.hdr
      /\ decoder'.geometry = events[i].geometry
  BY <1>1, <1>4, <1>5 DEF Decoder, NoDecoder
<1>7. RecreationTypeOK'
  <2>1. QueueType'
    BY <1>2, InvParts, RequeuedType
  <2>2. QED
    BY <1>6, <2>1, InvParts, TypeParts, TypeKept DEF NotifyWindowChanged
<1>8. LatestIsQueued'
  BY <1>2, <1>3, InvParts, LatestKept DEF RecreationInv, NotifyWindowChanged
<1>9. Of("barrier")' = Of("barrier") /\ Of("toggle")' = Of("toggle")
  BY <1>2, InvParts, CountKept
<1>10. FlushRefCountsBarriers' /\ ToggleBudget'
  BY <1>9, InvParts
  DEF FlushRefCountsBarriers, Of, RecreationInv, ToggleBudget,
      NotifyWindowChanged
<1>11. RecreationPending'
  BY <1>6 DEF RecreationPending
<1>12. RendererLearnsGeometry'
  <2> SUFFICES ASSUME events[i].geometry # geometry
               PROVE  \E j \in DOMAIN events' :
                         AfterBarriers(j)' /\ events'[j].geometry = geometry
    BY <1>6 DEF RendererLearnsGeometry, NotifyWindowChanged
  <2>1. PICK j \in DOMAIN events :
                /\ i < j
                /\ events[j].kind = "window" /\ events[j].geometry = geometry
    BY <1>2 DEF RecreationInv, LatestIsQueued
  <2>2. i # j
    BY <2>1, InvParts DEF QueueType
  <2>3. Of("barrier") = {}
    BY InvParts, NoneCounted DEF NotifyWindowChanged
  <2>4. AfterBarriers(j)
    BY <2>1, <2>3 DEF AfterBarriers, Of
  <2>5. j \in DOMAIN events' /\ AfterBarriers(j)' /\ events'[j] = events[j]
    BY <1>2, <2>2, <2>4, InvParts, AfterKept
  <2>6. QED
    BY <2>1, <2>5
<1>13. ResetIsForThisDecoder'
  BY <1>2, <1>6, InvParts, ResetsKept DEF RecreationInv, NotifyWindowChanged
<1>14. NoneWhileChoosing' /\ HdrUnderWay' /\ HdrModeSettles'
  BY <1>2, <1>6
  DEF RecreationInv, NoneWhileChoosing, HdrUnderWay, HdrModeSettles,
      NotifyWindowChanged, hdrVars
<1>15. QED
  BY <1>7, <1>8, <1>10, <1>11, <1>12, <1>13, <1>14
  DEF RecreationInv, WindowChangesReachDecoder

\* What the flush leaves queued: no resets, and behind the other events the
\* barrier among the window changes that were found.
LEMMA FlushRequeues ==
    ASSUME QueueType, NEW i \in DOMAIN events,
           NEW before \in 0..1, NEW after \in 0..1,
           geometry \in 1..MaxGeometry,
           geometry + before + after \in 1..MaxGeometry,
           events' = Flushed(Without(i), before, after),
           place' = place + before + after + 1
    PROVE  LET T == {k \in DOMAIN events : k = i \/ events[k].kind = "reset"}
               N == place..(place + before + after)
           IN  /\ Requeued(T, N)
               /\ \A n \in N : events'[n] = IF n = place + before THEN Barrier
                                            ELSE Flush(before, after)[n]
               /\ \A n \in N : n # place + before
                                  => events'[n].kind = "window"
               /\ after = 1 \/ before = 1
                     => \E n \in N : /\ n # place + before
                                     /\ events'[n].geometry
                                           = geometry + before + after
                                     /\ \A m \in N : n < m
                                                => m = place + before
<1> DEFINE T == {k \in DOMAIN events : k = i \/ events[k].kind = "reset"}
           N == place..(place + before + after)
           F == Flush(before, after)
           all == Join(Without(i), F)
<1>1. place \in Nat \ {0} /\ DOMAIN events \subseteq 1..(place - 1)
  BY DEF QueueType
<1>2. DOMAIN F = N /\ N \cap DOMAIN events = {}
  BY <1>1 DEF Flush
<1>3. F[place + before] = Barrier
  BY <1>1 DEF Flush
<1>4. \A n \in N : n # place + before =>
          \E g \in 1..MaxGeometry : F[n] = WindowEvent(g)
  <2> SUFFICES ASSUME NEW n \in N, n # place + before
               PROVE  \E g \in 1..MaxGeometry : F[n] = WindowEvent(g)
    OBVIOUS
  <2> DEFINE g == geometry + n - place
                    + (IF n < place + before THEN 1 ELSE 0)
  <2>1. F[n] = WindowEvent(g)
    BY DEF Flush
  <2>2. CASE n < place + before
    <3>1. n = place /\ before = 1 /\ g = geometry + 1
      BY <1>1, <2>2
    <3>2. QED
      BY <2>1, <3>1, Bounds
  <2>3. CASE ~(n < place + before)
    <3>1. n = place + before + 1 /\ after = 1 /\ g = geometry + before + 1
      BY <1>1, <2>3
    <3>2. QED
      BY <2>1, <3>1, Bounds
  <2>4. QED
    BY <2>2, <2>3
<1>5. \A n \in N : F[n] \in Event /\ F[n].kind # "reset"
  BY <1>3, <1>4, EventTypes
<1>6. DOMAIN all = (DOMAIN events \ {i}) \cup N
  BY <1>2 DEF Join, Without, Restrict
<1>7. \A k \in DOMAIN events \ {i} : all[k] = events[k]
  BY <1>2, <1>6 DEF Join, Without, Restrict
<1>8. \A n \in N : all[n] = F[n]
  BY <1>2, <1>6 DEF Join, Without, Restrict
<1>9. events' = [k \in {j \in DOMAIN all : all[j].kind # "reset"} |-> all[k]]
  BY DEF Flushed, Restrict
<1> HIDE DEF F, all
<1>10. DOMAIN events' = (DOMAIN events \ T) \cup N
  BY <1>5, <1>6, <1>7, <1>8, <1>9
<1>11. \A k \in DOMAIN events \ T : events'[k] = events[k]
  BY <1>6, <1>7, <1>9
<1>12. \A n \in N : events'[n] = F[n]
  BY <1>5, <1>6, <1>8, <1>9
<1>13. events' \in [DOMAIN events' -> Event]
  <2>1. \A k \in DOMAIN events' : events'[k] \in Event
    BY <1>5, <1>10, <1>11, <1>12 DEF QueueType
  <2>2. QED
    BY <1>9, <2>1
<1>14. Requeued(T, N)
  BY <1>1, <1>10, <1>11, <1>13 DEF Requeued
<1>15. \A n \in N : n # place + before => events'[n].kind = "window"
  BY <1>4, <1>12, EventTypes
<1>16. ASSUME after = 1 \/ before = 1
       PROVE  \E n \in N : /\ n # place + before
                           /\ events'[n].geometry = geometry + before + after
                           /\ \A m \in N : n < m => m = place + before
  <2> DEFINE l == IF after = 1 THEN place + before + after ELSE place
  <2>1. l \in N /\ l # place + before
    BY <1>1, <1>16
  <2>2. \A m \in N : l < m => m = place + before
    BY <1>1, <1>16
  <2>3. F[l] = WindowEvent(geometry + before + after)
    BY <1>1, <1>16, <2>1 DEF F, Flush
  <2>4. F[l].geometry = geometry + before + after
    BY <2>3, EventTypes
  <2>5. QED
    BY <1>12, <2>1, <2>2, <2>4
<1>17. \A n \in N : events'[n] = IF n = place + before THEN Barrier ELSE F[n]
  BY <1>3, <1>12
<1>18. QED
  BY <1>14, <1>15, <1>16, <1>17 DEF F

LEMMA BeginRecreationStep ==
    ASSUME RecreationInv, BeginRecreation
    PROVE  RecreationInv'
<1>1. PICK i \in DOMAIN events, before \in 0..1, after \in 0..1 :
              /\ IsNext(i, "reset") \/ (IsNext(i, "window") /\ flushRef = 0)
              /\ before + after > 0 => geometry + before + after <= MaxResized
              /\ geometry' = geometry + before + after
              /\ events' = Flushed(Without(i), before, after)
              /\ place' = place + before + after + 1
  BY DEF BeginRecreation
<1> DEFINE T == {k \in DOMAIN events : k = i \/ events[k].kind = "reset"}
           N == place..(place + before + after)
           b == place + before
<1>2. /\ main = "idle" /\ events[i].kind \in {"reset", "window"}
      /\ \A j \in DOMAIN events : i <= j
  BY <1>1 DEF IsNext
<1>3. geometry' \in 1..MaxGeometry /\ before + after \in {0, 1, 2}
  BY <1>1, InvParts, Bounds
<1>4. /\ Requeued(T, N)
      /\ \A n \in N : events'[n] = IF n = b THEN Barrier
                                   ELSE Flush(before, after)[n]
      /\ \A n \in N : n # b => events'[n].kind = "window"
      /\ after = 1 \/ before = 1
            => \E n \in N : /\ n # b
                            /\ events'[n].geometry = geometry'
                            /\ \A m \in N : n < m => m = b
  BY <1>1, <1>3, InvParts, FlushRequeues
<1>5. /\ b \in N /\ N \subseteq Nat
      /\ events'[b].kind = "barrier"
  <2>1. b \in N /\ N \subseteq Nat
    BY InvParts DEF QueueType
  <2>2. QED
    BY <1>4, <2>1, EventTypes
<1> HIDE DEF T, N, b
<1>6. /\ \A k \in T : events[k].kind # "barrier" /\ events[k].kind # "toggle"
      /\ \A k \in T : k = i \/ events[k].kind # "window"
  BY <1>2 DEF T
<1>7. \A k \in DOMAIN events \ T : events[k].kind # "reset"
  BY DEF T
<1>8. RecreationTypeOK'
  <2>1. QueueType'
    BY <1>4, InvParts, RequeuedType
  <2>2. QED
    BY <1>3, <2>1, InvParts, TypeParts, TypeKept DEF BeginRecreation
<1>9. LatestIsQueued'
  <2>1. CASE before = 0 /\ after = 0
    <3>1. geometry' = geometry /\ \A n \in N : n = b
      BY <1>1, <2>1, InvParts DEF N, b, QueueType
    <3>2. \A n \in N : events'[n].kind # "window"
      BY <1>5, <3>1
    <3>3. \A k \in T : \/ events[k].kind # "window"
                       \/ \A j \in DOMAIN events : k <= j
      BY <1>2, <1>6
    <3>4. QED
      BY <1>4, <3>1, <3>2, <3>3, InvParts, LatestKept DEF RecreationInv
  <2>2. CASE after = 1 \/ before = 1
    <3>1. PICK n \in N : /\ n # b
                         /\ events'[n].geometry = geometry'
                         /\ \A m \in N : n < m => m = b
      BY <1>4, <2>2
    <3>2. events'[n].kind = "window"
      BY <1>4, <3>1
    <3>3. \A m \in N : m <= n \/ events'[m].kind # "window"
      BY <1>5, <3>1
    <3>4. QED
      BY <1>4, <3>1, <3>2, <3>3, InvParts, LatestPushed
  <2>3. QED
    BY <2>1, <2>2
<1>10. Cardinality(Of("barrier")') = Cardinality(Of("barrier")) + 1
  <2>1. /\ \A n \in N \ {b} : events'[n].kind # "barrier"
        /\ \A k \in T : events[k].kind # "barrier"
        /\ b \in N /\ events'[b].kind = "barrier"
        /\ Requeued(T, N) /\ QueueType
    BY <1>4, <1>5, <1>6, InvParts
  <2>2. QED
    BY <2>1, CountPushed
<1>11. Of("toggle")' = Of("toggle")
  <2>1. \A n \in N : events'[n].kind # "toggle"
    BY <1>4, <1>5
  <2>2. QED
    BY <1>4, <1>6, <2>1, InvParts, CountKept
<1>12. FlushRefCountsBarriers'
  BY <1>10, InvParts DEF FlushRefCountsBarriers, Of, BeginRecreation
<1>13. ToggleBudget'
  BY <1>1, <1>3, <1>11, InvParts, Bounds
  DEF RecreationInv, ToggleBudget, BeginRecreation
<1>14. main' = "choosing" /\ decoder' = NoDecoder
  BY DEF BeginRecreation
<1>15. NoneWhileChoosing'
  <2>1. \A k \in DOMAIN events' : events'[k].kind # "reset"
    BY <1>4, <1>5, <1>7 DEF Requeued
  <2>2. QED
    BY <1>14, <2>1 DEF NoneWhileChoosing
<1>16. HdrUnderWay' /\ HdrModeSettles'
  BY <1>14 DEF RecreationInv, HdrUnderWay, HdrModeSettles, BeginRecreation,
               hdrVars
<1>17. /\ RecreationPending' /\ RendererLearnsGeometry'
       /\ ResetIsForThisDecoder'
  BY <1>14 DEF RecreationPending, RendererLearnsGeometry, ResetIsForThisDecoder
<1>18. QED
  BY <1>8, <1>9, <1>12, <1>13, <1>15, <1>16, <1>17
  DEF RecreationInv, WindowChangesReachDecoder

\* The steps that leave the queue alone.
LEMMA QuietQueue ==
    ASSUME RecreationInv, UNCHANGED <<events, place, flushRef, geometry, toggles>>
    PROVE  /\ QueueType' /\ LatestIsQueued' /\ ToggleBudget'
           /\ FlushRefCountsBarriers'
<1>1. QueueType'
  BY InvParts DEF QueueType
<1>2. LatestIsQueued'
  BY DEF RecreationInv, LatestIsQueued
<1>3. ToggleBudget'
  BY DEF RecreationInv, ToggleBudget, Of
<1>4. FlushRefCountsBarriers'
  BY InvParts DEF FlushRefCountsBarriers, Of
<1>5. QED
  BY <1>1, <1>2, <1>3, <1>4

\* The decoder goes on with its geometry, and so does what it waits for.
LEMMA QuietDecoder ==
    ASSUME RecreationInv, UNCHANGED <<events, geometry>>,
           decoder # NoDecoder <=> decoder' # NoDecoder,
           decoder'.geometry = decoder.geometry,
           decoder'.serial = decoder.serial,
           main' = "idle" => \/ main = "idle"
                             \/ decoder # NoDecoder
    PROVE  RecreationPending' /\ RendererLearnsGeometry' /\ ResetIsForThisDecoder'
<1>1. /\ RecreationPending /\ RendererLearnsGeometry /\ ResetIsForThisDecoder
      /\ \A i : AfterBarriers(i)' <=> AfterBarriers(i)
  BY InvParts DEF RecreationInv, AfterBarriers
<1>2. RecreationPending'
  BY <1>1 DEF RecreationPending
<1>3. RendererLearnsGeometry'
  BY <1>1 DEF RendererLearnsGeometry
<1>4. ResetIsForThisDecoder'
  BY <1>1 DEF ResetIsForThisDecoder
<1>5. QED
  BY <1>2, <1>3, <1>4

LEMMA ChooseDecoderStep ==
    ASSUME RecreationInv, ChooseDecoder
    PROVE  RecreationInv'
<1> USE DEF ChooseDecoder
<1>1. QueueType' /\ LatestIsQueued' /\ ToggleBudget' /\ FlushRefCountsBarriers'
  BY QuietQueue
<1>2. /\ decoder' \in Decoder /\ decoder' # NoDecoder
      /\ decoder'.geometry = geometry
      /\ serial' \in Nat
  BY InvParts, TypeParts DEF Decoder, NoDecoder
<1>3. RecreationTypeOK'
  BY <1>1, <1>2, InvParts, TypeParts, TypeKept
<1>4. /\ RecreationPending' /\ RendererLearnsGeometry'
      /\ ResetIsForThisDecoder'
  BY <1>2 DEF RecreationInv, NoneWhileChoosing, RecreationPending,
              RendererLearnsGeometry, ResetIsForThisDecoder
<1>5. NoneWhileChoosing' /\ HdrUnderWay' /\ HdrModeSettles'
  BY <1>2 DEF RecreationInv, NoneWhileChoosing, HdrUnderWay, HdrModeSettles,
              hdrVars
<1>6. QED
  BY <1>1, <1>3, <1>4, <1>5 DEF RecreationInv, WindowChangesReachDecoder

LEMMA EndRecreationStep ==
    ASSUME RecreationInv, EndRecreation
    PROVE  RecreationInv'
<1> USE DEF EndRecreation
<1>1. QueueType' /\ LatestIsQueued' /\ ToggleBudget' /\ FlushRefCountsBarriers'
  BY QuietQueue
<1>2. decoder \in Decoder
  BY InvParts DEF RecreationInv, NoneWhileChoosing
<1>3. /\ decoder' \in Decoder /\ decoder' # NoDecoder /\ decoder # NoDecoder
      /\ decoder'.geometry = decoder.geometry
      /\ decoder'.serial = decoder.serial
      /\ decoder'.hdr = readHdr
  BY <1>2, InvParts, TypeParts DEF Decoder, NoDecoder
<1>4. RecreationTypeOK'
  BY <1>1, <1>3, InvParts, TypeParts, TypeKept
<1>5. /\ RecreationPending' /\ RendererLearnsGeometry'
      /\ ResetIsForThisDecoder'
  BY <1>3, QuietDecoder
<1>6. NoneWhileChoosing' /\ HdrUnderWay' /\ HdrModeSettles'
  BY <1>3 DEF RecreationInv, NoneWhileChoosing, HdrUnderWay, HdrModeSettles,
              hdrVars
<1>7. QED
  BY <1>1, <1>4, <1>5, <1>6 DEF RecreationInv, WindowChangesReachDecoder

LEMMA ClSetHdrModeStep ==
    ASSUME RecreationInv, ClSetHdrMode
    PROVE  RecreationInv'
<1> USE DEF ClSetHdrMode
<1>1. QueueType' /\ LatestIsQueued' /\ ToggleBudget' /\ FlushRefCountsBarriers'
  BY QuietQueue
<1>2. callback[1] = hostHdr /\ hostHdr \in BOOLEAN
  BY InvParts, TypeParts DEF RecreationInv, HdrUnderWay
<1>3. /\ decoder' \in Decoder \cup {NoDecoder}
      /\ decoder # NoDecoder <=> decoder' # NoDecoder
      /\ decoder'.geometry = decoder.geometry
      /\ decoder'.serial = decoder.serial
      /\ main = "idle" /\ decoder # NoDecoder => decoder'.hdr = hostHdr
  <2>1. CASE LockFree /\ decoder # NoDecoder
    BY <1>2, <2>1, InvParts DEF Decoder, NoDecoder
  <2>2. CASE ~(LockFree /\ decoder # NoDecoder)
    BY <2>2, InvParts DEF LockFree
  <2>3. QED
    BY <2>1, <2>2
<1>4. RecreationTypeOK'
  <2>1. callback' \in {NoCallback, <<TRUE>>, <<FALSE>>} /\ hdrMissed' \in BOOLEAN
    BY InvParts, TypeParts
  <2>2. QED
    BY <1>1, <1>3, <2>1, InvParts, TypeParts DEF RecreationTypeOK, QueueType
<1>5. /\ RecreationPending' /\ RendererLearnsGeometry'
      /\ ResetIsForThisDecoder'
  BY <1>3, QuietDecoder
<1>6. NoneWhileChoosing' /\ HdrUnderWay' /\ HdrModeSettles'
  BY <1>3 DEF RecreationInv, NoneWhileChoosing, HdrUnderWay, HdrModeSettles
<1>7. QED
  BY <1>1, <1>4, <1>5, <1>6 DEF RecreationInv, WindowChangesReachDecoder

LEMMA OtherRecreationSteps ==
    ASSUME RecreationInv,
           \/ ChooseFails
           \/ ReadHostHdr
           \/ HostChangesHdr
           \/ UNCHANGED recreationVars
    PROVE  RecreationInv'
<1>1. /\ UNCHANGED <<events, place, flushRef, geometry, toggles, decoder,
                     serial, resets>>
      /\ main' = "idle" => main = "idle"
  BY DEF ChooseFails, ReadHostHdr, HostChangesHdr, recreationVars
<1>2. QueueType' /\ LatestIsQueued' /\ ToggleBudget' /\ FlushRefCountsBarriers'
  BY <1>1, QuietQueue
<1>3. RecreationPending' /\ RendererLearnsGeometry' /\ ResetIsForThisDecoder'
  BY <1>1, QuietDecoder
<1>4. CASE ChooseFails
  <2>1. RecreationTypeOK'
    BY <1>1, <1>2, <1>4, InvParts, TypeParts, TypeKept DEF ChooseFails
  <2>2. NoneWhileChoosing' /\ HdrUnderWay' /\ HdrModeSettles'
    BY <1>4 DEF RecreationInv, NoneWhileChoosing, HdrUnderWay, HdrModeSettles,
                ChooseFails, hdrVars
  <2>3. QED
    BY <1>2, <1>3, <2>1, <2>2 DEF RecreationInv, WindowChangesReachDecoder
<1>5. CASE ReadHostHdr
  <2>1. RecreationTypeOK'
    BY <1>1, <1>5, InvParts, TypeParts
    DEF ReadHostHdr, RecreationTypeOK, QueueType
  <2>2. NoneWhileChoosing' /\ HdrUnderWay' /\ HdrModeSettles'
    BY <1>5 DEF RecreationInv, NoneWhileChoosing, HdrUnderWay, HdrModeSettles,
                ReadHostHdr
  <2>3. QED
    BY <1>2, <1>3, <2>1, <2>2 DEF RecreationInv, WindowChangesReachDecoder
<1>6. CASE HostChangesHdr
  <2>1. /\ hostHdr' \in BOOLEAN /\ callback' \in {<<TRUE>>, <<FALSE>>}
        /\ callback'[1] = hostHdr'
        /\ hdrChanges' \in 0..MaxHdrChanges
    <3>1. hdrChanges' \in 0..MaxHdrChanges
      BY <1>6, InvParts, TypeParts, Bounds DEF HostChangesHdr
    <3>2. hostHdr \in BOOLEAN
      BY InvParts, TypeParts
    <3>3. CASE hostHdr = TRUE
      BY <1>6, <3>1, <3>3 DEF HostChangesHdr
    <3>4. CASE hostHdr = FALSE
      BY <1>6, <3>1, <3>4 DEF HostChangesHdr
    <3>5. QED
      BY <3>2, <3>3, <3>4
  <2>2. RecreationTypeOK'
    BY <1>1, <1>6, <2>1, InvParts, TypeParts
    DEF HostChangesHdr, RecreationTypeOK, QueueType
  <2>3. NoneWhileChoosing' /\ HdrUnderWay' /\ HdrModeSettles'
    BY <1>6, <2>1
    DEF RecreationInv, NoneWhileChoosing, HdrUnderWay, HdrModeSettles,
        HostChangesHdr, NoCallback
  <2>4. QED
    BY <1>2, <1>3, <2>2, <2>3 DEF RecreationInv, WindowChangesReachDecoder
<1>7. CASE UNCHANGED recreationVars
  <2>1. RecreationTypeOK'
    BY <1>7, InvParts DEF recreationVars, hdrVars, RecreationTypeOK
  <2>2. NoneWhileChoosing' /\ HdrUnderWay' /\ HdrModeSettles'
    BY <1>7 DEF RecreationInv, NoneWhileChoosing, HdrUnderWay, HdrModeSettles,
                recreationVars, hdrVars
  <2>3. QED
    BY <1>2, <1>3, <2>1, <2>2 DEF RecreationInv, WindowChangesReachDecoder
<1>8. QED
  BY <1>4, <1>5, <1>6, <1>7

LEMMA RecreationStep ==
    RecreationInv /\ [RecreationNext]_recreationVars => RecreationInv'
<1> SUFFICES ASSUME RecreationInv, [RecreationNext]_recreationVars
             PROVE  RecreationInv'
  OBVIOUS
<1>1. CASE HandleEvent
  BY <1>1, HandleBarrierStep, HandleToggleStep, DropWindowEventStep,
     NotifyWindowChangedStep, BeginRecreationStep DEF HandleEvent
<1>2. CASE Recreate \/ HostChangesHdr \/ ClSetHdrMode \/ UNCHANGED recreationVars
  BY <1>2, ChooseDecoderStep, EndRecreationStep, ClSetHdrModeStep,
     OtherRecreationSteps DEF Recreate
<1>3. QED
  BY <1>1, <1>2, ResizeStep, PressToggleStep, RequestResetStep
  DEF RecreationNext

LEMMA RecreationInvariant == RecreationSpec => []RecreationInv
  BY RecreationStarts, RecreationStep, PTL DEF RecreationSpec

\* No reset request outlives its decoder beside another one.
THEOREM ResetsAreOwn == RecreationSpec => []ResetIsForThisDecoder
  BY RecreationInvariant, PTL DEF RecreationInv

\* With nothing under way a decoder has the host's HDR mode, or the call was
\* dropped after the main thread had read the old one.
THEOREM HdrSettles == RecreationSpec => []HdrModeSettles
  BY RecreationInvariant, PTL DEF RecreationInv

-----------------------------------------------------------------------------
(* The two together.                                                       *)

LEMMA PartsImplemented == MCSpec => FrameDecoderSpec /\ RecreationSpec
<1>1. MCInit => FrameDecoderInit /\ RecreationInit
  BY DEF MCInit
<1>2. [MCNext]_mcVars => /\ [FrameDecoderNext]_frameDecoderVars
                         /\ [RecreationNext]_recreationVars
  BY DEF MCNext, mcVars
<1>3. QED
  BY <1>1, <1>2, PTL DEF MCSpec, FrameDecoderSpec, RecreationSpec

\* Both parts keep their types: failures are never counted past the threshold,
\* and the window never has a geometry no change gave it.
THEOREM DecoderTypes == MCSpec => []TypeOK
<1>1. ThreadInv /\ RecreationInv => TypeOK
  BY DEF ThreadInv, RecreationInv, TypeOK
<1>2. QED
  BY <1>1, PartsImplemented, ThreadInvariant, RecreationInvariant, PTL

\* What a window has become reaches the decoder, or brings one back.
THEOREM WindowChangesArrive == MCSpec => []WindowChangesReachDecoder
<1>1. RecreationInv => WindowChangesReachDecoder
  BY DEF RecreationInv
<1>2. QED
  BY <1>1, PartsImplemented, RecreationInvariant, PTL
=============================================================================
