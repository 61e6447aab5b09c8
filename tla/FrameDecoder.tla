---------------------------- MODULE FrameDecoder ----------------------------
(***************************************************************************)
(* The decoder thread of FFmpegVideoDecoder (app/streaming/video/          *)
(* ffmpeg.cpp) from its start to the end of reset().                       *)
(*                                                                         *)
(* The thread pulls decode units from the connection library, submits      *)
(* them to the codec and passes what the codec returns to the Pacer.  The  *)
(* codec and the library are external: the codec keeps what it was sent in *)
(* order, may ask for more input, may refuse a packet and may lose one;    *)
(* the library latches a wake-up until the next wait.                      *)
(***************************************************************************)
EXTENDS Integers, Sequences

CONSTANTS
    FAILED_DECODES_RESET_THRESHOLD, \* 20 in ffmpeg.cpp
    MaxUnits                        \* bound: decode units received

ASSUME DecoderAssumption ==
    /\ FAILED_DECODES_RESET_THRESHOLD \in Nat \ {0}
    /\ MaxUnits \in Nat

VARIABLES
    pc,             \* where the decoder thread is
    framesIn,       \* m_FramesIn
    framesOut,      \* m_FramesOut
    infoQueue,      \* m_FrameInfoQueue, the numbers of its units
    failures,       \* m_ConsecutiveFailedDecodes
    shouldQuit,     \* m_DecoderThreadShouldQuit
    resetEvents,    \* SDL_RENDER_DEVICE_RESET events pushed
    reset,          \* where the main thread is in reset()
    received,       \* units the library has received so far
    units,          \* units the library holds
    userWake,       \* the library's latched wake-up
    codec,          \* units the codec will return, in order
    lost,           \* history: the codec has lost a unit
    shown           \* history: last frame given to the Pacer, and the unit
                    \* whose time stamp it bears

threadVars == <<framesIn, framesOut, infoQueue, failures, resetEvents>>
externalVars == <<received, units, userWake, codec, lost>>
frameDecoderVars == <<pc, threadVars, shouldQuit, reset, externalVars, shown>>

Unit == [number : 1..MaxUnits, idr : BOOLEAN]
NoFrame == [frame |-> 0, stamp |-> 0]

FrameDecoderInit ==
    /\ pc = "loop"
    /\ framesIn = 0 /\ framesOut = 0
    /\ infoQueue = <<>>
    /\ failures = 0
    /\ shouldQuit = FALSE
    /\ resetEvents = 0
    /\ reset = "no"
    /\ received = 0
    /\ units = <<>>
    /\ userWake = FALSE
    /\ codec = <<>>
    /\ lost = FALSE
    /\ shown = NoFrame

-----------------------------------------------------------------------------
(* The decoder thread. *)

Go(from, to) == pc = from /\ pc' = to

\* X_Mistake, here and below, is the definition X with a plausible mistake in it.
\* No specification uses it: it shows that a property would catch the mistake.
CountFailure_PastThreshold ==
    /\ failures' = failures + 1
    /\ IF failures + 1 > FAILED_DECODES_RESET_THRESHOLD
       THEN resetEvents' = resetEvents + 1 /\ shouldQuit' = TRUE
       ELSE UNCHANGED <<resetEvents, shouldQuit>>

\* A decode or a submission failed: at the threshold the thread asks for a
\* new decoder and consumes nothing more.
CountFailure ==
    /\ failures' = failures + 1
    /\ IF failures + 1 = FAILED_DECODES_RESET_THRESHOLD
       THEN resetEvents' = resetEvents + 1 /\ shouldQuit' = TRUE
       ELSE UNCHANGED <<resetEvents, shouldQuit>>

\* submitDecodeUnit: the first unit must be an IDR frame.
Rejected(unit) == framesIn = 0 /\ ~unit.idr

SubmitAccepted(unit) ==
    /\ ~Rejected(unit)
    /\ framesIn' = framesIn + 1
    /\ infoQueue' = Append(infoQueue, unit.number)
    /\ codec' = Append(codec, unit.number)
    /\ UNCHANGED <<failures, resetEvents, shouldQuit>>

SubmitFailed_Counts(unit) ==
    /\ ~Rejected(unit)
    /\ CountFailure
    /\ framesIn' = framesIn + 1
    /\ UNCHANGED <<infoQueue, codec>>

SubmitFailed_Queues(unit) ==
    /\ ~Rejected(unit)
    /\ CountFailure
    /\ infoQueue' = Append(infoQueue, unit.number)
    /\ UNCHANGED <<framesIn, codec>>

\* avcodec_send_packet fails.
SubmitFailed(unit) ==
    /\ ~Rejected(unit)
    /\ CountFailure
    /\ UNCHANGED <<framesIn, infoQueue, codec>>

SubmitRejected(unit) ==
    /\ Rejected(unit)
    /\ UNCHANGED <<framesIn, infoQueue, codec, failures, resetEvents,
                   shouldQuit>>

\* The next unit is taken, submitted and completed.
ConsumeUnit ==
    /\ units # <<>>
    /\ units' = Tail(units)
    /\ \/ SubmitAccepted(Head(units))
       \/ SubmitFailed(Head(units))
       \/ SubmitRejected(Head(units))
    /\ UNCHANGED <<framesOut, received, userWake, lost, reset, shown>>

\* The condition of the outer loop, and the choice at its top.
Loop ==
    /\ Go("loop", IF shouldQuit THEN "exited"
                  ELSE IF framesIn = framesOut THEN "wait" ELSE "owed")
    /\ UNCHANGED <<threadVars, shouldQuit, reset, externalVars, shown>>

\* Between the test of the flag and LiWaitForNextVideoFrame there is time.
EnterWait ==
    /\ Go("wait", "waiting")
    /\ UNCHANGED <<threadVars, shouldQuit, reset, externalVars, shown>>

\* LiWaitForNextVideoFrame returns a unit.
WaitedForUnit == Go("waiting", "owed") /\ ConsumeUnit

\* It returns none: "This might be a signal from the main thread to exit".
WaitWoken ==
    /\ Go("waiting", "loop")
    /\ userWake
    /\ userWake' = FALSE
    /\ UNCHANGED <<threadVars, shouldQuit, reset, received, units, codec, lost,
                   shown>>

\* Output is owed and an AVFrame can be allocated, or not.
TestOwed ==
    /\ \/ framesIn # framesOut /\ Go("owed", "receive")
       \/ Go("owed", "loop")
    /\ UNCHANGED <<threadVars, shouldQuit, reset, externalVars, shown>>

\* avcodec_receive_frame returns a frame, which bears the time stamp of the
\* unit at the head of m_FrameInfoQueue.
ReceiveFrame ==
    /\ Go("receive", "loop")
    /\ codec # <<>>
    /\ codec' = Tail(codec)
    /\ framesOut' = framesOut + 1
    /\ failures' = 0
    /\ IF infoQueue = <<>>
       THEN UNCHANGED infoQueue /\ shown' = [frame |-> Head(codec), stamp |-> 0]
       ELSE /\ infoQueue' = Tail(infoQueue)
            /\ shown' = [frame |-> Head(codec), stamp |-> Head(infoQueue)]
    /\ UNCHANGED <<framesIn, resetEvents, shouldQuit, reset, received, units,
                   userWake, lost>>

\* EAGAIN: more input is submitted if there is any,
ReceiveAgainWithInput == Go("receive", "again") /\ ConsumeUnit

ReceiveAgain ==
    /\ Go("receive", "again")
    /\ units = <<>>
    /\ UNCHANGED <<threadVars, shouldQuit, reset, externalVars, shown>>

PollAgain_Persists ==
    /\ Go("again", "receive")
    /\ UNCHANGED <<threadVars, shouldQuit, reset, externalVars, shown>>

\* and the inner loop polls again, until the thread should quit.
PollAgain ==
    /\ Go("again", IF shouldQuit THEN "loop" ELSE "receive")
    /\ UNCHANGED <<threadVars, shouldQuit, reset, externalVars, shown>>

\* avcodec_receive_frame fails, and may have lost the unit it was working on.
ReceiveFails ==
    /\ Go("receive", "loop")
    /\ CountFailure
    /\ \/ UNCHANGED <<codec, lost>>
       \/ codec # <<>> /\ codec' = Tail(codec) /\ lost' = TRUE
    /\ UNCHANGED <<framesIn, framesOut, infoQueue, reset, received, units,
                   userWake, shown>>

-----------------------------------------------------------------------------
(* reset() on the main thread, and the library. *)

ResetSetsFlag ==
    /\ reset = "no"
    /\ reset' = "wake"
    /\ shouldQuit' = TRUE
    /\ UNCHANGED <<pc, threadVars, externalVars, shown>>

LiWakeWaitForVideoFrame_Unlatched ==
    /\ reset = "wake"
    /\ reset' = "join"
    /\ userWake' = (pc = "waiting")
    /\ UNCHANGED <<pc, threadVars, shouldQuit, received, units, codec, lost,
                   shown>>

LiWakeWaitForVideoFrame ==
    /\ reset = "wake"
    /\ reset' = "join"
    /\ userWake' = TRUE
    /\ UNCHANGED <<pc, threadVars, shouldQuit, received, units, codec, lost,
                   shown>>

\* SDL_WaitThread; the counts and the queue are cleared.  The module ends here:
\* the deletion of the pacer, which follows, is the Dtor actions of Pacer, and
\* need not return (DestructorReturns there).
ResetJoins ==
    /\ reset = "join"
    /\ pc = "exited"
    /\ reset' = "done"
    /\ shouldQuit' = FALSE
    /\ framesIn' = 0 /\ framesOut' = 0
    /\ infoQueue' = <<>>
    /\ UNCHANGED <<pc, failures, resetEvents, externalVars, shown>>

UnitArrives(idr) ==
    /\ received < MaxUnits
    /\ received' = received + 1
    /\ units' = Append(units, [number |-> received + 1, idr |-> idr])
    /\ UNCHANGED <<pc, threadVars, shouldQuit, reset, userWake, codec, lost,
                   shown>>

DecoderThread ==
    \/ Loop \/ EnterWait \/ WaitedForUnit \/ WaitWoken \/ TestOwed \/ ReceiveFrame
    \/ ReceiveAgainWithInput \/ ReceiveAgain \/ PollAgain \/ ReceiveFails

Reset == ResetSetsFlag \/ LiWakeWaitForVideoFrame \/ ResetJoins

FrameDecoderNext ==
    \/ DecoderThread
    \/ Reset
    \/ \E idr \in BOOLEAN : UnitArrives(idr)

FrameDecoderSpec == FrameDecoderInit /\ [][FrameDecoderNext]_frameDecoderVars

\* Both threads are scheduled; reset() need not be called.
FrameDecoderFairness ==
    /\ WF_frameDecoderVars(DecoderThread)
    /\ WF_frameDecoderVars(LiWakeWaitForVideoFrame \/ ResetJoins)

FrameDecoderFairSpec == FrameDecoderSpec /\ FrameDecoderFairness

-----------------------------------------------------------------------------

\* The types of the decoder's state: failures are never counted past the
\* threshold at which a new decoder is asked for.
FrameDecoderTypeOK ==
    /\ pc \in {"loop", "wait", "waiting", "owed", "receive", "again", "exited"}
    /\ framesIn \in Nat /\ framesOut \in Nat
    /\ infoQueue \in Seq(1..MaxUnits)
    /\ failures \in 0..FAILED_DECODES_RESET_THRESHOLD
    /\ shouldQuit \in BOOLEAN
    /\ resetEvents \in Nat
    /\ reset \in {"no", "wake", "join", "done"}
    /\ received \in 0..MaxUnits
    /\ units \in Seq(Unit)
    /\ userWake \in BOOLEAN
    /\ codec \in Seq(1..MaxUnits)
    /\ lost \in BOOLEAN
    /\ shown \in [frame : 0..MaxUnits, stamp : 0..MaxUnits]

\* The assertions of the decoder thread: it has received no more frames than
\* it submitted, and holds the information of each one it still waits for.
\* "We have output frames to receive": what it polls for is in the codec, as
\* long as the codec loses no unit.
FrameInfoMatches ==
    /\ framesIn >= framesOut
    /\ Len(infoQueue) = framesIn - framesOut
    /\ lost \/ reset = "done" \/ Len(codec) = framesIn - framesOut

\* A frame bears the time stamp of its own unit, as long as the codec loses
\* none, whatever is refused or submitted late.
StampIsOwn == lost \/ shown.frame = shown.stamp

\* "Don't consume any additional data": once the thread has asked for a new
\* decoder it takes no unit, and asks only once.
GivesUpForGood ==
    [][resetEvents > 0
          => resetEvents' = resetEvents /\ Len(units') >= Len(units)]_frameDecoderVars

\* reset() joins the decoder thread, wherever the thread is when it is called.
ResetReturns == reset = "wake" ~> reset = "done"
=============================================================================
