----------------------------- MODULE MCDecoder -----------------------------
(***************************************************************************)
(* The decoder thread and the recreation of the decoder, for TLC.  The two *)
(* specifications share no variable: a behaviour is one of either, and the *)
(* other's variables keep their initial values.                            *)
(***************************************************************************)
EXTENDS FrameDecoder, DecoderRecreation

VARIABLE part   \* which of the two runs

MCInit ==
    /\ part \in {"thread", "recreation"}
    /\ FrameDecoderInit
    /\ RecreationInit

MCNext ==
    \/ /\ part = "thread"
       /\ FrameDecoderNext
       /\ UNCHANGED <<part, recreationVars>>
    \/ /\ part = "recreation"
       /\ RecreationNext
       /\ UNCHANGED <<part, frameDecoderVars>>

mcVars == <<part, frameDecoderVars, recreationVars>>

MCSpec ==
    /\ MCInit /\ [][MCNext]_mcVars
    /\ WF_mcVars(/\ part = "thread" /\ DecoderThread
                 /\ UNCHANGED <<part, recreationVars>>)
    /\ WF_mcVars(/\ part = "thread"
                 /\ LiWakeWaitForVideoFrame \/ ResetJoins
                 /\ UNCHANGED <<part, recreationVars>>)
    /\ WF_mcVars(/\ part = "recreation" /\ HandleEvent
                 /\ UNCHANGED <<part, frameDecoderVars>>)
    /\ WF_mcVars(/\ part = "recreation" /\ Recreate
                 /\ UNCHANGED <<part, frameDecoderVars>>)

\* Both parts keep their types; the thread never counts past its threshold.
TypeOK == FrameDecoderTypeOK /\ RecreationTypeOK

\* What a window has become reaches the decoder, or brings one back: the events
\* dropped until the barrier comes are only those the decoder knows of.
WindowChangesReachDecoder ==
    FlushRefCountsBarriers /\ RecreationPending /\ RendererLearnsGeometry

\* The recreation is fair only while it is what runs.
DecoderComesBack == part = "recreation" => DecoderReturns
=============================================================================
