--------------------------- MODULE FramePipeline ---------------------------
(***************************************************************************)
(* What the pacer promises its callers: a hand-off of decoded pictures     *)
(* that may lose pictures but never shows one twice, never shows one that  *)
(* was given up, and never goes back in decode order.                      *)
(***************************************************************************)
EXTENDS Integers

CONSTANT MaxFrames

VARIABLES
    next,       \* number of the next picture to be accepted
    pending,    \* pictures accepted and neither shown nor given up
    shown       \* the picture on screen, 0 before the first

pipelineVars == <<next, pending, shown>>

Init ==
    /\ next = 1
    /\ pending = {}
    /\ shown = 0

\* A picture comes in; older ones may be given up to make room for it.
Accept ==
    /\ next <= MaxFrames
    /\ \E kept \in SUBSET pending : pending' = kept \cup {next}
    /\ next' = next + 1
    /\ UNCHANGED shown

\* The oldest pending picture is shown.
Show ==
    /\ \E f \in pending :
          /\ \A g \in pending : f <= g
          /\ shown < f
          /\ shown' = f
          /\ pending' = pending \ {f}
    /\ UNCHANGED next

\* Pictures are given up.
GiveUp ==
    /\ pending' \in SUBSET pending
    /\ UNCHANGED <<next, shown>>

Next == Accept \/ Show \/ GiveUp

Spec == Init /\ [][Next]_pipelineVars
=============================================================================
