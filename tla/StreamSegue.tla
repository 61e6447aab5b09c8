---------------------------- MODULE StreamSegue ----------------------------
(***************************************************************************)
(* The page that launches a stream and recovers from its loss              *)
(* (app/gui/StreamSegue.qml and app/gui/session/SessionStatusOverlay.qml), *)
(* composed with the Sessions it starts.                                   *)
(*                                                                         *)
(* All of it runs on the GUI thread, as handlers of the Session's signals, *)
(* of two timers and of the user.  A signal is handled only while its      *)
(* sender is the page's current Session.  The Sessions belong to the QML   *)
(* engine: its collector deletes the ones the page no longer refers to.    *)
(*                                                                         *)
(* The 0 ms timer between initialize() and start() fires before anything   *)
(* else the page reacts to, so the two are one step.                       *)
(***************************************************************************)
EXTENDS SessionLifecycle

CONSTANT MaxAutoReconnectAttempts       \* 3 in SessionStatusOverlay.qml

ASSUME SegueAssumption ==
    /\ MaxAutoReconnectAttempts \in Nat
    /\ Handled = Signal

VARIABLES
    ui,         \* the properties and timers of the page and its overlay
    outcomes,   \* history: Local History records written for each Session
    deletion    \* what the collector has done about each Session

segueVars == <<lifecycleVars, ui, outcomes, deletion>>

Overlay == {"disconnected", "attempting", "connected", "reconnecting",
            "failed"}

UiState ==
    [session : Session \cup {NoSession},          \* session
     reconnectSource : Session \cup {NoSession},  \* reconnectSource
     state : Overlay,                             \* statusOverlay.state
     reconnectAttempt : 0..MaxAutoReconnectAttempts,
     autoReconnectTimer : BOOLEAN,                \* running
     startupTimer : BOOLEAN,                      \* running
     displayReconnectPending : BOOLEAN,
     sessionSettingsOpen : BOOLEAN,
     recorded : BOOLEAN,                          \* _outcomeRecorded
     page : {"shown", "left"}]                    \* on the StackView

\* The page is shown with the first Session, and has just been activated.
SegueInit ==
    /\ LifecycleInit
    /\ ui = [session |-> NoSession, reconnectSource |-> NoSession,
             state |-> "disconnected", reconnectAttempt |-> 0,
             autoReconnectTimer |-> FALSE, startupTimer |-> FALSE,
             displayReconnectPending |-> FALSE, sessionSettingsOpen |-> FALSE,
             recorded |-> FALSE, page |-> "left"]
    /\ outcomes = [s \in Session |-> 0]
    /\ deletion = [s \in Session |-> "no"]

-----------------------------------------------------------------------------
(* Pieces of the handlers: u is the page's state so far. *)

\* Assigning session runs onSessionChanged of the page and of the overlay.
WithSession(u, s) ==
    IF s = u.session THEN u
    ELSE [u EXCEPT !.session = s,
                   !.recorded = FALSE,
                   !.state = IF s = NoSession THEN "disconnected"
                                              ELSE "attempting"]

\* X_Mistake, here and below, is the definition X with a plausible mistake in it.
\* No specification uses it: it shows that a property would catch the mistake.
Records_Again(u) == u.session # NoSession

\* recordOutcome writes one record for the current Session.
Records(u) == u.session # NoSession /\ ~u.recorded

RecordOutcome(u) ==
    /\ ui' = [u EXCEPT !.recorded = @ \/ Records(u)]
    /\ outcomes' = IF Records(u)
                   THEN [outcomes EXCEPT ![u.session] = @ + 1]
                   ELSE outcomes

\* gc(): of what the page no longer refers to, the deletion is posted.
Collect(u) ==
    deletion' = [s \in Session |->
        IF /\ stage[s] # "unborn" /\ deletion[s] = "no"
           /\ s \notin {u.session, u.reconnectSource}
        THEN "posted" ELSE deletion[s]]

AttemptAutoReconnect_OffByOne(u) ==
    IF u.reconnectAttempt <= MaxAutoReconnectAttempts
    THEN [u EXCEPT !.reconnectAttempt = @ + 1,
                   !.state = "reconnecting",
                   !.autoReconnectTimer = TRUE]
    ELSE [u EXCEPT !.state = "failed"]

AttemptAutoReconnect_NoTimer(u) ==
    IF u.reconnectAttempt < MaxAutoReconnectAttempts
    THEN [u EXCEPT !.reconnectAttempt = @ + 1, !.state = "reconnecting"]
    ELSE [u EXCEPT !.state = "failed"]

AttemptAutoReconnect(u) ==
    IF u.reconnectAttempt < MaxAutoReconnectAttempts
    THEN [u EXCEPT !.reconnectAttempt = @ + 1,
                   !.state = "reconnecting",
                   !.autoReconnectTimer = TRUE]
    ELSE [u EXCEPT !.state = "failed"]

NeedsReplacement(u) ==
    u.reconnectSource # NoSession \/ u.session # NoSession

\* reconnect(), with s the Session that createReconnectSession constructs.
Reconnect(u, s) ==
    IF NeedsReplacement(u)
    THEN /\ Construct(s)
         /\ ui' = [WithSession([u EXCEPT !.reconnectSource = NoSession], s)
                      EXCEPT !.startupTimer = TRUE]
    ELSE /\ ui' = [u EXCEPT !.state = "failed"]
         /\ UNCHANGED lifecycleVars

-----------------------------------------------------------------------------
(* Handlers of the Session's signals. *)

OnConnectionStarted(u) == [u EXCEPT !.state = "connected"]

OnStageFailed(u) ==
    [AttemptAutoReconnect(u) EXCEPT !.reconnectSource = u.session]

OnTerminatedGracefully(u) ==
    [u EXCEPT !.reconnectAttempt = 0, !.state = "disconnected"]

ShowLaunchError(u) ==
    [u EXCEPT !.reconnectSource = u.session, !.state = "failed"]

\* The page is replaced by QuitSegue.
OnQuitStarting(u) == [u EXCEPT !.state = "disconnected", !.page = "left"]

OnReconnectRequested(u) ==
    [u EXCEPT !.displayReconnectPending = TRUE,
              !.reconnectSource = u.session]

WantsRecovery(u) == u.state \in {"failed", "reconnecting"}

SessionFinished_RecordsWhenLeft(u) ==
    IF WantsRecovery(u)
    THEN ui' = [u EXCEPT !.reconnectSource = u.session] /\ UNCHANGED outcomes
    ELSE RecordOutcome([u EXCEPT !.page = "left"])

\* sessionFinished, when no reconnection was asked for.
SessionFinished(u) ==
    IF WantsRecovery(u) THEN RecordOutcome([u EXCEPT !.reconnectSource =
                                                        u.session])
    ELSE RecordOutcome([u EXCEPT !.page = "left"])

\* The signals whose handlers only set properties.
PlainHandler(sig, u) ==
    CASE sig = "connectionStarted" -> OnConnectionStarted(u)
      [] sig \in {"stageFailed", "terminated"} -> OnStageFailed(u)
      [] sig = "terminatedGracefully" -> OnTerminatedGracefully(u)
      [] sig = "quitStarting" -> OnQuitStarting(u)
      [] sig = "settingsRequested" -> [u EXCEPT !.sessionSettingsOpen = TRUE]
      [] sig = "reconnectRequested" -> OnReconnectRequested(u)

Dispatched == signals' = Tail(signals)

LifecycleButSignals ==
    <<sessionVars, connection, semaphore, active, quitEvents, crashed,
      historyVars>>

HandlePlainSignal ==
    /\ Head(signals).sig \notin {"launchError", "sessionFinished",
                                 "readyForDeletion"}
    /\ ui' = PlainHandler(Head(signals).sig, ui)
    /\ Dispatched
    /\ UNCHANGED <<LifecycleButSignals, outcomes, deletion>>

HandleLaunchError ==
    /\ Head(signals).sig = "launchError"
    /\ RecordOutcome(ShowLaunchError(ui))
    /\ Dispatched
    /\ UNCHANGED <<LifecycleButSignals, deletion>>

HandleSessionFinished ==
    /\ Head(signals).sig = "sessionFinished"
    /\ ~ui.displayReconnectPending
    /\ SessionFinished([ui EXCEPT !.sessionSettingsOpen = FALSE])
    /\ Dispatched
    /\ UNCHANGED <<LifecycleButSignals, deletion>>

\* sessionFinished after Apply & Reconnect: a replacement is constructed and
\* the outcome of the Session that ended is not recorded.
HandleFinishedForReconnect(s) ==
    /\ Head(signals).sig = "sessionFinished"
    /\ ui.displayReconnectPending
    /\ stage[s] = "unborn"
    /\ \A t \in Session : t < s => stage[t] # "unborn"
    /\ stage' = [stage EXCEPT ![s] = "new"]
    /\ unexpected' = [unexpected EXCEPT ![s] = TRUE]
    /\ ui' = [WithSession([ui EXCEPT !.sessionSettingsOpen = FALSE,
                                     !.displayReconnectPending = FALSE,
                                     !.reconnectSource = NoSession], s)
                 EXCEPT !.startupTimer = TRUE]
    /\ Dispatched
    /\ UNCHANGED <<success, inputHandler, settingsOpen, connection, semaphore,
                   active, quitEvents, crashed, historyVars, outcomes,
                   deletion>>

HandleReadyForDeletion ==
    /\ Head(signals).sig = "readyForDeletion"
    /\ IF WantsRecovery(ui) THEN UNCHANGED <<ui, deletion>>
       ELSE /\ ui' = WithSession(ui, NoSession)
            /\ Collect(WithSession(ui, NoSession))
    /\ Dispatched
    /\ UNCHANGED <<LifecycleButSignals, outcomes>>

\* A signal of a Session that is not, or no longer, the page's.
IgnoreSignal ==
    /\ Head(signals).session # ui.session
    /\ Dispatched
    /\ UNCHANGED <<LifecycleButSignals, ui, outcomes, deletion>>

HandleSignal ==
    /\ GuiFree
    /\ signals # <<>>
    /\ \/ IgnoreSignal
       \/ /\ Head(signals).session = ui.session
          /\ \/ HandlePlainSignal
             \/ HandleLaunchError
             \/ HandleSessionFinished
             \/ \E s \in Session : HandleFinishedForReconnect(s)
             \/ HandleReadyForDeletion

-----------------------------------------------------------------------------
(* Timers and the user. *)

\* The page is created with the first Session and activated.
OpenPage ==
    /\ stage[1] = "unborn"
    /\ Construct(1)
    /\ ui' = [WithSession(ui, 1) EXCEPT !.page = "shown",
                                        !.startupTimer = TRUE]
    /\ UNCHANGED <<outcomes, deletion>>

\* beginCurrentSession, where initialize() fails.
BeginFails ==
    /\ GuiFree
    /\ ui.startupTimer
    /\ RecordOutcome([ui EXCEPT !.startupTimer = FALSE, !.state = "failed"])
    /\ UNCHANGED <<lifecycleVars, deletion>>

\* beginCurrentSession, then gc() and start().
BeginStarts ==
    /\ GuiFree
    /\ ui.startupTimer
    /\ ui.session # NoSession
    /\ stage[ui.session] = "new"
    /\ ui' = [ui EXCEPT !.startupTimer = FALSE]
    /\ Collect(ui)
    /\ Start(ui.session)
    /\ UNCHANGED outcomes

\* The two seconds of the timer, and the time a user takes to answer a failure,
\* outlast what the GUI thread already has queued.
QueueDrained ==
    /\ signals = <<>>
    /\ \A s \in Session :
           /\ stage[s] \notin {"execQueued", "prologue"}
           /\ stage[s] = "streaming" => quitEvents = <<>>

AutoReconnect ==
    /\ GuiFree
    /\ ui.autoReconnectTimer
    /\ QueueDrained
    /\ \E s \in Session : Reconnect([ui EXCEPT !.autoReconnectTimer = FALSE], s)
    /\ UNCHANGED <<outcomes, deletion>>

\* The reconnect button of a failed state.
ManualReconnect ==
    /\ GuiTakesInput
    /\ QueueDrained
    /\ ui.page = "shown"
    /\ ui.state = "failed"
    /\ \E s \in Session : Reconnect([ui EXCEPT !.reconnectAttempt = 0], s)
    /\ UNCHANGED <<outcomes, deletion>>

\* Escape or Back leave the timer running; the button stops it.
QuitRequested(timer) ==
    /\ GuiTakesInput
    /\ ui.page = "shown"
    /\ WantsRecovery(ui)
    /\ ui' = [WithSession([ui EXCEPT !.reconnectSource = NoSession], NoSession)
                 EXCEPT !.autoReconnectTimer = timer, !.page = "left"]
    /\ UNCHANGED <<lifecycleVars, outcomes, deletion>>

QuitByKey == QuitRequested(ui.autoReconnectTimer)
QuitByButton == QuitRequested(FALSE)

\* The Session settings the user leaves or applies.
LeaveSettings ==
    /\ GuiTakesInput
    /\ ui.sessionSettingsOpen
    /\ ui.session # NoSession
    /\ CloseSettings(ui.session) \/ ApplySettings(ui.session)
    /\ ui' = [ui EXCEPT !.sessionSettingsOpen = FALSE]
    /\ UNCHANGED <<outcomes, deletion>>

\* The posted deletion comes in the event loop that the handler returned to:
\* not while start() blocks, nor inside exec().
DeleteLater(s) ==
    /\ GuiFree
    /\ \A t \in Session : stage[t] \notin {"prologue", "streaming"}
    /\ deletion[s] = "posted"
    /\ deletion' = [deletion EXCEPT ![s] = "done"]
    /\ UNCHANGED <<lifecycleVars, ui, outcomes>>

SegueStep ==
    \/ HandleSignal \/ OpenPage \/ BeginFails \/ BeginStarts \/ AutoReconnect
    \/ ManualReconnect \/ QuitByKey \/ QuitByButton \/ LeaveSettings
    \/ \E s \in Session : DeleteLater(s)

SegueNext ==
    \/ SegueStep
    \/ /\ Interrupt \/ \E s \in Session : SessionStep(s)
       /\ UNCHANGED <<ui, outcomes, deletion>>

SegueSpec == SegueInit /\ [][SegueNext]_segueVars

-----------------------------------------------------------------------------

\* The types of the page's state: the attempts never pass their maximum.
SegueTypeOK ==
    /\ LifecycleTypeOK
    /\ ui \in UiState
    /\ outcomes \in [Session -> Nat]
    /\ deletion \in [Session -> {"no", "posted", "done"}]

\* "each Session object (one physical connection attempt) writes at most one
\* Local History outcome record, even though failure can be observed from
\* more than one signal path".
OneOutcomePerSession == \A s \in Session : outcomes[s] <= 1

\* A failure the page shows is on record: once its Session is over and its
\* signals are handled, exactly one record was written, whichever of stageFailed,
\* connectionTerminated, displayLaunchError and sessionFinished came first.
FailureIsRecorded ==
    \A s \in Session :
        ui.session = s /\ ui.state = "failed" /\ stage[s] = "done"
            /\ (\A i \in DOMAIN signals : signals[i].session # s)
            => outcomes[s] = 1

\* A Session ends where the user can go on: once its cleanup is over and its
\* signals have been handled, the page is left, or shows the failure, or a
\* timer is running that will start the replacement.
NeverStranded ==
    \A s \in Session :
        /\ stage[s] = "done" /\ ui.session = s
        /\ \A i \in DOMAIN signals : signals[i].session # s
        => \/ ui.page = "left" \/ ui.state = "failed"
           \/ ui.autoReconnectTimer \/ ui.startupTimer

\* readyForDeletion is "Emitted after sessionFinished() when the session is
\* ready to be destroyed": no Session is destroyed before.
DestroyedOnlyWhenReady ==
    \A s \in Session : deletion[s] = "done" => stage[s] \in {"new", "done"}
=============================================================================
