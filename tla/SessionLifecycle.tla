-------------------------- MODULE SessionLifecycle --------------------------
(***************************************************************************)
(* The life of streaming Sessions (app/streaming/session.cpp).             *)
(*                                                                         *)
(* Four kinds of threads touch a Session:                                  *)
(*   - the GUI thread, which start() may block on the semaphore and which  *)
(*     exec() hijacks as the SDL main thread until the stream is over;     *)
(*   - the "Async Conn Start" thread, which connects;                      *)
(*   - the connection library's threads, which call clConnectionTerminated *)
(*     and reach the Session through the static s_ActiveSession;           *)
(*   - a pool thread, which runs the DeferredSessionCleanupTask.           *)
(* Two queues tie them together: SDL's event queue, of which only SDL_QUIT *)
(* matters here, and the Qt event queue of the GUI thread, which carries   *)
(* the Session's signals to the user interface.                            *)
(***************************************************************************)
EXTENDS Integers, Sequences, FiniteSets

CONSTANTS
    MaxSessions,    \* bound: Session objects ever constructed
    MaxEnds,        \* bound: SDL_QUIT events the user or a signal pushes and
                    \* connections the library ends by itself, together
    QuitAppAfter,   \* m_Preferences->quitAppAfter
    Handled         \* the signals that the user interface is connected to

Signal == {"connectionStarted", "stageFailed", "terminatedGracefully",
           "terminated", "launchError", "quitStarting", "sessionFinished",
           "readyForDeletion", "settingsRequested", "reconnectRequested"}

ASSUME SessionAssumption ==
    /\ MaxSessions \in Nat \ {0}
    /\ MaxEnds \in Nat
    /\ QuitAppAfter \in BOOLEAN
    /\ Handled \subseteq Signal

VARIABLES
    stage,          \* how far each Session has come, see Stage
    success,        \* m_AsyncConnectionSuccess
    unexpected,     \* m_UnexpectedTermination
    inputHandler,   \* m_InputHandler # nullptr
    settingsOpen,   \* m_SessionSettingsOpen
    connection,     \* the library's connection made for each Session, and
                    \* how far its clConnectionTerminated has come
    semaphore,      \* s_ActiveSessionSemaphore
    active,         \* s_ActiveSession, NoSession for nullptr
    quitEvents,     \* SDL_QUIT events not yet taken: the Session whose lost
                    \* connection pushed it, or else NoSession
    signals,        \* signals queued to the GUI thread
    crashed,        \* a callback followed a null s_ActiveSession
    userQuits,      \* how many SDL_QUIT events the user has pushed
    flagged,        \* history: when a callback set m_UnexpectedTermination,
                    \* if before the cleanup task reads it
    endedByLoss,    \* history: Sessions whose loop the SDL_QUIT of their own
                    \* lost connection has ended
    hostQuit        \* history: the host was told to quit the application

Session == 1..MaxSessions
NoSession == 0

Stage == {"unborn", "new", "waiting", "connecting", "execQueued", "prologue",
          "streaming", "cleanup", "stopping", "quitting", "releasing",
          "notifying", "done"}

\* Between acquiring the semaphore and releasing it.
Holding == {"connecting", "execQueued", "prologue", "streaming", "cleanup",
            "stopping", "quitting", "releasing"}

\* Where clConnectionTerminated is: with an error in its port test, and after
\* each of its emissions and assignments; without one in its port test, and
\* after its emission.
Calling == {"losing", "reported", "flagged", "shown", "ending", "ended"}
Terminating == Calling \cup {"terminated"}
Connection == Terminating \cup {"down", "up"}

sessionVars == <<stage, success, unexpected, inputHandler, settingsOpen>>
historyVars == <<userQuits, flagged, endedByLoss, hostQuit>>
lifecycleVars == <<sessionVars, connection, semaphore, active, quitEvents,
                   signals, crashed, historyVars>>

LifecycleInit ==
    /\ stage = [s \in Session |-> "unborn"]
    /\ success = [s \in Session |-> FALSE]
    /\ unexpected = [s \in Session |-> FALSE]
    /\ inputHandler = [s \in Session |-> FALSE]
    /\ settingsOpen = [s \in Session |-> FALSE]
    /\ connection = [s \in Session |-> "down"]
    /\ semaphore = 1
    /\ active = NoSession
    /\ quitEvents = <<>>
    /\ signals = <<>>
    /\ crashed = FALSE
    /\ userQuits = 0
    /\ flagged = [s \in Session |-> "no"]
    /\ endedByLoss = {}
    /\ hostQuit = [s \in Session |-> FALSE]

GuiBlocked == \E s \in Session : stage[s] = "waiting"

\* The GUI thread dispatches Qt events: it is not blocked in start(), and not
\* in exec() except where exec() pumps them, before it creates the window and
\* while the Session settings are open.
GuiFree ==
    /\ ~GuiBlocked
    /\ \A s \in Session : stage[s] = "streaming" => settingsOpen[s]

\* exec() leaves user input out of its first round of Qt events.
GuiTakesInput ==
    GuiFree /\ \A s \in Session : stage[s] # "prologue"

\* An emission from another thread is queued to the GUI thread.  One from the
\* GUI thread itself runs its handlers at once, before those of what is queued.
\* Of a signal that is connected to nothing, nothing is queued.
Calls(sig, s) == IF sig \in Handled THEN <<[sig |-> sig, session |-> s]>>
                                    ELSE <<>>

EmitDirectly(sig, s) == Calls(sig, s) \o signals
Emit(sig, s) == signals \o Calls(sig, s)

-----------------------------------------------------------------------------
(* The GUI thread. *)

\* The constructor: m_UnexpectedTermination starts TRUE.
Construct(s) ==
    /\ stage[s] = "unborn"
    /\ \A t \in Session : t < s => stage[t] # "unborn"
    /\ stage' = [stage EXCEPT ![s] = "new"]
    /\ unexpected' = [unexpected EXCEPT ![s] = TRUE]
    /\ UNCHANGED <<success, inputHandler, settingsOpen, connection, semaphore,
                   active, quitEvents, signals, crashed, historyVars>>

\* The first part of start(): the semaphore is taken, or the GUI thread
\* blocks on it.
StartBlocks(s) ==
    /\ stage[s] = "new"
    /\ semaphore = 0
    /\ stage' = [stage EXCEPT ![s] = "waiting"]
    /\ UNCHANGED <<success, unexpected, inputHandler, settingsOpen, connection,
                   semaphore, active, quitEvents, signals, crashed,
                   historyVars>>

\* X_Mistake, here and below, is the definition X with a plausible mistake in it.
\* No specification uses it: it shows that a property would catch the mistake.
StartAcquires_Anyway(s) ==
    /\ stage[s] \in {"new", "waiting"}
    /\ semaphore' = 0
    /\ active' = s
    /\ inputHandler' = [inputHandler EXCEPT ![s] = TRUE]
    /\ stage' = [stage EXCEPT ![s] = "connecting"]
    /\ UNCHANGED <<success, unexpected, settingsOpen, connection, quitEvents,
                   signals, crashed, historyVars>>

\* The rest of start(): the Session becomes the active one and its
\* connection thread is launched.
StartAcquires(s) ==
    /\ stage[s] \in {"new", "waiting"}
    /\ semaphore = 1
    /\ semaphore' = 0
    /\ active' = s
    /\ inputHandler' = [inputHandler EXCEPT ![s] = TRUE]
    /\ stage' = [stage EXCEPT ![s] = "connecting"]
    /\ UNCHANGED <<success, unexpected, settingsOpen, connection, quitEvents,
                   signals, crashed, historyVars>>

\* exec() on a failed connection, or when the window cannot be created.
ExecAborts(s) ==
    /\ stage[s] = IF success[s] THEN "prologue" ELSE "execQueued"
    /\ inputHandler' = [inputHandler EXCEPT ![s] = FALSE]
    /\ stage' = [stage EXCEPT ![s] = "cleanup"]
    /\ UNCHANGED <<success, unexpected, settingsOpen, connection, semaphore,
                   active, quitEvents, signals, crashed, historyVars>>

\* exec() up to the window, including its round of Qt events.
ExecBegins(s) ==
    /\ stage[s] = "execQueued"
    /\ success[s]
    /\ stage' = [stage EXCEPT ![s] = "prologue"]
    /\ UNCHANGED <<success, unexpected, inputHandler, settingsOpen, connection,
                   semaphore, active, quitEvents, signals, crashed,
                   historyVars>>

\* "Now that we're about to stream": the flag is cleared, the loop begins.
ExecEntersLoop(s) ==
    /\ stage[s] = "prologue"
    /\ unexpected' = [unexpected EXCEPT ![s] = FALSE]
    /\ stage' = [stage EXCEPT ![s] = "streaming"]
    /\ UNCHANGED <<success, inputHandler, settingsOpen, connection, semaphore,
                   active, quitEvents, signals, crashed, historyVars>>

\* What follows the label DispatchDeferredCleanup.
DispatchDeferredCleanup(s) ==
    /\ inputHandler' = [inputHandler EXCEPT ![s] = FALSE]
    /\ stage' = [stage EXCEPT ![s] = "cleanup"]

QuitTaken(s) ==
    /\ quitEvents # <<>>
    /\ quitEvents' = Tail(quitEvents)
    /\ endedByLoss' = endedByLoss \cup ({s} \cap {Head(quitEvents)})
    /\ UNCHANGED <<userQuits, flagged, hostQuit>>

ExecTakesQuit_NotInSettings(s) ==
    /\ stage[s] = "streaming"
    /\ ~settingsOpen[s]
    /\ QuitTaken(s)
    /\ DispatchDeferredCleanup(s)
    /\ UNCHANGED <<success, unexpected, settingsOpen, connection, semaphore,
                   active, signals, crashed>>

\* Either branch of the loop takes SDL_QUIT, whoever pushed it.
ExecTakesQuit(s) ==
    /\ stage[s] = "streaming"
    /\ QuitTaken(s)
    /\ DispatchDeferredCleanup(s)
    /\ UNCHANGED <<success, unexpected, settingsOpen, connection, semaphore,
                   active, signals, crashed>>

\* The decoder could not be recreated.
ExecLosesDecoder(s) ==
    /\ stage[s] = "streaming"
    /\ ~settingsOpen[s]
    /\ signals' = EmitDirectly("launchError", s)
    /\ DispatchDeferredCleanup(s)
    /\ UNCHANGED <<success, unexpected, settingsOpen, connection, semaphore,
                   active, quitEvents, crashed, historyVars>>

\* requestSessionSettings.
OpenSettings(s) ==
    /\ stage[s] = "streaming"
    /\ ~settingsOpen[s]
    /\ settingsOpen' = [settingsOpen EXCEPT ![s] = TRUE]
    /\ signals' = EmitDirectly("settingsRequested", s)
    /\ UNCHANGED <<stage, success, unexpected, inputHandler, connection,
                   semaphore, active, quitEvents, crashed, historyVars>>

\* The body of closeSessionSettings: it uses m_InputHandler and the window
\* whether exec() has destroyed them or not.
SettingsClosed(s) ==
    /\ settingsOpen' = [settingsOpen EXCEPT ![s] = FALSE]
    /\ crashed' = (crashed \/ (settingsOpen[s] /\ ~inputHandler[s]))

CloseSettings(s) ==
    /\ SettingsClosed(s)
    /\ UNCHANGED <<stage, success, unexpected, inputHandler, connection,
                   semaphore, active, quitEvents, signals, historyVars>>

\* How often a stream was ended from outside so far.
Ends ==
    userQuits + Cardinality({s \in Session : connection[s] \in Terminating})

QuitPushed ==
    /\ Ends < MaxEnds
    /\ userQuits' = userQuits + 1
    /\ quitEvents' = Append(quitEvents, NoSession)
    /\ UNCHANGED <<flagged, endedByLoss, hostQuit>>

\* applySessionSettings: close them, ask for a reconnection, interrupt.
ApplySettings(s) ==
    /\ SettingsClosed(s)
    /\ signals' = EmitDirectly("reconnectRequested", s)
    /\ QuitPushed
    /\ UNCHANGED <<stage, success, unexpected, inputHandler, connection,
                   semaphore, active>>

\* requestDisplayReconnect, from the input handler of the stream window.
RequestDisplayReconnect(s) ==
    /\ stage[s] = "streaming"
    /\ ~settingsOpen[s]
    /\ signals' = EmitDirectly("reconnectRequested", s)
    /\ QuitPushed
    /\ UNCHANGED <<sessionVars, connection, semaphore, active, crashed>>

\* interrupt(), called through Session::get() by the signal handler thread
\* at any time, or a quit key combination, which the stream window sees.
Interrupt ==
    /\ active # NoSession
    /\ QuitPushed
    /\ UNCHANGED <<sessionVars, connection, semaphore, active, signals,
                   crashed>>

-----------------------------------------------------------------------------
(* The connection thread and the library. *)

ConnectFails_Releases(s) ==
    /\ stage[s] = "connecting"
    /\ signals' = Emit("launchError", s)
    /\ semaphore' = semaphore + 1
    /\ stage' = [stage EXCEPT ![s] = "execQueued"]
    /\ UNCHANGED <<success, unexpected, inputHandler, settingsOpen, connection,
                   active, quitEvents, crashed, historyVars>>

\* startConnectionAsync returns false: a refusal it reports itself, or a
\* connection stage that failed and was reported by clStageFailed.
ConnectFails(s) ==
    /\ stage[s] = "connecting"
    /\ signals' \in {Emit("launchError", s), Emit("stageFailed", s)}
    /\ stage' = [stage EXCEPT ![s] = "execQueued"]
    /\ UNCHANGED <<success, unexpected, inputHandler, settingsOpen, connection,
                   semaphore, active, quitEvents, crashed, historyVars>>

ConnectSucceeds(s) ==
    /\ stage[s] = "connecting"
    /\ connection' = [connection EXCEPT ![s] = "up"]
    /\ success' = [success EXCEPT ![s] = TRUE]
    /\ signals' = Emit("connectionStarted", s)
    /\ stage' = [stage EXCEPT ![s] = "execQueued"]
    /\ UNCHANGED <<unexpected, inputHandler, settingsOpen, semaphore, active,
                   quitEvents, crashed, historyVars>>

\* clConnectionTerminated, on a thread of the library.  It begins with a port
\* test over the network; after it, every statement but the last follows
\* s_ActiveSession as it is by then.
TerminationBegins(s) ==
    /\ connection[s] = "up"
    /\ Ends < MaxEnds
    /\ \E errorCode \in {"losing", "ending"} :
           connection' = [connection EXCEPT ![s] = errorCode]
    /\ UNCHANGED <<sessionVars, semaphore, active, quitEvents, signals,
                   crashed, historyVars>>

\* The next statement of the callback of s: it follows s_ActiveSession.
Follows(s, from, to) ==
    /\ active # NoSession
    /\ connection[s] = from
    /\ connection' = [connection EXCEPT ![s] = to]

TerminationReports_QuitsFirst(s) ==
    /\ \/ /\ Follows(s, "losing", "reported")
          /\ signals' = Emit("terminated", active)
          /\ quitEvents' = Append(quitEvents, s)
       \/ /\ Follows(s, "ending", "ended")
          /\ signals' = Emit("terminatedGracefully", active)
          /\ UNCHANGED quitEvents
    /\ UNCHANGED <<sessionVars, semaphore, active, crashed, historyVars>>

\* connectionTerminated is emitted; the switch is for errors only.
TerminationReports(s) ==
    /\ \/ /\ Follows(s, "losing", "reported")
          /\ signals' = Emit("terminated", active)
       \/ /\ Follows(s, "ending", "ended")
          /\ signals' = Emit("terminatedGracefully", active)
    /\ UNCHANGED <<sessionVars, semaphore, active, quitEvents, crashed,
                   historyVars>>

TerminationFlags(s) ==
    /\ Follows(s, "reported", "flagged")
    /\ unexpected' = [unexpected EXCEPT ![active] = TRUE]
    /\ flagged' = [flagged EXCEPT ![active] =
           IF stage[active] \in {"streaming", "cleanup"} THEN "in time"
           ELSE IF stage[active] \in {"execQueued", "prologue"} THEN "early"
           ELSE @]
    /\ UNCHANGED <<stage, success, inputHandler, settingsOpen, semaphore,
                   active, quitEvents, signals, crashed, userQuits,
                   endedByLoss, hostQuit>>

TerminationShowsError(s) ==
    /\ Follows(s, "flagged", "shown")
    /\ signals' = Emit("launchError", active)
    /\ UNCHANGED <<sessionVars, semaphore, active, quitEvents, crashed,
                   historyVars>>

TerminationPushesQuit(s) ==
    /\ connection[s] \in {"shown", "ended"}
    /\ connection' = [connection EXCEPT ![s] = "terminated"]
    /\ quitEvents' = Append(quitEvents, IF connection[s] = "shown" THEN s
                                                             ELSE NoSession)
    /\ UNCHANGED <<sessionVars, semaphore, active, signals, crashed,
                   historyVars>>

\* The callback follows a null s_ActiveSession.  What the rest of the process
\* would do is kept in the model, which allows more than the code does.
TerminationCrashes(s) ==
    /\ active = NoSession
    /\ connection[s] \in Calling \ {"shown", "ended"}
    /\ connection' = [connection EXCEPT ![s] = "terminated"]
    /\ crashed' = TRUE
    /\ UNCHANGED <<sessionVars, semaphore, active, quitEvents, signals,
                   historyVars>>

-----------------------------------------------------------------------------
(* DeferredSessionCleanupTask, on a pool thread. *)

ShouldQuit(s) == ~unexpected[s] /\ QuitAppAfter

CleanupNotifies(s) ==
    /\ stage[s] = "cleanup"
    /\ signals' = Emit(IF ShouldQuit(s) THEN "quitStarting"
                                        ELSE "sessionFinished", s)
    /\ stage' = [stage EXCEPT ![s] = IF ShouldQuit(s) THEN "quitting"
                                                      ELSE "stopping"]
    /\ UNCHANGED <<success, unexpected, inputHandler, settingsOpen, connection,
                   semaphore, active, quitEvents, crashed, historyVars>>

\* No callback begins once the connection is stopped; nothing tells whether
\* the library waits for one that has begun, so it need not.
LiStopConnection(s) ==
    connection' = [connection EXCEPT ![s] = IF @ = "up" THEN "down" ELSE @]

CleanupStops_OnlyIfExpected(s) ==
    /\ stage[s] = "stopping"
    /\ IF unexpected[s] THEN UNCHANGED connection ELSE LiStopConnection(s)
    /\ stage' = [stage EXCEPT ![s] = "releasing"]
    /\ UNCHANGED <<success, unexpected, inputHandler, settingsOpen, semaphore,
                   active, quitEvents, signals, crashed, historyVars>>

CleanupStops(s) ==
    /\ stage[s] = "stopping"
    /\ LiStopConnection(s)
    /\ stage' = [stage EXCEPT ![s] = "releasing"]
    /\ UNCHANGED <<success, unexpected, inputHandler, settingsOpen, semaphore,
                   active, quitEvents, signals, crashed, historyVars>>

\* LiStopConnection, then the best-effort quit of the host's application.
CleanupQuitsApp(s) ==
    /\ stage[s] = "quitting"
    /\ LiStopConnection(s)
    /\ hostQuit' = [hostQuit EXCEPT ![s] = TRUE]
    /\ signals' = Emit("sessionFinished", s)
    /\ stage' = [stage EXCEPT ![s] = "releasing"]
    /\ UNCHANGED <<success, unexpected, inputHandler, settingsOpen, semaphore,
                   active, quitEvents, crashed, userQuits, flagged,
                   endedByLoss>>

CleanupReleases_OnlyIfExpected(s) ==
    /\ stage[s] = "releasing"
    /\ active' = NoSession
    /\ semaphore' = IF unexpected[s] THEN semaphore ELSE semaphore + 1
    /\ stage' = [stage EXCEPT ![s] = "notifying"]
    /\ UNCHANGED <<success, unexpected, inputHandler, settingsOpen, connection,
                   quitEvents, signals, crashed, historyVars>>

CleanupReleases(s) ==
    /\ stage[s] = "releasing"
    /\ active' = NoSession
    /\ semaphore' = semaphore + 1
    /\ stage' = [stage EXCEPT ![s] = "notifying"]
    /\ UNCHANGED <<success, unexpected, inputHandler, settingsOpen, connection,
                   quitEvents, signals, crashed, historyVars>>

CleanupDone(s) ==
    /\ stage[s] = "notifying"
    /\ signals' = Emit("readyForDeletion", s)
    /\ stage' = [stage EXCEPT ![s] = "done"]
    /\ UNCHANGED <<success, unexpected, inputHandler, settingsOpen, connection,
                   semaphore, active, quitEvents, crashed, historyVars>>

Cleanup(s) ==
    \/ CleanupNotifies(s) \/ CleanupStops(s) \/ CleanupQuitsApp(s)
    \/ CleanupReleases(s) \/ CleanupDone(s)

Connect(s) == ConnectFails(s) \/ ConnectSucceeds(s)

\* The callback, once it has begun.
CallbackRuns(s) ==
    \/ TerminationReports(s) \/ TerminationFlags(s)
    \/ TerminationShowsError(s) \/ TerminationPushesQuit(s)
    \/ TerminationCrashes(s)

Terminate(s) ==
    \/ TerminationBegins(s)
    \/ CallbackRuns(s)

\* exec() is a queued slot: it runs when the GUI thread dispatches events,
\* and makes no progress while a nested handler blocks that thread.
ExecAdvances(s) ==
    \/ GuiFree /\ ExecBegins(s)
    \/ ~GuiBlocked /\ ExecAborts(s)
    \/ ~GuiBlocked /\ ExecEntersLoop(s)
    \/ ~GuiBlocked /\ ExecTakesQuit(s)

Exec(s) == ExecAdvances(s) \/ (~GuiBlocked /\ ExecLosesDecoder(s))

Settings(s) ==
    \/ OpenSettings(s)
    \/ RequestDisplayReconnect(s)

-----------------------------------------------------------------------------
(* A user interface that starts a Session only when no other one is        *)
(* connecting or streaming, closes the settings before the stream ends, and*)
(* dispatches all queued signals in one pass.                              *)
(* StreamSegue has the real one.                                           *)

Start(s) == StartBlocks(s) \/ StartAcquires(s)

UserStarts(s) ==
    /\ GuiTakesInput
    /\ stage[s] = "new"
    /\ \A t \in Session : stage[t] \notin {"connecting", "execQueued",
                                          "prologue", "streaming"}
    /\ Start(s)

\* The interface has shown the settings before the user can leave them.
UserLeavesSettings(s) ==
    /\ GuiTakesInput
    /\ signals = <<>>
    /\ stage[s] = "streaming"
    /\ settingsOpen[s]
    /\ CloseSettings(s) \/ ApplySettings(s)

Unblocks(s) == stage[s] = "waiting" /\ StartAcquires(s)

TakeSignals ==
    /\ GuiFree
    /\ signals # <<>>
    /\ signals' = <<>>
    /\ UNCHANGED <<sessionVars, connection, semaphore, active, quitEvents,
                   crashed, historyVars>>

SessionStep(s) ==
    Connect(s) \/ Terminate(s) \/ Exec(s) \/ Settings(s) \/ Cleanup(s)
        \/ Unblocks(s)

Next ==
    \/ TakeSignals
    \/ Interrupt
    \/ \E s \in Session :
        \/ GuiTakesInput /\ Construct(s)
        \/ UserStarts(s)
        \/ UserLeavesSettings(s)
        \/ SessionStep(s)

Spec == LifecycleInit /\ [][Next]_lifecycleVars

\* Threads that can run do: the connection thread (the library's timeouts
\* bound its calls), the GUI thread, the pool thread and the callback.  The
\* conditions are for the threads of all Sessions together, which is less
\* than the scheduler gives each and enough, as no thread can go on for ever.
\* exec() takes the events of the queue one by one, and with the settings
\* open looks for SDL_QUIT in every round.  A user need not do anything, and
\* a decoder need not fail.  The cleanup may take as long in LiStopConnection
\* as a callback runs: the fairness holds for a library that waits for it too.
CleanupAdvances(s) ==
    /\ stage[s] \in {"stopping", "quitting"} => connection[s] \notin Calling
    /\ Cleanup(s)

Carried(s) ==
    Connect(s) \/ ExecAdvances(s) \/ CleanupAdvances(s) \/ Unblocks(s)

FairSpec ==
    /\ Spec
    /\ WF_lifecycleVars(\E s \in Session : Carried(s))
    /\ WF_lifecycleVars(\E s \in Session : CallbackRuns(s))

-----------------------------------------------------------------------------

\* The types of the lifecycle's state; the semaphore is never released twice.
LifecycleTypeOK ==
    /\ stage \in [Session -> Stage]
    /\ success \in [Session -> BOOLEAN]
    /\ unexpected \in [Session -> BOOLEAN]
    /\ inputHandler \in [Session -> BOOLEAN]
    /\ settingsOpen \in [Session -> BOOLEAN]
    /\ connection \in [Session -> Connection]
    /\ semaphore \in 0..1
    /\ active \in Session \cup {NoSession}
    /\ quitEvents \in Seq(Session \cup {NoSession})
    /\ signals \in Seq([sig : Signal, session : Session])
    /\ crashed \in BOOLEAN
    /\ userQuits \in Nat
    /\ flagged \in [Session -> {"no", "early", "in time"}]
    /\ endedByLoss \subseteq Session
    /\ hostQuit \in [Session -> BOOLEAN]

\* The semaphore hands the process over from one Session to the next: from
\* start() to the end of the cleanup task exactly one Session holds it, and
\* s_ActiveSession is that Session (session.cpp, start, ~DeferredSession-
\* CleanupTask).
OneSessionAtATime ==
    /\ \A s \in Session : stage[s] \in Holding => semaphore = 0 /\ active = s
    /\ semaphore = 0 => \E s \in Session : stage[s] \in Holding

\* A termination callback begins for the Session that its connection was made
\* for: while a connection is up, that Session holds the semaphore and is
\* s_ActiveSession, so the cleanup has stopped every connection before it lets
\* the next Session start.  Where the callback's later statements find
\* s_ActiveSession is another matter: nothing in the code makes them wait.
CallbackBeginsForItsSession ==
    \A s \in Session : connection[s] = "up" => active = s /\ semaphore = 0

\* A loss that the client has learned of does not make it quit the host's
\* application: neither when the flag was set in the loop or before the cleanup
\* task looked, nor when the loop was ended by the SDL_QUIT of its own lost
\* connection, which clConnectionTerminated pushes after it has set the flag,
\* unless it set it before the loop.  A loop that the user ends while the
\* callback has not come to the flag yet was ended by the user, and the
\* application is quit.
LostStreamLeavesAppRunning ==
    \A s \in Session : hostQuit[s] =>
        /\ flagged[s] # "in time"
        /\ s \in endedByLoss => flagged[s] = "early"

\* The same without the exception, as the comment in DeferredSessionCleanupTask
\* has it: "Only quit the running app if our session terminated gracefully".
\* exec() clears the flag too late for that.
QuitsAppOnlyIfGraceful == \A s \in Session : hostQuit[s] => s \notin endedByLoss

\* A start() that waits for the previous Session returns: the GUI thread is
\* never blocked for good by a cleanup.
StartReturns == GuiBlocked ~> ~GuiBlocked

\* A quit request ends the stream and its cleanup, with the Session settings
\* open or not: the semaphore becomes free.
QuitEndsSession ==
    quitEvents # <<>> /\ (\E s \in Session : stage[s] = "streaming")
        ~> semaphore = 1
=============================================================================
