--------------------------- MODULE SessionProofs ---------------------------
(***************************************************************************)
(* Proofs about the life of Sessions, for any number of them, any number   *)
(* of quit events and either preference.                                   *)
(***************************************************************************)
EXTENDS SessionLifecycle, TLAPS

-----------------------------------------------------------------------------
(* Types. *)

LEMMA QueueTypes ==
    ASSUME NEW S, NEW q \in Seq(S)
    PROVE  /\ q # <<>> => Tail(q) \in Seq(S)
           /\ \A x \in S : Append(q, x) \in Seq(S)
  OBVIOUS

LEMMA EmitTypes ==
    ASSUME NEW s \in Session, NEW sig \in Signal,
           signals \in Seq([sig : Signal, session : Session])
    PROVE  /\ Emit(sig, s) \in Seq([sig : Signal, session : Session])
           /\ EmitDirectly(sig, s) \in Seq([sig : Signal, session : Session])
  <1>1. [sig |-> sig, session |-> s] \in [sig : Signal, session : Session]
    OBVIOUS
  <1>2. ASSUME NEW S, NEW q \in Seq(S), NEW x \in S
        PROVE  /\ q \o <<x>> \in Seq(S) /\ q \o <<>> \in Seq(S)
               /\ <<x>> \o q \in Seq(S) /\ <<>> \o q \in Seq(S)
    OBVIOUS
  <1> QED
    BY <1>1, <1>2 DEF Emit, EmitDirectly, Calls

LEMMA StageNames ==
    /\ "new" \in Stage /\ "waiting" \in Stage /\ "connecting" \in Stage
    /\ "execQueued" \in Stage /\ "prologue" \in Stage /\ "streaming" \in Stage
    /\ "cleanup" \in Stage /\ "stopping" \in Stage /\ "quitting" \in Stage
    /\ "releasing" \in Stage /\ "notifying" \in Stage /\ "done" \in Stage
  BY DEF Stage

LEMMA SessionIsSome == \A s \in Session : s # NoSession
  BY SessionAssumption DEF Session, NoSession

LEMMA NoSessionPushes == NoSession \in Session \cup {NoSession}
  OBVIOUS

LEMMA QuitPushedType ==
    ASSUME LifecycleTypeOK, QuitPushed
    PROVE  /\ quitEvents' \in Seq(Session \cup {NoSession})
           /\ userQuits' \in Nat
           /\ UNCHANGED <<flagged, endedByLoss, hostQuit>>
  <1>1. quitEvents \in Seq(Session \cup {NoSession}) /\ userQuits \in Nat
    BY DEF LifecycleTypeOK
  <1>2. quitEvents' \in Seq(Session \cup {NoSession})
    BY <1>1, QueueTypes, NoSessionPushes DEF QuitPushed
  <1> QED
    BY <1>1, <1>2 DEF QuitPushed

\* The GUI thread's steps keep the types.
LEMMA TypeGui ==
    ASSUME LifecycleTypeOK, OneSessionAtATime, NEW s \in Session,
           \/ Construct(s) \/ StartBlocks(s) \/ StartAcquires(s)
           \/ Exec(s) \/ Settings(s) \/ CloseSettings(s) \/ ApplySettings(s)
    PROVE  LifecycleTypeOK'
  <1> USE DEF LifecycleTypeOK, sessionVars, historyVars
  <1>0. {"launchError", "settingsRequested", "reconnectRequested"}
            \subseteq Signal
    BY DEF Signal
  <1>1. CASE Construct(s)
    BY <1>1, StageNames DEF Construct
  <1>9. CASE StartBlocks(s)
    BY <1>9, StageNames DEF StartBlocks
  <1>10. CASE StartAcquires(s)
    <2>1. /\ stage' = [stage EXCEPT ![s] = "connecting"]
          /\ semaphore' = 0 /\ active' = s
          /\ inputHandler' = [inputHandler EXCEPT ![s] = TRUE]
          /\ UNCHANGED <<success, unexpected, settingsOpen, connection,
                         quitEvents, signals, crashed, historyVars>>
      BY <1>10 DEF StartAcquires
    <2>2. stage' \in [Session -> Stage]
      BY <2>1, StageNames
    <2>3. active' \in Session \cup {NoSession}
      BY <2>1
    <2>4. semaphore' \in 0..1
      <3>1. semaphore' = 0
        BY <2>1
      <3> HIDE DEF LifecycleTypeOK
      <3> QED
        BY <3>1
    <2> QED
      BY <2>1, <2>2, <2>3, <2>4
  <1>2. CASE ExecBegins(s)
    BY <1>2, StageNames DEF ExecBegins
  <1>11. CASE ExecAborts(s)
    BY <1>11, StageNames DEF ExecAborts
  <1>12. CASE ExecEntersLoop(s)
    BY <1>12, StageNames DEF ExecEntersLoop
  <1>3. CASE ExecTakesQuit(s)
    <2>1. quitEvents' \in Seq(Session \cup {NoSession})
      <3>1. quitEvents # <<>> /\ quitEvents' = Tail(quitEvents)
        BY <1>3 DEF ExecTakesQuit, QuitTaken
      <3>2. quitEvents \in Seq(Session \cup {NoSession})
        OBVIOUS
      <3> QED
        BY ONLY <3>1, <3>2, QueueTypes
    <2>2. /\ endedByLoss' \subseteq Session
          /\ UNCHANGED <<userQuits, flagged, hostQuit>>
      BY <1>3 DEF ExecTakesQuit, QuitTaken
    <2> QED
      BY <1>3, <2>1, <2>2, StageNames DEF ExecTakesQuit, DispatchDeferredCleanup
  <1>4. CASE ExecLosesDecoder(s)
    <2>1. signals' \in Seq([sig : Signal, session : Session])
      BY <1>0, <1>4, EmitTypes DEF ExecLosesDecoder
    <2> QED
      BY <1>4, <2>1, StageNames DEF ExecLosesDecoder, DispatchDeferredCleanup
  <1>5. CASE OpenSettings(s)
    <2>1. signals' \in Seq([sig : Signal, session : Session])
      BY <1>0, <1>5, EmitTypes DEF OpenSettings
    <2> QED
      BY <1>5, <2>1 DEF OpenSettings
  <1>6. CASE RequestDisplayReconnect(s)
    <2>1. signals' \in Seq([sig : Signal, session : Session])
      BY <1>0, <1>6, EmitTypes DEF RequestDisplayReconnect
    <2> QED
      BY <1>6, <2>1, QuitPushedType DEF RequestDisplayReconnect
  <1>7. CASE CloseSettings(s)
    BY <1>7 DEF CloseSettings, SettingsClosed
  <1>8. CASE ApplySettings(s)
    <2>1. signals' \in Seq([sig : Signal, session : Session])
      BY <1>0, <1>8, EmitTypes DEF ApplySettings
    <2> QED
      BY <1>8, <2>1, QuitPushedType DEF ApplySettings, SettingsClosed
  <1> QED
    BY <1>1, <1>2, <1>3, <1>4, <1>5, <1>6, <1>7, <1>8, <1>9,
       <1>10, <1>11, <1>12
       DEF Exec, ExecAdvances, Settings

\* The other threads' steps keep the types.
LEMMA TypeThreads ==
    ASSUME LifecycleTypeOK, OneSessionAtATime, NEW s \in Session,
           Connect(s) \/ Terminate(s) \/ Cleanup(s)
    PROVE  LifecycleTypeOK'
  <1> DEFINE SignalQueue == Seq([sig : Signal, session : Session])
  <1>a. /\ signals \in SignalQueue
        /\ quitEvents \in Seq(Session \cup {NoSession})
        /\ active \in Session \cup {NoSession} /\ crashed \in BOOLEAN
    BY DEF LifecycleTypeOK
  <1>0. {"launchError", "stageFailed", "connectionStarted", "terminated",
         "terminatedGracefully", "quitStarting", "sessionFinished",
         "readyForDeletion"} \subseteq Signal
    BY DEF Signal
  <1>b. ASSUME NEW x \in Session, NEW sig \in Signal
        PROVE  Emit(sig, x) \in SignalQueue
    BY <1>a, <1>b, EmitTypes
  <1>c. /\ "losing" \in Connection /\ "ending" \in Connection
        /\ "reported" \in Connection /\ "ended" \in Connection
        /\ "flagged" \in Connection /\ "shown" \in Connection
        /\ "terminated" \in Connection /\ "up" \in Connection
        /\ "down" \in Connection
    BY DEF Connection, Terminating, Calling
  <1>d. ASSUME NEW x \in Connection,
               connection' = [connection EXCEPT ![s] = x]
        PROVE  connection' \in [Session -> Connection]
    BY <1>d DEF LifecycleTypeOK
  <1>1. CASE ConnectFails(s)
    <2>1. signals' \in SignalQueue
      BY <1>0, <1>1, <1>b DEF ConnectFails
    <2> QED
      BY <1>1, <2>1, StageNames
         DEF ConnectFails, LifecycleTypeOK, sessionVars,
             historyVars
  <1>2. CASE ConnectSucceeds(s)
    <2>1. signals' \in SignalQueue
      BY <1>0, <1>2, <1>b DEF ConnectSucceeds
    <2>2. connection' \in [Session -> Connection]
      BY <1>2, <1>c, <1>d DEF ConnectSucceeds
    <2>3. /\ stage' \in [Session -> Stage]
          /\ success' \in [Session -> BOOLEAN]
      BY <1>2, StageNames DEF ConnectSucceeds, LifecycleTypeOK
    <2> QED
      BY <1>2, <2>1, <2>2, <2>3
         DEF ConnectSucceeds, LifecycleTypeOK, sessionVars,
             historyVars
  <1>3. CASE TerminationBegins(s)
    <2>1. connection' \in [Session -> Connection]
      BY <1>3, <1>c, <1>d DEF TerminationBegins
    <2> QED
      BY <1>3, <2>1
         DEF TerminationBegins, LifecycleTypeOK, sessionVars, historyVars
  <1>4. CASE TerminationReports(s)
    <2>1. signals' \in SignalQueue
      BY <1>0, <1>4, <1>a, <1>b DEF TerminationReports, Follows
    <2>2. connection' \in [Session -> Connection]
      BY <1>4, <1>c, <1>d DEF TerminationReports, Follows
    <2> QED
      BY <1>4, <2>1, <2>2
         DEF TerminationReports, LifecycleTypeOK, sessionVars, historyVars
  <1>11. CASE TerminationFlags(s)
    <2>1. connection' \in [Session -> Connection]
      BY <1>11, <1>c, <1>d DEF TerminationFlags, Follows
    <2>2. /\ unexpected' \in [Session -> BOOLEAN]
          /\ flagged' \in [Session -> {"no", "early", "in time"}]
      BY <1>11 DEF TerminationFlags, LifecycleTypeOK
    <2> QED
      BY <1>11, <2>1, <2>2 DEF TerminationFlags, LifecycleTypeOK
  <1>12. CASE TerminationShowsError(s)
    <2>1. signals' \in SignalQueue
      BY <1>0, <1>12, <1>a, <1>b DEF TerminationShowsError, Follows
    <2>2. connection' \in [Session -> Connection]
      BY <1>12, <1>c, <1>d DEF TerminationShowsError, Follows
    <2> QED
      BY <1>12, <2>1, <2>2
         DEF TerminationShowsError, LifecycleTypeOK, sessionVars, historyVars
  <1>13. CASE TerminationPushesQuit(s)
    <2>1. quitEvents' \in Seq(Session \cup {NoSession})
      BY <1>13, <1>a, QueueTypes DEF TerminationPushesQuit
    <2>2. connection' \in [Session -> Connection]
      BY <1>13, <1>c, <1>d DEF TerminationPushesQuit
    <2> QED
      BY <1>13, <2>1, <2>2
         DEF TerminationPushesQuit, LifecycleTypeOK, sessionVars, historyVars
  <1>14. CASE TerminationCrashes(s)
    <2>1. connection' \in [Session -> Connection]
      BY <1>14, <1>c, <1>d DEF TerminationCrashes
    <2> QED
      BY <1>14, <2>1
         DEF TerminationCrashes, LifecycleTypeOK, sessionVars, historyVars
  <1>5. CASE CleanupNotifies(s)
    <2>1. signals' \in SignalQueue
      BY <1>0, <1>5, <1>b DEF CleanupNotifies
    <2>2. stage' \in [Session -> Stage]
      BY <1>5, StageNames DEF CleanupNotifies, LifecycleTypeOK
    <2> QED
      BY <1>5, <2>1, <2>2
         DEF CleanupNotifies, LifecycleTypeOK, sessionVars,
             historyVars
  <1>6. ASSUME LiStopConnection(s)
        PROVE  connection' \in [Session -> Connection]
    BY <1>6, <1>c DEF LiStopConnection, LifecycleTypeOK
  <1>7. CASE CleanupStops(s)
    BY <1>6, <1>7, StageNames
       DEF CleanupStops, LifecycleTypeOK, sessionVars, historyVars
  <1>8. CASE CleanupQuitsApp(s)
    <2>1. signals' \in SignalQueue
      BY <1>0, <1>8, <1>b DEF CleanupQuitsApp
    <2>2. stage' \in [Session -> Stage] /\ hostQuit' \in [Session -> BOOLEAN]
      BY <1>8, StageNames DEF CleanupQuitsApp, LifecycleTypeOK
    <2> QED
      BY <1>6, <1>8, <2>1, <2>2
         DEF CleanupQuitsApp, LifecycleTypeOK, sessionVars,
             historyVars
  <1>9. CASE CleanupReleases(s)
    <2>1. semaphore = 0
      BY <1>9 DEF CleanupReleases, OneSessionAtATime, Holding
    <2>2. stage' \in [Session -> Stage]
      BY <1>9, StageNames DEF CleanupReleases, LifecycleTypeOK
    <2>3. semaphore' \in 0..1 /\ active' \in Session \cup {NoSession}
      <3>1. semaphore' = 1 /\ active' = NoSession
        BY <1>9, <2>1 DEF CleanupReleases
      <3> QED
        BY <3>1
    <2> QED
      BY <1>9, <2>2, <2>3
         DEF CleanupReleases, LifecycleTypeOK, sessionVars,
             historyVars
  <1>10. CASE CleanupDone(s)
    <2>1. signals' \in SignalQueue
      BY <1>0, <1>10, <1>b DEF CleanupDone
    <2> QED
      BY <1>10, <2>1, StageNames
         DEF CleanupDone, LifecycleTypeOK, sessionVars,
             historyVars
  <1> QED
    BY <1>1, <1>2, <1>3, <1>4, <1>5, <1>7, <1>8, <1>9, <1>10, <1>11, <1>12,
       <1>13, <1>14
       DEF Connect, Terminate, CallbackRuns, Cleanup

LEMMA TypeInit ==
    ASSUME LifecycleInit
    PROVE  LifecycleTypeOK
  <1>1. "unborn" \in Stage
    BY DEF Stage
  <1>2. /\ 1 \in 0..1 /\ 0 \in Nat
        /\ <<>> \in Seq(Session \cup {NoSession})
        /\ <<>> \in Seq([sig : Signal, session : Session])
    BY SessionAssumption
  <1> QED
    BY <1>1, <1>2
       DEF LifecycleInit, LifecycleTypeOK, Connection

LEMMA TypeStep ==
    ASSUME LifecycleTypeOK, OneSessionAtATime, [Next]_lifecycleVars
    PROVE  LifecycleTypeOK'
  <1>1. CASE UNCHANGED lifecycleVars \/ TakeSignals
    <2>1. <<>> \in Seq([sig : Signal, session : Session])
      OBVIOUS
    <2> QED
      BY <1>1, <2>1
         DEF LifecycleTypeOK, TakeSignals, lifecycleVars, sessionVars,
             historyVars
  <1>2. CASE Interrupt
    BY <1>2, QuitPushedType
       DEF Interrupt, LifecycleTypeOK, sessionVars
  <1>3. ASSUME NEW s \in Session,
               \/ Construct(s) \/ UserStarts(s) \/ UserLeavesSettings(s)
               \/ SessionStep(s)
        PROVE  LifecycleTypeOK'
    BY <1>3, TypeGui, TypeThreads
       DEF UserStarts, Start, UserLeavesSettings, SessionStep, Unblocks
  <1> QED
    BY <1>1, <1>2, <1>3 DEF Next

-----------------------------------------------------------------------------
(* The semaphore.  With the types, OneSessionAtATime is inductive.         *)

\* A step that neither takes nor releases the semaphore.
LEMMA HoldersKept ==
    ASSUME OneSessionAtATime, UNCHANGED <<semaphore, active>>,
           \A t \in Session : stage'[t] \in Holding <=> stage[t] \in Holding
    PROVE  OneSessionAtATime'
  BY DEF OneSessionAtATime

LEMMA HoldGui ==
    ASSUME LifecycleTypeOK, OneSessionAtATime, NEW s \in Session,
           \/ Construct(s) \/ StartBlocks(s) \/ StartAcquires(s)
           \/ Exec(s) \/ Settings(s) \/ CloseSettings(s) \/ ApplySettings(s)
    PROVE  OneSessionAtATime'
  <1>0. stage \in [Session -> Stage]
    BY DEF LifecycleTypeOK
  <1>1. CASE Construct(s) \/ StartBlocks(s)
    BY <1>0, <1>1, HoldersKept DEF Construct, StartBlocks, Holding
  <1>2. CASE StartAcquires(s)
    <2>1. /\ semaphore = 1 /\ semaphore' = 0 /\ active' = s
          /\ stage' = [stage EXCEPT ![s] = "connecting"]
      BY <1>2 DEF StartAcquires
    <2>2. \A t \in Session : stage[t] \notin Holding
      BY <2>1 DEF OneSessionAtATime
    <2>3. "connecting" \in Holding
      BY DEF Holding
    <2> QED
      BY <1>0, <2>1, <2>2, <2>3 DEF OneSessionAtATime
  <1>3. CASE Exec(s)
    <2>1. /\ UNCHANGED <<semaphore, active>>
          /\ stage[s] \in Holding
          /\ \E x \in Holding : stage' = [stage EXCEPT ![s] = x]
      BY <1>3 DEF Exec, ExecAdvances, ExecBegins, ExecAborts, ExecEntersLoop,
                  ExecTakesQuit, ExecLosesDecoder, DispatchDeferredCleanup,
                  Holding
    <2> QED
      BY <1>0, <2>1, HoldersKept
  <1>4. CASE Settings(s) \/ CloseSettings(s) \/ ApplySettings(s)
    BY <1>4, HoldersKept
       DEF Settings, OpenSettings, RequestDisplayReconnect, CloseSettings,
           ApplySettings, sessionVars
  <1> QED
    BY <1>1, <1>2, <1>3, <1>4

LEMMA HoldThreads ==
    ASSUME LifecycleTypeOK, OneSessionAtATime, NEW s \in Session,
           Connect(s) \/ Terminate(s) \/ Cleanup(s)
    PROVE  OneSessionAtATime'
  <1>0. stage \in [Session -> Stage]
    BY DEF LifecycleTypeOK
  <1>1. CASE Connect(s) \/ CleanupNotifies(s) \/ CleanupStops(s)
                        \/ CleanupQuitsApp(s)
    <2>1. /\ UNCHANGED <<semaphore, active>>
          /\ stage[s] \in Holding
          /\ \E x \in Holding : stage' = [stage EXCEPT ![s] = x]
      BY <1>1 DEF Connect, ConnectFails, ConnectSucceeds, CleanupNotifies,
                  CleanupStops, CleanupQuitsApp, Holding
    <2> QED
      BY <1>0, <2>1, HoldersKept
  <1>2. CASE Terminate(s)
    BY <1>2, HoldersKept
       DEF Terminate, TerminationBegins, CallbackRuns, TerminationReports,
           TerminationFlags, TerminationShowsError, TerminationPushesQuit,
           TerminationCrashes, sessionVars
  <1>3. CASE CleanupReleases(s)
    <2>1. /\ stage[s] \in Holding
          /\ semaphore' = semaphore + 1
          /\ stage' = [stage EXCEPT ![s] = "notifying"]
      BY <1>3 DEF CleanupReleases, Holding
    <2>2. semaphore = 0 /\ active = s
      BY <2>1 DEF OneSessionAtATime
    <2>3. \A t \in Session : stage'[t] \notin Holding
      <3>1. "notifying" \notin Holding
        BY DEF Holding
      <3>2. \A t \in Session : stage[t] \in Holding => t = s
        BY <2>2 DEF OneSessionAtATime
      <3> QED
        BY <1>0, <2>1, <3>1, <3>2
    <2> QED
      BY <2>1, <2>2, <2>3 DEF OneSessionAtATime
  <1>4. CASE CleanupDone(s)
    BY <1>0, <1>4, HoldersKept DEF CleanupDone, Holding
  <1> QED
    BY <1>1, <1>2, <1>3, <1>4 DEF Cleanup

HoldInv == LifecycleTypeOK /\ OneSessionAtATime

LEMMA HoldStep ==
    ASSUME HoldInv, [Next]_lifecycleVars
    PROVE  HoldInv'
  <1> USE DEF HoldInv
  <1>1. LifecycleTypeOK'
    BY TypeStep
  <1>2. CASE UNCHANGED lifecycleVars \/ TakeSignals \/ Interrupt
    BY <1>1, <1>2, HoldersKept
       DEF TakeSignals, Interrupt, lifecycleVars, sessionVars
  <1>3. ASSUME NEW s \in Session,
               \/ Construct(s) \/ UserStarts(s) \/ UserLeavesSettings(s)
               \/ SessionStep(s)
        PROVE  OneSessionAtATime'
    <2>1. \/ Construct(s) \/ StartBlocks(s) \/ StartAcquires(s)
          \/ Exec(s) \/ Settings(s) \/ CloseSettings(s) \/ ApplySettings(s)
          \/ Connect(s) \/ Terminate(s) \/ Cleanup(s)
      BY <1>3 DEF UserStarts, Start, UserLeavesSettings, SessionStep, Unblocks
    <2> QED
      BY <2>1, HoldGui, HoldThreads
  <1> QED
    BY <1>1, <1>2, <1>3 DEF Next

LEMMA HoldInit ==
    ASSUME LifecycleInit
    PROVE  HoldInv
  <1>1. \A s \in Session : stage[s] \notin Holding
    BY DEF LifecycleInit, Holding
  <1>2. semaphore = 1
    BY DEF LifecycleInit
  <1> QED
    BY <1>1, <1>2, TypeInit DEF HoldInv, OneSessionAtATime

LEMMA HoldInvariant == Spec => []HoldInv
  BY HoldInit, HoldStep, PTL DEF Spec

\* However many Sessions a process makes, one at most is between start() and
\* the end of its cleanup task, it holds the semaphore, and s_ActiveSession is
\* that one.
THEOREM OneSession == Spec => []OneSessionAtATime
  BY HoldInvariant, PTL DEF HoldInv

-----------------------------------------------------------------------------
(* Callbacks.  A connection that is up belongs to a Session between its    *)
(* connecting and LiStopConnection, which holds the semaphore.             *)

Connected == {"execQueued", "prologue", "streaming", "cleanup", "stopping",
              "quitting"}

Linked(s) ==
    /\ connection[s] = "up" => stage[s] \in Connected
    /\ stage[s] \in {"unborn", "new", "waiting", "connecting"} =>
           connection[s] = "down"

CallInv == HoldInv /\ \A s \in Session : Linked(s)

LEMMA CallSession ==
    ASSUME CallInv, NEW s \in Session,
           \/ Construct(s) \/ StartBlocks(s) \/ StartAcquires(s)
           \/ Exec(s) \/ Settings(s) \/ CloseSettings(s) \/ ApplySettings(s)
           \/ Connect(s) \/ Cleanup(s),
           NEW t \in Session
    PROVE  Linked(t)'
  <1>0. /\ stage \in [Session -> Stage]
        /\ connection \in [Session -> Connection]
        /\ Linked(s) /\ Linked(t)
    BY DEF CallInv, HoldInv, LifecycleTypeOK
  <1> USE DEF Linked, Connected, sessionVars
  <1>1. CASE Construct(s) \/ StartBlocks(s)
    BY <1>0, <1>1 DEF Construct, StartBlocks
  <1>2. CASE StartAcquires(s)
    BY <1>0, <1>2 DEF StartAcquires
  <1>3. CASE ExecBegins(s) \/ ExecAborts(s) \/ ExecEntersLoop(s)
    BY <1>0, <1>3 DEF ExecBegins, ExecAborts, ExecEntersLoop
  <1>4. CASE ExecTakesQuit(s) \/ ExecLosesDecoder(s)
    BY <1>0, <1>4 DEF ExecTakesQuit, ExecLosesDecoder, DispatchDeferredCleanup
  <1>5. CASE Settings(s) \/ CloseSettings(s) \/ ApplySettings(s)
    BY <1>0, <1>5 DEF Settings, OpenSettings, RequestDisplayReconnect,
                      CloseSettings, ApplySettings, SettingsClosed
  <1>7. CASE Connect(s)
    BY <1>0, <1>7 DEF Connect, ConnectFails, ConnectSucceeds
  <1>8. CASE CleanupNotifies(s) \/ CleanupReleases(s) \/ CleanupDone(s)
    BY <1>0, <1>8 DEF CleanupNotifies, CleanupReleases, CleanupDone
  <1>9. CASE CleanupStops(s) \/ CleanupQuitsApp(s)
    <2>1. /\ LiStopConnection(s)
          /\ stage' = [stage EXCEPT ![s] = "releasing"]
      BY <1>9 DEF CleanupStops, CleanupQuitsApp
    <2> QED
      BY <1>0, <2>1 DEF LiStopConnection
  <1> QED
    BY <1>1, <1>2, <1>3, <1>4, <1>5, <1>7, <1>8, <1>9
       DEF Exec, ExecAdvances, Cleanup

LEMMA CallTermination ==
    ASSUME CallInv, NEW s \in Session, Terminate(s), NEW t \in Session
    PROVE  Linked(t)'
  <1>0. /\ connection \in [Session -> Connection]
        /\ Linked(s) /\ Linked(t)
        /\ UNCHANGED stage
    BY DEF CallInv, HoldInv, LifecycleTypeOK, Terminate, TerminationBegins,
           CallbackRuns, TerminationReports, TerminationFlags,
           TerminationShowsError, TerminationPushesQuit, TerminationCrashes,
           sessionVars
  <1>1. /\ connection[s] # "down"
        /\ \E c \in Terminating : connection' = [connection EXCEPT ![s] = c]
    BY DEF Terminate, TerminationBegins, CallbackRuns, TerminationReports,
           TerminationFlags, TerminationShowsError, TerminationPushesQuit,
           TerminationCrashes, Follows, Terminating, Calling
  <1>2. "up" \notin Terminating
    BY DEF Terminating, Calling
  <1> QED
    BY <1>0, <1>1, <1>2 DEF Linked

LEMMA CallStep ==
    ASSUME CallInv, [Next]_lifecycleVars
    PROVE  CallInv'
  <1>1. HoldInv'
    BY HoldStep DEF CallInv
  <1>2. CASE UNCHANGED lifecycleVars \/ TakeSignals \/ Interrupt
    BY <1>1, <1>2 DEF CallInv, Linked, TakeSignals, Interrupt,
                      lifecycleVars, sessionVars
  <1>3. ASSUME NEW s \in Session,
               \/ Construct(s) \/ UserStarts(s) \/ UserLeavesSettings(s)
               \/ SessionStep(s),
               NEW t \in Session
        PROVE  Linked(t)'
    <2>1. \/ Construct(s) \/ StartBlocks(s) \/ StartAcquires(s)
          \/ Exec(s) \/ Settings(s) \/ CloseSettings(s) \/ ApplySettings(s)
          \/ Connect(s) \/ Cleanup(s) \/ Terminate(s)
      BY <1>3 DEF UserStarts, Start, UserLeavesSettings, SessionStep, Unblocks
    <2> QED
      BY <2>1, CallSession, CallTermination
  <1> QED
    BY <1>1, <1>2, <1>3 DEF Next, CallInv

LEMMA CallInit ==
    ASSUME LifecycleInit
    PROVE  CallInv
  <1>1. HoldInv
    BY HoldInit
  <1>2. \A s \in Session : connection[s] = "down"
    BY DEF LifecycleInit
  <1> QED
    BY <1>1, <1>2 DEF CallInv, Linked

LEMMA LinkedBegins ==
    ASSUME CallInv
    PROVE  CallbackBeginsForItsSession
  <1>1. Connected \subseteq Holding
    BY DEF Connected, Holding
  <1> QED
    BY <1>1 DEF CallInv, HoldInv, OneSessionAtATime, Linked,
                CallbackBeginsForItsSession

\* Whatever the library, the user and the interface do: while a connection can
\* begin a termination callback, its own Session is the active one, and the
\* semaphore keeps the next one from taking its place.
THEOREM CallbacksCorrect == Spec => []CallbackBeginsForItsSession
  BY LinkedBegins, CallInit, CallStep, PTL DEF Spec

-----------------------------------------------------------------------------
(* A lost stream.  hostQuit is set at the end of a branch that is chosen   *)
(* one step earlier, so the invariant says where the chosen branch is: a   *)
(* Session flagged in time never enters the branch that quits the          *)
(* application.  It follows the loss from the flag to the SDL_QUIT and to  *)
(* the end of the loop: while the loop can still take the event, the flag  *)
(* of the Session that lost its connection has been set.                   *)

Pushed(s) == \E i \in DOMAIN quitEvents : quitEvents[i] = s

LostStream(s) ==
    /\ hostQuit[s] => stage[s] \in {"releasing", "notifying", "done"}
    /\ flagged[s] = "in time" =>
           /\ ~hostQuit[s] /\ unexpected[s]
           /\ stage[s] \in {"streaming", "cleanup", "stopping", "releasing",
                            "notifying", "done"}
    /\ Pushed(s) => connection[s] = "terminated"
    /\ /\ connection[s] \in {"flagged", "shown"} \/ Pushed(s)
       /\ stage[s] \in {"execQueued", "prologue", "streaming"}
       => flagged[s] # "no"
    /\ s \in endedByLoss => flagged[s] # "no"

LostInv == CallInv /\ \A s \in Session : LostStream(s)

\* What a queue holds after one event more or less.
LEMMA PushedByAppend ==
    ASSUME quitEvents \in Seq(Session \cup {NoSession}),
           NEW x \in Session \cup {NoSession},
           quitEvents' = Append(quitEvents, x), NEW t \in Session
    PROVE  Pushed(t)' => Pushed(t) \/ t = x
  BY DEF Pushed

LEMMA PushedByTail ==
    ASSUME quitEvents \in Seq(Session \cup {NoSession}), quitEvents # <<>>,
           quitEvents' = Tail(quitEvents), NEW t \in Session
    PROVE  /\ Pushed(t)' => Pushed(t)
           /\ Head(quitEvents) = t => Pushed(t)
  <1>1. /\ Pushed(t)' => \E i \in 1..(Len(quitEvents) - 1) :
                             quitEvents[i + 1] = t
        /\ 1 \in DOMAIN quitEvents /\ Head(quitEvents) = quitEvents[1]
        /\ DOMAIN quitEvents = 1..Len(quitEvents) /\ Len(quitEvents) \in Nat
    BY DEF Pushed
  <1> QED
    BY <1>1 DEF Pushed

\* A step that pushes no event of a lost connection and has no part in the
\* loss keeps what is known of it.
LEMMA LostKept ==
    ASSUME LostInv, NEW t \in Session, LostStream(t),
           Pushed(t)' => Pushed(t),
           UNCHANGED <<connection, flagged, endedByLoss, hostQuit>>,
           unexpected[t] => unexpected'[t],
           stage'[t] = stage[t]
    PROVE  LostStream(t)'
  BY DEF LostStream

LEMMA QuitPushedKeeps ==
    ASSUME LostInv, QuitPushed, NEW t \in Session
    PROVE  /\ Pushed(t)' => Pushed(t)
           /\ UNCHANGED <<flagged, endedByLoss, hostQuit>>
  <1>1. quitEvents \in Seq(Session \cup {NoSession}) /\ t # NoSession
    BY SessionIsSome DEF LostInv, CallInv, HoldInv, LifecycleTypeOK
  <1>2. quitEvents' = Append(quitEvents, NoSession)
    BY DEF QuitPushed
  <1>3. Pushed(t)' => Pushed(t)
    BY <1>1, <1>2, PushedByAppend, NoSessionPushes
  <1> QED
    BY <1>3 DEF QuitPushed

\* The steps of one Session.
LEMMA LostSession ==
    ASSUME LostInv, NEW s \in Session,
           \/ Construct(s) \/ StartBlocks(s) \/ StartAcquires(s)
           \/ Exec(s) \/ Settings(s) \/ CloseSettings(s) \/ ApplySettings(s)
           \/ Connect(s) \/ Cleanup(s),
           NEW t \in Session
    PROVE  LostStream(t)'
  <1>0. /\ stage \in [Session -> Stage] /\ unexpected \in [Session -> BOOLEAN]
        /\ connection \in [Session -> Connection]
        /\ hostQuit \in [Session -> BOOLEAN]
        /\ quitEvents \in Seq(Session \cup {NoSession})
        /\ LostStream(s) /\ LostStream(t) /\ Linked(s) /\ Linked(t)
    BY DEF LostInv, CallInv, HoldInv, LifecycleTypeOK
  <1>a. UNCHANGED quitEvents => (Pushed(t)' <=> Pushed(t))
    BY DEF Pushed
  <1>1. CASE Construct(s)
    BY <1>0, <1>1, <1>a DEF Construct, LostStream, historyVars
  <1>2. CASE StartBlocks(s) \/ StartAcquires(s)
    BY <1>0, <1>2, <1>a
       DEF StartBlocks, StartAcquires, LostStream, historyVars
  <1>3. CASE ExecBegins(s) \/ ExecAborts(s)
    BY <1>0, <1>3, <1>a DEF ExecBegins, ExecAborts, LostStream, historyVars
  <1>4. CASE ExecEntersLoop(s)
    BY <1>0, <1>4, <1>a DEF ExecEntersLoop, LostStream, historyVars
  <1>5. CASE ExecTakesQuit(s)
    <2>1. /\ stage[s] = "streaming" /\ stage' = [stage EXCEPT ![s] = "cleanup"]
          /\ UNCHANGED <<unexpected, connection, flagged, hostQuit>>
          /\ quitEvents # <<>> /\ quitEvents' = Tail(quitEvents)
          /\ endedByLoss' = endedByLoss \cup ({s} \cap {Head(quitEvents)})
      BY <1>5 DEF ExecTakesQuit, QuitTaken, DispatchDeferredCleanup
    <2>2. /\ Pushed(t)' => Pushed(t)
          /\ Head(quitEvents) = t => Pushed(t)
      BY <1>0, <2>1, PushedByTail
    <2>3. t \in endedByLoss' => flagged[t] # "no"
      BY <1>0, <2>1, <2>2 DEF LostStream
    <2> QED
      BY <1>0, <2>1, <2>2, <2>3 DEF LostStream
  <1>6. CASE ExecLosesDecoder(s)
    BY <1>0, <1>6, <1>a DEF ExecLosesDecoder, DispatchDeferredCleanup,
                            LostStream, historyVars
  <1>7. CASE OpenSettings(s) \/ CloseSettings(s)
    BY <1>0, <1>7, <1>a, LostKept
       DEF OpenSettings, CloseSettings, historyVars
  <1>8. CASE RequestDisplayReconnect(s) \/ ApplySettings(s)
    <2>1. QuitPushed /\ UNCHANGED <<stage, unexpected, connection>>
      BY <1>8 DEF RequestDisplayReconnect, ApplySettings, sessionVars
    <2> QED
      BY <1>0, <2>1, LostKept, QuitPushedKeeps
  <1>9. CASE ConnectFails(s)
    BY <1>0, <1>9, <1>a DEF ConnectFails, LostStream, Linked, historyVars
  <1>10. CASE ConnectSucceeds(s)
    BY <1>0, <1>10, <1>a DEF ConnectSucceeds, LostStream, Linked, historyVars
  <1>11. CASE CleanupNotifies(s)
    BY <1>0, <1>11, <1>a DEF CleanupNotifies, ShouldQuit, LostStream,
                             historyVars
  <1>12. CASE CleanupStops(s)
    <2>1. /\ LiStopConnection(s)
          /\ stage[s] = "stopping" /\ stage' = [stage EXCEPT ![s] = "releasing"]
          /\ UNCHANGED <<unexpected, quitEvents, flagged, endedByLoss, hostQuit>>
      BY <1>12 DEF CleanupStops, historyVars
    <2>2. /\ connection'[t] \in {connection[t], "down"}
          /\ connection[t] = "terminated" => connection'[t] = "terminated"
      BY <1>0, <2>1 DEF LiStopConnection
    <2> QED
      BY <1>0, <1>a, <2>1, <2>2 DEF LostStream
  <1>13. CASE CleanupReleases(s) \/ CleanupDone(s)
    BY <1>0, <1>13, <1>a DEF CleanupReleases, CleanupDone, LostStream,
                             historyVars
  <1>14. CASE CleanupQuitsApp(s)
    <2>1. /\ LiStopConnection(s)
          /\ stage[s] = "quitting" /\ stage' = [stage EXCEPT ![s] = "releasing"]
          /\ hostQuit' = [hostQuit EXCEPT ![s] = TRUE]
          /\ UNCHANGED <<unexpected, quitEvents, flagged, endedByLoss>>
      BY <1>14 DEF CleanupQuitsApp
    <2>2. /\ connection'[t] \in {connection[t], "down"}
          /\ connection[t] = "terminated" => connection'[t] = "terminated"
      BY <1>0, <2>1 DEF LiStopConnection
    <2> QED
      BY <1>0, <1>a, <2>1, <2>2 DEF LostStream
  <1> QED
    BY <1>1, <1>2, <1>3, <1>4, <1>5, <1>6, <1>7, <1>8, <1>9, <1>10, <1>11,
       <1>12, <1>13, <1>14
       DEF Exec, ExecAdvances, Settings, Connect, Cleanup

\* The callback.  A Session that has not stopped its connection is the active
\* one: it is its own flag that its callback sets.
LEMMA LostTermination ==
    ASSUME LostInv, NEW s \in Session, Terminate(s), NEW t \in Session
    PROVE  LostStream(t)'
  <1>0. /\ stage \in [Session -> Stage] /\ unexpected \in [Session -> BOOLEAN]
        /\ connection \in [Session -> Connection]
        /\ flagged \in [Session -> {"no", "early", "in time"}]
        /\ quitEvents \in Seq(Session \cup {NoSession})
        /\ LostStream(s) /\ LostStream(t)
    BY DEF LostInv, CallInv, HoldInv, LifecycleTypeOK
  <1>a. UNCHANGED quitEvents => (Pushed(t)' <=> Pushed(t))
    BY DEF Pushed
  <1>1. CASE TerminationBegins(s) \/ TerminationReports(s)
                                  \/ TerminationCrashes(s)
    <2>1. /\ UNCHANGED <<stage, unexpected, flagged, endedByLoss, hostQuit,
                         quitEvents>>
          /\ \E c \in {"losing", "ending", "reported", "ended", "terminated"} :
                 connection' = [connection EXCEPT ![s] = c]
          /\ connection[s] # "terminated"
      BY <1>1 DEF TerminationBegins, TerminationReports, TerminationCrashes,
                  Follows, Calling, sessionVars, historyVars
    <2> QED
      BY <1>0, <1>a, <2>1 DEF LostStream
  <1>2. CASE TerminationFlags(s)
    <2>1. /\ UNCHANGED <<stage, endedByLoss, hostQuit, quitEvents>>
          /\ connection[s] = "reported" /\ active # NoSession
          /\ connection' = [connection EXCEPT ![s] = "flagged"]
          /\ unexpected' = [unexpected EXCEPT ![active] = TRUE]
          /\ flagged' = [flagged EXCEPT ![active] =
                 IF stage[active] \in {"streaming", "cleanup"} THEN "in time"
                 ELSE IF stage[active] \in {"execQueued", "prologue"}
                 THEN "early" ELSE @]
      BY <1>2 DEF TerminationFlags, Follows
    <2>2. active \in Session
      BY <2>1 DEF LostInv, CallInv, HoldInv, LifecycleTypeOK
    <2>3. stage[s] \in {"execQueued", "prologue", "streaming"} => active = s
      BY DEF LostInv, CallInv, HoldInv, OneSessionAtATime, Holding
    <2>4. CASE t # active
      BY <1>0, <1>a, <2>1, <2>3, <2>4 DEF LostStream
    <2>5. CASE t = active
      <3>1. unexpected'[t]
        BY <1>0, <2>1, <2>5
      <3>2. /\ flagged'[t] = IF stage[t] \in {"streaming", "cleanup"}
                             THEN "in time"
                             ELSE IF stage[t] \in {"execQueued", "prologue"}
                             THEN "early" ELSE flagged[t]
            /\ stage'[t] = stage[t]
        BY <1>0, <2>1, <2>5
      <3>3. connection'[t] = "terminated" <=> connection[t] = "terminated"
        BY <1>0, <2>1
      <3> QED
        BY <1>0, <1>a, <2>1, <3>1, <3>2, <3>3 DEF LostStream
    <2> QED
      BY <2>4, <2>5
  <1>3. CASE TerminationShowsError(s)
    BY <1>0, <1>3, <1>a DEF TerminationShowsError, Follows, LostStream,
                            sessionVars, historyVars
  <1>4. CASE TerminationPushesQuit(s)
    <2>1. /\ UNCHANGED <<stage, unexpected, flagged, endedByLoss, hostQuit>>
          /\ connection[s] \in {"shown", "ended"}
          /\ connection' = [connection EXCEPT ![s] = "terminated"]
          /\ quitEvents' = Append(quitEvents, IF connection[s] = "shown"
                                              THEN s ELSE NoSession)
      BY <1>4 DEF TerminationPushesQuit, sessionVars, historyVars
    <2>2. Pushed(t)' => Pushed(t) \/ (t = s /\ connection[s] = "shown")
      BY <1>0, <2>1, PushedByAppend, SessionIsSome
    <2> QED
      BY <1>0, <2>1, <2>2 DEF LostStream
  <1> QED
    BY <1>1, <1>2, <1>3, <1>4 DEF Terminate, CallbackRuns

LEMMA LostStep ==
    ASSUME LostInv, [Next]_lifecycleVars
    PROVE  LostInv'
  <1>1. CallInv'
    BY CallStep DEF LostInv
  <1>2. CASE UNCHANGED lifecycleVars \/ TakeSignals
    BY <1>1, <1>2 DEF LostInv, LostStream, Pushed, TakeSignals,
                      lifecycleVars, sessionVars, historyVars
  <1>3. CASE Interrupt
    BY <1>1, <1>3, LostKept, QuitPushedKeeps
       DEF LostInv, Interrupt, sessionVars
  <1>4. ASSUME NEW s \in Session,
               \/ Construct(s) \/ UserStarts(s) \/ UserLeavesSettings(s)
               \/ SessionStep(s),
               NEW t \in Session
        PROVE  LostStream(t)'
    <2>1. \/ Construct(s) \/ StartBlocks(s) \/ StartAcquires(s)
          \/ Exec(s) \/ Settings(s) \/ CloseSettings(s) \/ ApplySettings(s)
          \/ Connect(s) \/ Cleanup(s) \/ Terminate(s)
      BY <1>4 DEF UserStarts, Start, UserLeavesSettings, SessionStep, Unblocks
    <2> QED
      BY <2>1, LostSession, LostTermination
  <1> QED
    BY <1>1, <1>2, <1>3, <1>4 DEF Next, LostInv

LEMMA LostInit ==
    ASSUME LifecycleInit
    PROVE  LostInv
  <1>1. CallInv
    BY CallInit
  <1>2. \A s \in Session : /\ ~hostQuit[s] /\ flagged[s] = "no"
                           /\ connection[s] = "down" /\ ~Pushed(s)
                           /\ s \notin endedByLoss
    BY DEF LifecycleInit, Pushed
  <1> QED
    BY <1>1, <1>2 DEF LostInv, LostStream

LEMMA LostLeavesApp ==
    ASSUME LostInv
    PROVE  LostStreamLeavesAppRunning
  <1>1. flagged \in [Session -> {"no", "early", "in time"}]
    BY DEF LostInv, CallInv, HoldInv, LifecycleTypeOK
  <1> QED
    BY <1>1 DEF LostInv, LostStream, LostStreamLeavesAppRunning

\* Whatever the order of the callback's statements, the user's quits, the
\* events of the loop and the cleanup task, and whether or not LiStopConnection
\* waits for the callback: a loss flagged before the cleanup task looks, or
\* whose SDL_QUIT ended the loop, never has the host's application quit, except
\* when it was flagged before the loop began.
THEOREM LostStreamCorrect == Spec => []LostStreamLeavesAppRunning
  BY LostLeavesApp, LostInit, LostStep, PTL DEF Spec
=============================================================================
