---------------------------- MODULE SegueProofs ----------------------------
(***************************************************************************)
(* Proofs about the page that launches and recovers a stream, for any      *)
(* number of Sessions, of attempts and of ends, and for a library that     *)
(* waits in LiStopConnection for a callback that has begun or not.         *)
(***************************************************************************)
EXTENDS StreamSegue, SessionProofs

-----------------------------------------------------------------------------
(* The pieces of the handlers keep the page's types. *)

LEMMA WithSessionIs ==
    ASSUME NEW u \in UiState, NEW s \in Session \cup {NoSession}
    PROVE  /\ WithSession(u, s) \in UiState
           /\ WithSession(u, s).session = s
           /\ WithSession(u, s).page = u.page
           /\ WithSession(u, s).autoReconnectTimer = u.autoReconnectTimer
           /\ s # u.session => ~WithSession(u, s).recorded
           /\ s # u.session /\ s # NoSession =>
                  WithSession(u, s).state = "attempting"
           /\ s = u.session => WithSession(u, s) = u
  <1>1. CASE s = u.session
    BY <1>1 DEF WithSession
  <1>2. CASE s # u.session /\ s = NoSession
    <2>1. WithSession(u, s) = [u EXCEPT !.session = s, !.recorded = FALSE,
                                        !.state = "disconnected"]
      BY <1>2 DEF WithSession
    <2> QED
      BY <1>2, <2>1 DEF UiState, Overlay
  <1>3. CASE s # u.session /\ s # NoSession
    <2>1. WithSession(u, s) = [u EXCEPT !.session = s, !.recorded = FALSE,
                                        !.state = "attempting"]
      BY <1>3 DEF WithSession
    <2> QED
      BY <1>3, <2>1 DEF UiState, Overlay
  <1> QED
    BY <1>1, <1>2, <1>3

LEMMA AttemptIs ==
    ASSUME NEW u \in UiState
    PROVE  /\ AttemptAutoReconnect(u) \in UiState
           /\ AttemptAutoReconnect(u).session = u.session
           /\ AttemptAutoReconnect(u).page = u.page
           /\ AttemptAutoReconnect(u).recorded = u.recorded
           /\ \/ AttemptAutoReconnect(u).state = "failed"
              \/ /\ AttemptAutoReconnect(u).state = "reconnecting"
                 /\ AttemptAutoReconnect(u).autoReconnectTimer
  <1>1. CASE u.reconnectAttempt < MaxAutoReconnectAttempts
    <2>1. u.reconnectAttempt + 1 \in 0..MaxAutoReconnectAttempts
      BY <1>1, SegueAssumption DEF UiState
    <2>2. AttemptAutoReconnect(u) =
            [u EXCEPT !.reconnectAttempt = u.reconnectAttempt + 1,
                      !.state = "reconnecting", !.autoReconnectTimer = TRUE]
      BY <1>1 DEF AttemptAutoReconnect
    <2> QED
      BY <2>1, <2>2 DEF UiState, Overlay
  <1>2. CASE ~(u.reconnectAttempt < MaxAutoReconnectAttempts)
    <2>1. AttemptAutoReconnect(u) = [u EXCEPT !.state = "failed"]
      BY <1>2 DEF AttemptAutoReconnect
    <2> QED
      BY <2>1 DEF UiState, Overlay
  <1> QED
    BY <1>1, <1>2

\* No plain handler changes the Session or what is recorded.
LEMMA PlainHandlerIs ==
    ASSUME NEW u \in UiState, NEW sig \in Signal \ {"launchError",
               "sessionFinished", "readyForDeletion"}
    PROVE  /\ PlainHandler(sig, u) \in UiState
           /\ PlainHandler(sig, u).session = u.session
           /\ PlainHandler(sig, u).recorded = u.recorded
           /\ PlainHandler(sig, u).page \in {u.page, "left"}
           /\ PlainHandler(sig, u).state = "reconnecting" =>
                  \/ PlainHandler(sig, u).autoReconnectTimer
                  \/ /\ u.state = "reconnecting"
                     /\ PlainHandler(sig, u).autoReconnectTimer =
                            u.autoReconnectTimer
           /\ sig = "reconnectRequested" =>
                  PlainHandler(sig, u).state = u.state
  <1>1. CASE sig \in {"stageFailed", "terminated"}
    <2>1. PlainHandler(sig, u) =
             [AttemptAutoReconnect(u) EXCEPT !.reconnectSource = u.session]
      BY <1>1 DEF PlainHandler, OnStageFailed
    <2>2. u.session \in Session \cup {NoSession}
      BY DEF UiState
    <2> DEFINE v == AttemptAutoReconnect(u)
    <2>3. v \in UiState
      BY AttemptIs
    <2> HIDE DEF v
    <2>4. /\ [v EXCEPT !.reconnectSource = u.session] \in UiState
          /\ [v EXCEPT !.reconnectSource = u.session].session = v.session
          /\ [v EXCEPT !.reconnectSource = u.session].recorded = v.recorded
          /\ [v EXCEPT !.reconnectSource = u.session].page = v.page
          /\ [v EXCEPT !.reconnectSource = u.session].state = v.state
          /\ [v EXCEPT !.reconnectSource = u.session].autoReconnectTimer
                = v.autoReconnectTimer
      BY <2>2, <2>3 DEF UiState
    <2> QED
      BY <1>1, <2>1, <2>4, AttemptIs DEF v
  <1>2. CASE sig = "connectionStarted"
    BY <1>2 DEF PlainHandler, OnConnectionStarted, UiState, Overlay
  <1>3. CASE sig = "terminatedGracefully"
    <2>1. PlainHandler(sig, u) = [u EXCEPT !.reconnectAttempt = 0,
                                           !.state = "disconnected"]
      BY <1>3 DEF PlainHandler, OnTerminatedGracefully
    <2>2. 0 \in 0..MaxAutoReconnectAttempts
      BY SegueAssumption
    <2> QED
      BY <1>3, <2>1, <2>2 DEF UiState, Overlay
  <1>4. CASE sig = "quitStarting"
    BY <1>4 DEF PlainHandler, OnQuitStarting, UiState, Overlay
  <1>5. CASE sig = "settingsRequested"
    BY <1>5 DEF PlainHandler, UiState
  <1>6. CASE sig = "reconnectRequested"
    BY <1>6 DEF PlainHandler, OnReconnectRequested, UiState
  <1>7. sig \in {"stageFailed", "terminated", "connectionStarted",
                 "terminatedGracefully", "quitStarting", "settingsRequested",
                 "reconnectRequested"}
    BY DEF Signal
  <1> QED
    BY <1>1, <1>2, <1>3, <1>4, <1>5, <1>6, <1>7

-----------------------------------------------------------------------------
(* The queue of signals.  It grows at its end, or at its head when the GUI *)
(* thread emits, and shrinks at its head.                                  *)

\* A signal of s among those of B is in the queue.
Queued(q, s, B) ==
    \E i \in DOMAIN q : q[i].session = s /\ q[i].sig \in B

\* No signal of s among those of A is handled after the last of those of B.
Answered(q, s, A, B) ==
    \A i \in DOMAIN q :
        q[i].session = s /\ q[i].sig \in A =>
            \E j \in DOMAIN q : j >= i /\ q[j].session = s /\ q[j].sig \in B

LEMMA AppendAt ==
    ASSUME NEW S, NEW q \in Seq(S), NEW x \in S
    PROVE  /\ DOMAIN q = 1..Len(q) /\ Len(q) \in Nat
           /\ DOMAIN Append(q, x) = 1..Len(q) + 1
           /\ \A i \in DOMAIN q : Append(q, x)[i] = q[i]
           /\ Append(q, x)[Len(q) + 1] = x
  OBVIOUS

LEMMA PrependAt ==
    ASSUME NEW S, NEW q \in Seq(S), NEW x \in S
    PROVE  /\ DOMAIN (<<x>> \o q) = 1..Len(q) + 1
           /\ \A i \in DOMAIN q : (<<x>> \o q)[i + 1] = q[i]
           /\ (<<x>> \o q)[1] = x
  OBVIOUS

LEMMA TailAt ==
    ASSUME NEW S, NEW q \in Seq(S), q # <<>>
    PROVE  /\ DOMAIN q = 1..Len(q) /\ Len(q) \in Nat \ {0}
           /\ DOMAIN Tail(q) = 1..Len(q) - 1
           /\ \A i \in DOMAIN Tail(q) : Tail(q)[i] = q[i + 1]
           /\ Head(q) = q[1] /\ Head(q) \in S
  OBVIOUS

LEMMA QueuedStays ==
    ASSUME NEW S, NEW q \in Seq(S), NEW x \in S, NEW s, NEW B
    PROVE  /\ Queued(q, s, B) => Queued(Append(q, x), s, B)
           /\ Queued(q, s, B) => Queued(<<x>> \o q, s, B)
           /\ x.session = s /\ x.sig \in B => Queued(Append(q, x), s, B)
  <1>1. ASSUME Queued(q, s, B)
        PROVE  Queued(Append(q, x), s, B) /\ Queued(<<x>> \o q, s, B)
    <2>1. PICK i \in DOMAIN q : q[i].session = s /\ q[i].sig \in B
      BY <1>1 DEF Queued
    <2>2. /\ i \in DOMAIN Append(q, x) /\ Append(q, x)[i] = q[i]
          /\ i + 1 \in DOMAIN (<<x>> \o q) /\ (<<x>> \o q)[i + 1] = q[i]
      BY AppendAt, PrependAt
    <2> QED
      BY <2>1, <2>2 DEF Queued
  <1>2. ASSUME x.session = s, x.sig \in B
        PROVE  Queued(Append(q, x), s, B)
    <2>1. Len(q) + 1 \in DOMAIN Append(q, x) /\ Append(q, x)[Len(q) + 1] = x
      BY AppendAt
    <2> QED
      BY <1>2, <2>1 DEF Queued
  <1> QED
    BY <1>1, <1>2

LEMMA QueuedInTail ==
    ASSUME NEW S, NEW q \in Seq(S), q # <<>>, NEW s, NEW B, Queued(q, s, B),
           ~(Head(q).session = s /\ Head(q).sig \in B)
    PROVE  Queued(Tail(q), s, B)
  <1>1. PICK i \in DOMAIN q : q[i].session = s /\ q[i].sig \in B
    BY DEF Queued
  <1>2. i # 1
    BY <1>1, TailAt
  <1>3. i - 1 \in DOMAIN Tail(q) /\ Tail(q)[i - 1] = q[i]
    BY <1>2, TailAt
  <1> QED
    BY <1>1, <1>3 DEF Queued

LEMMA AnsweredAppend ==
    ASSUME NEW S, NEW q \in Seq(S), NEW x \in S, NEW s, NEW A, NEW B,
           Answered(q, s, A, B),
           x.session = s /\ x.sig \in A => x.sig \in B
    PROVE  Answered(Append(q, x), s, A, B)
  <1> DEFINE r == Append(q, x)
  <1> SUFFICES ASSUME NEW i \in DOMAIN r, r[i].session = s, r[i].sig \in A
               PROVE  \E j \in DOMAIN r :
                          j >= i /\ r[j].session = s /\ r[j].sig \in B
    BY DEF Answered
  <1>1. CASE i = Len(q) + 1
    BY <1>1, AppendAt
  <1>2. CASE i # Len(q) + 1
    <2>1. i \in DOMAIN q /\ r[i] = q[i]
      BY <1>2, AppendAt
    <2>2. PICK j \in DOMAIN q :
              j >= i /\ q[j].session = s /\ q[j].sig \in B
      BY <2>1 DEF Answered
    <2>3. j \in DOMAIN r /\ r[j] = q[j]
      BY AppendAt
    <2> QED
      BY <2>2, <2>3
  <1> QED
    BY <1>1, <1>2

\* The last signal answers all those before it.
LEMMA AnsweredByLast ==
    ASSUME NEW S, NEW q \in Seq(S), NEW x \in S, NEW s, NEW A, NEW B,
           x.session = s, x.sig \in B
    PROVE  Answered(Append(q, x), s, A, B)
  <1>1. /\ Len(q) + 1 \in DOMAIN Append(q, x)
        /\ Append(q, x)[Len(q) + 1] = x
        /\ \A i \in DOMAIN Append(q, x) : Len(q) + 1 >= i
    BY AppendAt
  <1> QED
    BY <1>1 DEF Answered

LEMMA AnsweredPrepend ==
    ASSUME NEW S, NEW q \in Seq(S), NEW x \in S, NEW s, NEW A, NEW B,
           Answered(q, s, A, B),
           x.session = s /\ x.sig \in A => x.sig \in B
    PROVE  Answered(<<x>> \o q, s, A, B)
  <1> DEFINE r == <<x>> \o q
  <1> SUFFICES ASSUME NEW i \in DOMAIN r, r[i].session = s, r[i].sig \in A
               PROVE  \E j \in DOMAIN r :
                          j >= i /\ r[j].session = s /\ r[j].sig \in B
    BY DEF Answered
  <1>0. DOMAIN q = 1..Len(q) /\ Len(q) \in Nat /\ DOMAIN r = 1..Len(q) + 1
    BY AppendAt, PrependAt
  <1>1. CASE i = 1
    BY <1>1, PrependAt
  <1>2. CASE i # 1
    <2>1. i - 1 \in DOMAIN q /\ i = (i - 1) + 1
      BY <1>0, <1>2
    <2>2. r[i] = q[i - 1]
      BY <2>1, PrependAt
    <2>3. PICK j \in DOMAIN q :
              j >= i - 1 /\ q[j].session = s /\ q[j].sig \in B
      BY <2>1, <2>2 DEF Answered
    <2>4. j + 1 \in DOMAIN r /\ r[j + 1] = q[j] /\ j + 1 >= i
      BY <1>0, <2>1, <2>3, PrependAt
    <2> QED
      BY <2>3, <2>4
  <1> QED
    BY <1>1, <1>2

LEMMA AnsweredInTail ==
    ASSUME NEW S, NEW q \in Seq(S), q # <<>>, NEW s, NEW A, NEW B,
           Answered(q, s, A, B)
    PROVE  Answered(Tail(q), s, A, B)
  <1> DEFINE r == Tail(q)
  <1> SUFFICES ASSUME NEW i \in DOMAIN r, r[i].session = s, r[i].sig \in A
               PROVE  \E j \in DOMAIN r :
                          j >= i /\ r[j].session = s /\ r[j].sig \in B
    BY DEF Answered
  <1>0. DOMAIN q = 1..Len(q) /\ Len(q) \in Nat /\ DOMAIN r = 1..Len(q) - 1
    BY TailAt
  <1>1. i + 1 \in DOMAIN q /\ r[i] = q[i + 1]
    BY <1>0, TailAt
  <1>2. PICK j \in DOMAIN q :
            j >= i + 1 /\ q[j].session = s /\ q[j].sig \in B
    BY <1>1 DEF Answered
  <1>3. j - 1 \in DOMAIN r /\ j = (j - 1) + 1 /\ j - 1 >= i
    BY <1>0, <1>2
  <1>4. r[j - 1] = q[j]
    BY <1>3, TailAt
  <1> QED
    BY <1>2, <1>3, <1>4

-----------------------------------------------------------------------------
(* What the Sessions owe the page, whatever the page does.                 *)

\* The cleanup has not emitted sessionFinished yet.
Unfinished == {"unborn", "new", "waiting", "connecting", "execQueued",
               "prologue", "streaming", "cleanup", "quitting"}

\* The signal on which the page records the outcome, if nothing did before.
Finish == {"sessionFinished"}

\* The last signal of a Session, but for what the page itself asks of it.
Ready == {"readyForDeletion"}
BeforeReady == Signal \ {"reconnectRequested"}

Owes(s) == stage[s] = "done" => Answered(signals, s, BeforeReady, Ready)

ActiveHolds == active # NoSession => stage[active] \in Holding

SignalInv ==
    /\ HoldInv
    /\ ActiveHolds
    /\ \A s \in Session : Owes(s)

\* What a step of the Sessions does for the page.
Delivers(t) ==
    /\ stage'[t] = "unborn" => stage[t] = "unborn"
    /\ stage[t] \in Unfinished =>
           stage'[t] \in Unfinished \/ Queued(signals', t, Finish)
    /\ stage'[t] = "done" => stage[t] = "done" \/ Queued(signals', t, Ready)
    /\ Queued(signals, t, Finish) => Queued(signals', t, Finish)
    /\ Queued(signals, t, Ready) => Queued(signals', t, Ready)

\* A step of the stage that emits neither sessionFinished nor readyForDeletion.
Quiet(t) ==
    /\ stage'[t] = "unborn" => stage[t] = "unborn"
    /\ stage[t] \in Unfinished => stage'[t] \in Unfinished
    /\ stage'[t] = "done" <=> stage[t] = "done"

LEMMA SilentStep ==
    ASSUME NEW t \in Session, Owes(t), Quiet(t), signals' = signals
    PROVE  Delivers(t) /\ Owes(t)'
  BY DEF Owes, Quiet, Delivers

\* The page is connected to every signal: nothing that is emitted is dropped.
LEMMA EmissionsQueued ==
    ASSUME NEW S, signals \in Seq(S), NEW sig \in Signal, NEW x,
           [sig |-> sig, session |-> x] \in S
    PROVE  /\ Emit(sig, x) = Append(signals, [sig |-> sig, session |-> x])
           /\ EmitDirectly(sig, x) = <<[sig |-> sig, session |-> x]>> \o signals
  <1>1. sig \in Handled
    BY SegueAssumption
  <1>2. ASSUME NEW q \in Seq(S), NEW m \in S
        PROVE  q \o <<m>> = Append(q, m)
    OBVIOUS
  <1> QED
    BY <1>1, <1>2 DEF Emit, EmitDirectly, Calls

\* One signal, of the Session x.
LEMMA OneSignal ==
    ASSUME NEW t \in Session, Owes(t), Quiet(t),
           NEW x \in Session, NEW sig \in Signal,
           signals \in Seq([sig : Signal, session : Session]),
           signals' \in {Emit(sig, x), EmitDirectly(sig, x)},
           stage[x] = "done" => sig = "reconnectRequested"
    PROVE  Delivers(t) /\ Owes(t)'
  <1> DEFINE S == [sig : Signal, session : Session]
             m == [sig |-> sig, session |-> x]
  <1>1. m \in S /\ m.sig = sig /\ m.session = x /\ signals \in Seq(S)
    OBVIOUS
  <1> HIDE DEF S, m
  <1>2. signals' \in {Append(signals, m), <<m>> \o signals}
    BY <1>1, EmissionsQueued DEF m
  <1>3. /\ Queued(signals, t, Finish) => Queued(signals', t, Finish)
        /\ Queued(signals, t, Ready) => Queued(signals', t, Ready)
    BY <1>1, <1>2, QueuedStays
  <1>5. ASSUME stage'[t] = "done"
        PROVE  Answered(signals', t, BeforeReady, Ready)
    <2>1. Answered(signals, t, BeforeReady, Ready)
      BY <1>5 DEF Owes, Quiet
    <2>2. m.session = t /\ m.sig \in BeforeReady => m.sig \in Ready
      BY <1>1, <1>5 DEF BeforeReady, Quiet
    <2> QED
      BY <1>1, <1>2, <2>1, <2>2, AnsweredAppend, AnsweredPrepend
  <1> QED
    BY <1>3, <1>5 DEF Owes, Delivers, Quiet

\* A signal that answers: sessionFinished or readyForDeletion of x, from the
\* cleanup of x.
LEMMA Announces ==
    ASSUME NEW t \in Session, Owes(t),
           NEW x \in Session, NEW sig \in {"sessionFinished",
                                           "readyForDeletion"},
           signals \in Seq([sig : Signal, session : Session]),
           signals' = Emit(sig, x),
           t # x => stage'[t] = stage[t],
           stage[x] \notin {"unborn", "done"}, stage'[x] # "unborn",
           sig = "readyForDeletion" => stage[x] \notin Unfinished,
           stage'[x] = "done" <=> sig = "readyForDeletion"
    PROVE  Delivers(t) /\ Owes(t)'
  <1> DEFINE S == [sig : Signal, session : Session]
             m == [sig |-> sig, session |-> x]
  <1>1. m \in S /\ m.sig = sig /\ m.session = x /\ signals \in Seq(S)
    BY DEF Signal
  <1> HIDE DEF S, m
  <1>2. signals' = Append(signals, m)
    BY <1>1, EmissionsQueued DEF m, Signal
  <1>3. /\ Queued(signals, t, Finish) => Queued(signals', t, Finish)
        /\ Queued(signals, t, Ready) => Queued(signals', t, Ready)
    BY <1>1, <1>2, QueuedStays
  <1>4. ASSUME t # x
        PROVE  Delivers(t) /\ Owes(t)'
    <2>1. ASSUME NEW A, NEW B, Answered(signals, t, A, B)
          PROVE  Answered(signals', t, A, B)
      BY <1>1, <1>2, <1>4, <2>1, AnsweredAppend
    <2> QED
      BY <1>3, <1>4, <2>1 DEF Owes, Delivers
  <1>5. ASSUME t = x, sig = "sessionFinished"
        PROVE  Delivers(t) /\ Owes(t)'
    <2>1. m.session = t /\ m.sig \in Finish
      BY <1>1, <1>5 DEF Finish
    <2>2. Queued(signals', t, Finish)
      BY <1>1, <1>2, <2>1, QueuedStays
    <2> QED
      BY <1>3, <1>5, <2>2 DEF Owes, Delivers
  <1>6. ASSUME t = x, sig = "readyForDeletion"
        PROVE  Delivers(t) /\ Owes(t)'
    <2>1. m.session = t /\ m.sig \in Ready
      BY <1>1, <1>6 DEF Ready
    <2>2. /\ Queued(signals', t, Ready)
          /\ Answered(signals', t, BeforeReady, Ready)
      BY <1>1, <1>2, <2>1, QueuedStays, AnsweredByLast
    <2> QED
      BY <1>3, <1>6, <2>2 DEF Owes, Delivers
  <1> QED
    BY <1>4, <1>5, <1>6

LEMMA DeliversGui ==
    ASSUME SignalInv, NEW s \in Session,
           \/ Construct(s) \/ StartBlocks(s) \/ StartAcquires(s)
           \/ Exec(s) \/ Settings(s) \/ CloseSettings(s) \/ ApplySettings(s),
           NEW t \in Session
    PROVE  Delivers(t) /\ Owes(t)' /\ ActiveHolds'
  <1>0. /\ stage \in [Session -> Stage] /\ Owes(t) /\ HoldInv
        /\ signals \in Seq([sig : Signal, session : Session])
    BY DEF SignalInv, HoldInv, LifecycleTypeOK
  <1>a. active # NoSession => stage[active] \in Holding
    BY DEF SignalInv, ActiveHolds
  <1>b. active \in Session \cup {NoSession}
    BY DEF SignalInv, HoldInv, LifecycleTypeOK
  <1>c. {"launchError", "settingsRequested", "reconnectRequested"}
            \subseteq Signal
    BY DEF Signal
  <1>1. CASE Construct(s) \/ StartBlocks(s)
    <2>1. /\ UNCHANGED <<signals, active>>
          /\ stage[s] \in {"unborn", "new"}
          /\ \E x \in {"new", "waiting"} : stage' = [stage EXCEPT ![s] = x]
      BY <1>1 DEF Construct, StartBlocks
    <2>2. Quiet(t)
      BY <1>0, <2>1 DEF Quiet, Unfinished
    <2>3. ActiveHolds'
      BY <1>0, <1>a, <1>b, <2>1 DEF ActiveHolds, Holding
    <2> QED
      BY <1>0, <2>1, <2>2, <2>3, SilentStep
  <1>2. CASE StartAcquires(s)
    <2>1. /\ signals' = signals /\ active' = s
          /\ stage[s] \in {"new", "waiting"}
          /\ stage' = [stage EXCEPT ![s] = "connecting"]
      BY <1>2 DEF StartAcquires
    <2>2. Quiet(t)
      BY <1>0, <2>1 DEF Quiet, Unfinished
    <2>3. ActiveHolds'
      BY <1>0, <2>1 DEF ActiveHolds, Holding
    <2> QED
      BY <1>0, <2>1, <2>2, <2>3, SilentStep
  <1>3. CASE Exec(s)
    <2>1. /\ UNCHANGED active
          /\ stage[s] \in {"execQueued", "prologue", "streaming"}
          /\ \E x \in {"prologue", "streaming", "cleanup"} :
                 stage' = [stage EXCEPT ![s] = x]
          /\ signals' = signals \/ signals' = EmitDirectly("launchError", s)
      BY <1>3 DEF Exec, ExecAdvances, ExecBegins, ExecAborts, ExecEntersLoop,
                  ExecTakesQuit, ExecLosesDecoder, DispatchDeferredCleanup
    <2>2. Quiet(t)
      BY <1>0, <2>1 DEF Quiet, Unfinished
    <2>3. ActiveHolds'
      BY <1>0, <1>a, <1>b, <2>1 DEF ActiveHolds, Holding
    <2>4. CASE signals' = signals
      BY <1>0, <2>2, <2>3, <2>4, SilentStep
    <2>5. CASE signals' = EmitDirectly("launchError", s)
      BY <1>0, <1>c, <2>1, <2>2, <2>3, <2>5, OneSignal
    <2> QED
      BY <2>1, <2>4, <2>5
  <1>4. CASE Settings(s) \/ CloseSettings(s) \/ ApplySettings(s)
    <2>1. UNCHANGED <<stage, active>>
      BY <1>4 DEF Settings, OpenSettings, RequestDisplayReconnect,
                  CloseSettings, ApplySettings, sessionVars
    <2>2. \/ signals' = signals
          \/ /\ signals' = EmitDirectly("settingsRequested", s)
             /\ stage[s] = "streaming"
          \/ signals' = EmitDirectly("reconnectRequested", s)
      BY <1>4 DEF Settings, OpenSettings, RequestDisplayReconnect,
                  CloseSettings, ApplySettings
    <2>3. Quiet(t) /\ ActiveHolds'
      BY <1>a, <2>1 DEF Quiet, ActiveHolds
    <2>4. CASE signals' = signals
      BY <1>0, <2>3, <2>4, SilentStep
    <2>5. ASSUME NEW sig \in {"settingsRequested", "reconnectRequested"},
                 signals' = EmitDirectly(sig, s),
                 stage[s] = "done" => sig = "reconnectRequested"
          PROVE  Delivers(t) /\ Owes(t)'
      <3>1. sig \in Signal
        BY <1>c, <2>5
      <3> QED
        BY <1>0, <2>3, <2>5, <3>1, OneSignal
    <2> QED
      BY <2>2, <2>3, <2>4, <2>5
  <1> QED
    BY <1>1, <1>2, <1>3, <1>4

\* The connection thread and the library.  The callback emits for the active
\* Session, whose cleanup is not over, whichever Session that is.
LEMMA DeliversConnection ==
    ASSUME SignalInv, NEW s \in Session, Connect(s) \/ Terminate(s),
           NEW t \in Session
    PROVE  Delivers(t) /\ Owes(t)' /\ ActiveHolds'
  <1>0. /\ stage \in [Session -> Stage] /\ Owes(t) /\ HoldInv
        /\ signals \in Seq([sig : Signal, session : Session])
    BY DEF SignalInv, HoldInv, LifecycleTypeOK
  <1>a. active # NoSession => stage[active] \in Holding
    BY DEF SignalInv, ActiveHolds
  <1>b. active \in Session \cup {NoSession}
    BY DEF SignalInv, HoldInv, LifecycleTypeOK
  <1>c. {"launchError", "stageFailed", "connectionStarted", "terminated",
         "terminatedGracefully"} \subseteq Signal
    BY DEF Signal
  <1>1. CASE Connect(s)
    <2>1. /\ UNCHANGED active
          /\ stage[s] = "connecting"
          /\ stage' = [stage EXCEPT ![s] = "execQueued"]
      BY <1>1 DEF Connect, ConnectFails, ConnectSucceeds
    <2>2. PICK sig \in {"launchError", "stageFailed", "connectionStarted"} :
              signals' = Emit(sig, s)
      BY <1>1 DEF Connect, ConnectFails, ConnectSucceeds
    <2>3. Quiet(t) /\ stage'[s] \in Unfinished
      BY <1>0, <2>1 DEF Quiet, Unfinished
    <2>4. ActiveHolds'
      BY <1>0, <1>a, <1>b, <2>1 DEF ActiveHolds, Holding
    <2>5. sig \in Signal
      BY <1>c
    <2>6. stage[s] # "done"
      BY <2>1
    <2> QED
      BY <1>0, <2>2, <2>3, <2>4, <2>5, <2>6, OneSignal
  <1>2. CASE Terminate(s)
    <2>1. UNCHANGED <<stage, active>>
      BY <1>2 DEF Terminate, TerminationBegins, CallbackRuns,
                  TerminationReports, TerminationFlags,
                  TerminationShowsError, TerminationPushesQuit,
                  TerminationCrashes, sessionVars
    <2>2. Quiet(t) /\ ActiveHolds'
      BY <1>a, <2>1 DEF Quiet, ActiveHolds
    <2>3. \/ signals' = signals
          \/ /\ active # NoSession
             /\ \E sig \in {"terminatedGracefully", "terminated",
                            "launchError"} : signals' = Emit(sig, active)
      BY <1>2 DEF Terminate, TerminationBegins, CallbackRuns,
                  TerminationReports, TerminationFlags,
                  TerminationShowsError, TerminationPushesQuit,
                  TerminationCrashes, Follows
    <2>4. CASE signals' = signals
      BY <1>0, <2>2, <2>4, SilentStep
    <2>5. ASSUME active # NoSession,
                 NEW sig \in {"terminatedGracefully", "terminated",
                              "launchError"},
                 signals' = Emit(sig, active)
          PROVE  Delivers(t) /\ Owes(t)'
      <3>1. active \in Session /\ stage[active] # "done"
        BY <1>a, <1>b, <2>5 DEF Holding
      <3>2. sig \in Signal
        BY <1>c
      <3> QED
        BY <1>0, <2>2, <2>5, <3>1, <3>2, OneSignal
    <2> QED
      BY <2>2, <2>3, <2>4, <2>5
  <1> QED
    BY <1>1, <1>2

LEMMA DeliversCleanup ==
    ASSUME SignalInv, NEW s \in Session, Cleanup(s), NEW t \in Session
    PROVE  Delivers(t) /\ Owes(t)' /\ ActiveHolds'
  <1>0. /\ stage \in [Session -> Stage] /\ Owes(t) /\ HoldInv
        /\ signals \in Seq([sig : Signal, session : Session])
    BY DEF SignalInv, HoldInv, LifecycleTypeOK
  <1>a. active # NoSession => stage[active] \in Holding
    BY DEF SignalInv, ActiveHolds
  <1>b. active \in Session \cup {NoSession}
    BY DEF SignalInv, HoldInv, LifecycleTypeOK
  <1>1. CASE CleanupNotifies(s) /\ ShouldQuit(s)
    <2>1. /\ signals' = Emit("quitStarting", s) /\ UNCHANGED active
          /\ stage[s] = "cleanup"
          /\ stage' = [stage EXCEPT ![s] = "quitting"]
      BY <1>1 DEF CleanupNotifies
    <2>2. Quiet(t) /\ "quitStarting" \in Signal
      BY <1>0, <2>1 DEF Quiet, Unfinished, Signal
    <2>3. ActiveHolds'
      BY <1>0, <1>a, <1>b, <2>1 DEF ActiveHolds, Holding
    <2> QED
      BY <1>0, <2>1, <2>2, <2>3, OneSignal
  <1>2. CASE \/ CleanupNotifies(s) /\ ~ShouldQuit(s)
             \/ CleanupQuitsApp(s)
    <2>1. /\ signals' = Emit("sessionFinished", s) /\ UNCHANGED active
          /\ stage[s] \in {"cleanup", "quitting"}
          /\ \E x \in {"stopping", "releasing"} :
                 stage' = [stage EXCEPT ![s] = x]
      BY <1>2 DEF CleanupNotifies, CleanupQuitsApp
    <2>2. /\ t # s => stage'[t] = stage[t]
          /\ stage'[s] \in {"stopping", "releasing"}
          /\ stage[s] \notin {"unborn", "done"}
      BY <1>0, <2>1
    <2>3. ActiveHolds'
      BY <1>0, <1>a, <1>b, <2>1 DEF ActiveHolds, Holding
    <2> QED
      BY <1>0, <2>1, <2>2, <2>3, Announces
  <1>3. CASE CleanupStops(s)
    <2>1. /\ UNCHANGED <<signals, active>>
          /\ stage[s] = "stopping"
          /\ stage' = [stage EXCEPT ![s] = "releasing"]
      BY <1>3 DEF CleanupStops
    <2>2. Quiet(t)
      BY <1>0, <2>1 DEF Quiet, Unfinished
    <2>3. ActiveHolds'
      BY <1>0, <1>a, <1>b, <2>1 DEF ActiveHolds, Holding
    <2> QED
      BY <1>0, <2>1, <2>2, <2>3, SilentStep
  <1>4. CASE CleanupReleases(s)
    <2>1. /\ UNCHANGED signals /\ active' = NoSession
          /\ stage[s] = "releasing"
          /\ stage' = [stage EXCEPT ![s] = "notifying"]
      BY <1>4 DEF CleanupReleases
    <2>2. Quiet(t) /\ ActiveHolds'
      BY <1>0, <2>1 DEF Quiet, Unfinished, ActiveHolds
    <2> QED
      BY <1>0, <2>1, <2>2, SilentStep
  <1>5. CASE CleanupDone(s)
    <2>1. /\ signals' = Emit("readyForDeletion", s) /\ UNCHANGED active
          /\ stage[s] = "notifying"
          /\ stage' = [stage EXCEPT ![s] = "done"]
      BY <1>5 DEF CleanupDone
    <2>2. /\ t # s => stage'[t] = stage[t]
          /\ stage'[s] = "done"
          /\ stage[s] \notin Unfinished /\ stage[s] # "unborn"
          /\ stage[s] # "done" /\ stage[s] \notin Holding
      BY <1>0, <2>1 DEF Unfinished, Holding
    <2>3. ActiveHolds'
      BY <1>0, <1>a, <1>b, <2>1, <2>2 DEF ActiveHolds
    <2> QED
      BY <1>0, <2>1, <2>2, <2>3, Announces
  <1> QED
    BY <1>1, <1>2, <1>3, <1>4, <1>5 DEF Cleanup

LEMMA SignalStep ==
    ASSUME SignalInv, NEW s \in Session,
           \/ Construct(s) \/ StartBlocks(s) \/ StartAcquires(s)
           \/ Exec(s) \/ Settings(s) \/ CloseSettings(s) \/ ApplySettings(s)
           \/ Connect(s) \/ Terminate(s) \/ Cleanup(s)
    PROVE  SignalInv' /\ \A t \in Session : Delivers(t)
  <1>1. HoldInv'
    BY TypeGui, TypeThreads, HoldGui, HoldThreads DEF SignalInv, HoldInv
  <1>2. \A t \in Session : Delivers(t) /\ Owes(t)' /\ ActiveHolds'
    BY DeliversGui, DeliversConnection, DeliversCleanup
  <1>3. ActiveHolds'
    BY <1>2, SessionAssumption DEF Session
  <1> QED
    BY <1>1, <1>2, <1>3 DEF SignalInv

\* A step of the GUI thread that dispatches the signal at the head, and may
\* construct a Session.
LEMMA SignalDispatched ==
    ASSUME SignalInv, signals # <<>>, signals' = Tail(signals),
           UNCHANGED <<success, inputHandler, settingsOpen, connection,
                       semaphore, active, quitEvents, crashed, historyVars>>,
           \/ UNCHANGED <<stage, unexpected>>
           \/ \E s \in Session :
                  /\ stage[s] = "unborn"
                  /\ stage' = [stage EXCEPT ![s] = "new"]
                  /\ unexpected' = [unexpected EXCEPT ![s] = TRUE]
    PROVE  SignalInv'
  <1> DEFINE S == [sig : Signal, session : Session]
  <1>0. /\ stage \in [Session -> Stage] /\ signals \in Seq(S)
        /\ unexpected \in [Session -> BOOLEAN]
        /\ LifecycleTypeOK /\ OneSessionAtATime /\ ActiveHolds
        /\ active \in Session \cup {NoSession}
    BY DEF SignalInv, HoldInv, LifecycleTypeOK
  <1>1. signals' \in Seq(S)
    BY <1>0, QueueTypes
  <1> HIDE DEF S
  <1>2. stage' \in [Session -> Stage] /\ unexpected' \in [Session -> BOOLEAN]
    BY <1>0, StageNames
  <1>3. LifecycleTypeOK'
    BY <1>0, <1>1, <1>2 DEF LifecycleTypeOK, historyVars, S
  <1>4. \A t \in Session :
            \/ stage'[t] = stage[t]
            \/ stage[t] = "unborn" /\ stage'[t] = "new"
    BY <1>0
  <1>5. \A t \in Session : stage'[t] \in Holding <=> stage[t] \in Holding
    BY <1>4 DEF Holding
  <1>6. OneSessionAtATime' /\ ActiveHolds'
    BY <1>0, <1>5, HoldersKept DEF ActiveHolds
  <1>7. ASSUME NEW t \in Session
        PROVE  Owes(t)'
    <2>1. ASSUME NEW A, NEW B, Answered(signals, t, A, B)
          PROVE  Answered(signals', t, A, B)
      BY <1>0, <2>1, AnsweredInTail
    <2>2. Owes(t)
      BY DEF SignalInv
    <2>3. stage'[t] = "done" <=> stage[t] = "done"
      BY <1>4
    <2> QED
      BY <2>1, <2>2, <2>3 DEF Owes
  <1> QED
    BY <1>3, <1>6, <1>7 DEF SignalInv, HoldInv

LEMMA SignalInit ==
    ASSUME LifecycleInit
    PROVE  SignalInv
  <1>1. \A s \in Session : stage[s] \in Unfinished /\ stage[s] # "done"
    BY DEF LifecycleInit, Unfinished
  <1>2. active = NoSession
    BY DEF LifecycleInit
  <1> QED
    BY <1>1, <1>2, HoldInit DEF SignalInv, ActiveHolds, Owes

-----------------------------------------------------------------------------
(* The page.                                                               *)

Deletions == [Session -> {"no", "posted", "done"}]

PageTypes ==
    /\ ui \in UiState
    /\ outcomes \in [Session -> Nat]
    /\ deletion \in Deletions

\* The page's flag agrees with what was recorded, and a Session comes to the
\* page with nothing on record.
RecordsAgree ==
    /\ \A s \in Session :
           stage[s] = "unborn" => outcomes[s] = 0 /\ ui.session # s
    /\ ui.session # NoSession =>
           outcomes[ui.session] = IF ui.recorded THEN 1 ELSE 0
    /\ OneOutcomePerSession

\* The page's Session is on record, or will be: it has yet to finish, or its
\* sessionFinished is queued.
FinishKept ==
    ui.session # NoSession =>
        \/ ui.recorded
        \/ stage[ui.session] \in Unfinished
        \/ Queued(signals, ui.session, Finish)

\* When its Session has been handled to the end the page recovers or is left.
EndSeen ==
    ui.session # NoSession /\ stage[ui.session] = "done" =>
        \/ Queued(signals, ui.session, Ready)
        \/ WantsRecovery(ui)
        \/ ui.page = "left"

TimerRuns ==
    ui.state = "reconnecting" => ui.autoReconnectTimer \/ ui.page = "left"

PageInv ==
    /\ SignalInv
    /\ PageTypes
    /\ RecordsAgree
    /\ FinishKept
    /\ EndSeen
    /\ TimerRuns

LEMMA PageInit ==
    ASSUME SegueInit
    PROVE  PageInv
  <1>1. SignalInv
    BY SignalInit DEF SegueInit
  <1>2. 0 \in 0..MaxAutoReconnectAttempts /\ 0 \in Nat
    BY SegueAssumption
  <1>3. PageTypes
    BY <1>2 DEF SegueInit, PageTypes, Deletions, UiState, Overlay
  <1>4. /\ ui.session = NoSession /\ ui.state = "disconnected"
        /\ \A s \in Session : outcomes[s] = 0
    BY DEF SegueInit
  <1>5. RecordsAgree
    BY <1>4, SessionIsSome DEF RecordsAgree, OneOutcomePerSession
  <1> QED
    BY <1>1, <1>3, <1>4, <1>5
       DEF PageInv, FinishKept, EndSeen, TimerRuns

\* A step after which the page shows what it showed.
LEMMA PageStays ==
    ASSUME PageInv, SignalInv', \A t \in Session : Delivers(t),
           PageTypes', outcomes' = outcomes,
           ui'.session = ui.session, ui'.recorded = ui.recorded,
           ui'.state = ui.state, ui'.page = ui.page,
           ui'.autoReconnectTimer = ui.autoReconnectTimer
    PROVE  PageInv'
  <1>1. ui.session \in Session \cup {NoSession}
    BY DEF PageInv, PageTypes, UiState
  <1>2. RecordsAgree'
    BY DEF PageInv, RecordsAgree, OneOutcomePerSession, Delivers
  <1>3. FinishKept' /\ EndSeen'
    BY <1>1 DEF PageInv, FinishKept, EndSeen, Delivers, WantsRecovery
  <1>4. TimerRuns'
    BY DEF PageInv, TimerRuns
  <1> QED
    BY <1>2, <1>3, <1>4 DEF PageInv

\* A step that gives the page a Session it constructs.
LEMMA PageReplaces ==
    ASSUME PageInv, SignalInv', NEW s \in Session,
           stage[s] = "unborn", stage' = [stage EXCEPT ![s] = "new"],
           PageTypes', outcomes' = outcomes,
           ui'.session = s, ~ui'.recorded, ui'.state = "attempting"
    PROVE  PageInv'
  <1>1. stage \in [Session -> Stage]
    BY DEF PageInv, SignalInv, HoldInv, LifecycleTypeOK
  <1>2. outcomes[s] = 0 /\ OneOutcomePerSession
    BY DEF PageInv, RecordsAgree
  <1>3. \A t \in Session : stage'[t] = "unborn" => stage[t] = "unborn" /\ t # s
    BY <1>1
  <1>4. RecordsAgree'
    BY <1>2, <1>3 DEF PageInv, RecordsAgree, OneOutcomePerSession
  <1>5. stage'[s] = "new"
    BY <1>1
  <1>6. FinishKept' /\ EndSeen' /\ TimerRuns'
    BY <1>5 DEF FinishKept, EndSeen, TimerRuns, Unfinished
  <1> QED
    BY <1>4, <1>6 DEF PageInv

\* A step after which the page has no Session.
LEMMA PageLetsGo ==
    ASSUME PageInv, SignalInv', UNCHANGED <<stage, outcomes>>,
           PageTypes', ui'.session = NoSession, TimerRuns'
    PROVE  PageInv'
  <1>1. RecordsAgree'
    BY SessionIsSome DEF PageInv, RecordsAgree, OneOutcomePerSession
  <1> QED
    BY <1>1 DEF PageInv, FinishKept, EndSeen

\* recordOutcome, from a state of the page with the Session it has.
LEMMA RecordOutcomeIs ==
    ASSUME PageInv, NEW u \in UiState, u.session = ui.session,
           u.recorded = ui.recorded, RecordOutcome(u), UNCHANGED stage
    PROVE  /\ ui' \in UiState /\ outcomes' \in [Session -> Nat]
           /\ ui'.session = u.session /\ ui'.state = u.state
           /\ ui'.page = u.page
           /\ ui'.autoReconnectTimer = u.autoReconnectTimer
           /\ u.session # NoSession => ui'.recorded
           /\ RecordsAgree'
  <1>0. /\ outcomes \in [Session -> Nat] /\ RecordsAgree
        /\ u.session \in Session \cup {NoSession} /\ u.recorded \in BOOLEAN
    BY DEF PageInv, PageTypes, UiState
  <1>1. ui' = [u EXCEPT !.recorded = u.recorded \/ Records(u)]
    BY DEF RecordOutcome
  <1>2. /\ ui' \in UiState
        /\ ui'.session = u.session /\ ui'.state = u.state
        /\ ui'.page = u.page
        /\ ui'.autoReconnectTimer = u.autoReconnectTimer
        /\ ui'.recorded <=> u.recorded \/ Records(u)
    BY <1>1 DEF UiState, Records
  <1>3. CASE Records(u)
    <2>1. /\ u.session # NoSession /\ u.session \in Session /\ ~u.recorded
      BY <1>0, <1>3 DEF Records
    <2>2. outcomes[u.session] = 0
      BY <1>0, <2>1 DEF RecordsAgree
    <2>3. outcomes' = [outcomes EXCEPT ![u.session] = outcomes[u.session] + 1]
      BY <1>3 DEF RecordOutcome
    <2>4. /\ outcomes' \in [Session -> Nat]
          /\ outcomes'[u.session] = 1
          /\ \A t \in Session : t # u.session => outcomes'[t] = outcomes[t]
      <3>1. outcomes' = [outcomes EXCEPT ![u.session] = 1]
        BY <2>2, <2>3
      <3> QED
        BY <1>0, <2>1, <3>1
    <2>5. RecordsAgree'
      BY <1>0, <1>2, <1>3, <2>1, <2>4 DEF RecordsAgree, OneOutcomePerSession
    <2> QED
      BY <1>2, <1>3, <2>4, <2>5
  <1>4. CASE ~Records(u)
    <2>1. outcomes' = outcomes
      BY <1>4 DEF RecordOutcome
    <2>2. /\ u.session # NoSession => u.recorded
          /\ ui'.recorded <=> u.recorded
      BY <1>0, <1>2, <1>4 DEF Records
    <2>3. RecordsAgree'
      BY <1>0, <1>2, <2>1, <2>2 DEF RecordsAgree, OneOutcomePerSession
    <2> QED
      BY <1>0, <1>2, <2>1, <2>2, <2>3
  <1> QED
    BY <1>3, <1>4

-----------------------------------------------------------------------------
(* The handlers of signals. *)

LEMMA HeadAnswered ==
    ASSUME NEW S, NEW q \in Seq(S), q # <<>>, NEW s, NEW A, NEW B,
           Answered(q, s, A, B), Head(q).session = s, Head(q).sig \in A
    PROVE  Queued(q, s, B)
  <1>1. 1 \in DOMAIN q /\ Head(q) = q[1]
    BY TailAt
  <1> QED
    BY <1>1 DEF Answered, Queued

\* What each handler finds: the signal, and what the dispatch leaves in the queue.
LEMMA Dispatching ==
    ASSUME PageInv, signals # <<>>, Dispatched
    PROVE  /\ signals \in Seq([sig : Signal, session : Session])
           /\ Head(signals) \in [sig : Signal, session : Session]
           /\ ui.session \in Session \cup {NoSession}
           /\ \A B :
                \/ /\ Head(signals).session = ui.session
                   /\ Head(signals).sig \in B
                \/ ~Queued(signals, ui.session, B)
                \/ Queued(signals', ui.session, B)
           /\ UNCHANGED LifecycleButSignals => SignalInv' /\ UNCHANGED stage
  <1> DEFINE S == [sig : Signal, session : Session]
  <1>1. signals \in Seq(S) /\ SignalInv /\ ui \in UiState
    BY DEF PageInv, PageTypes, SignalInv, HoldInv, LifecycleTypeOK
  <1> HIDE DEF S
  <1>2. Head(signals) \in S
    BY <1>1, TailAt
  <1>3. ASSUME NEW B, Queued(signals, ui.session, B),
               \/ Head(signals).session # ui.session
               \/ Head(signals).sig \notin B
        PROVE  Queued(signals', ui.session, B)
    BY <1>1, <1>3, QueuedInTail DEF Dispatched
  <1>4. ASSUME UNCHANGED LifecycleButSignals
        PROVE  SignalInv' /\ UNCHANGED stage
    BY <1>1, <1>4, SignalDispatched
       DEF Dispatched, LifecycleButSignals, sessionVars
  <1>5. ui.session \in Session \cup {NoSession}
    BY <1>1 DEF UiState
  <1> QED
    BY <1>1, <1>2, <1>3, <1>4, <1>5 DEF S

LEMMA PageIgnores ==
    ASSUME PageInv, signals # <<>>, IgnoreSignal
    PROVE  PageInv'
  <1>1. /\ Dispatched /\ Head(signals).session # ui.session
        /\ UNCHANGED <<LifecycleButSignals, ui, outcomes, deletion>>
    BY DEF IgnoreSignal
  <1>2. /\ SignalInv' /\ UNCHANGED <<stage, ui, outcomes, deletion>>
        /\ \A B : Queued(signals, ui.session, B) =>
                      Queued(signals', ui.session, B)
    BY <1>1, Dispatching
  <1>3. PageTypes' /\ RecordsAgree' /\ TimerRuns'
    BY <1>2 DEF PageInv, PageTypes, RecordsAgree, OneOutcomePerSession,
                TimerRuns
  <1>4. FinishKept' /\ EndSeen'
    BY <1>2 DEF PageInv, FinishKept, EndSeen, WantsRecovery
  <1> QED
    BY <1>2, <1>3, <1>4 DEF PageInv

LEMMA PageHandlesPlain ==
    ASSUME PageInv, signals # <<>>, Head(signals).session = ui.session,
           HandlePlainSignal
    PROVE  PageInv'
  <1> DEFINE sig == Head(signals).sig
             x == ui.session
  <1>1. /\ Dispatched /\ ui' = PlainHandler(sig, ui)
        /\ sig \notin {"launchError", "sessionFinished", "readyForDeletion"}
        /\ UNCHANGED <<LifecycleButSignals, outcomes, deletion>>
    BY DEF HandlePlainSignal
  <1>2. /\ SignalInv' /\ UNCHANGED stage
        /\ signals \in Seq([sig : Signal, session : Session])
        /\ Head(signals) \in [sig : Signal, session : Session]
        /\ \A B : sig \notin B /\ Queued(signals, x, B) =>
                      Queued(signals', x, B)
    BY <1>1, Dispatching
  <1>3. sig \in Signal /\ x \in Session
    BY <1>2
  <1>4. Owes(x)
    BY <1>3 DEF PageInv, SignalInv
  <1>5. ui \in UiState
    BY DEF PageInv, PageTypes
  <1> HIDE DEF sig, x
  <1>6. /\ ui' \in UiState /\ ui'.session = ui.session
        /\ ui'.recorded = ui.recorded /\ ui'.page \in {ui.page, "left"}
        /\ sig = "reconnectRequested" => ui'.state = ui.state
        /\ ui'.state = "reconnecting" =>
               \/ ui'.autoReconnectTimer
               \/ /\ ui.state = "reconnecting"
                  /\ ui'.autoReconnectTimer = ui.autoReconnectTimer
    BY <1>1, <1>3, <1>5, PlainHandlerIs
  <1>7. PageTypes' /\ RecordsAgree'
    BY <1>1, <1>2, <1>6
       DEF PageInv, PageTypes, RecordsAgree, OneOutcomePerSession
  <1>8. FinishKept'
    <2>1. ASSUME Queued(signals, x, Finish)
          PROVE  Queued(signals', x, Finish)
      BY <1>1, <1>2, <2>1 DEF Finish
    <2> QED
      BY <1>2, <1>6, <2>1 DEF PageInv, FinishKept, x
  <1>9. EndSeen'
    <2>1. ASSUME Queued(signals, x, Ready)
          PROVE  Queued(signals', x, Ready)
      BY <1>1, <1>2, <2>1 DEF Ready
    <2>2. ASSUME sig # "reconnectRequested", stage[x] = "done"
          PROVE  Queued(signals', x, Ready)
      <3>1. sig \in BeforeReady /\ Answered(signals, x, BeforeReady, Ready)
        BY <1>3, <1>4, <2>2 DEF BeforeReady, Owes
      <3> QED
        BY <1>2, <2>1, <3>1, HeadAnswered DEF sig, x
    <2>3. CASE sig = "reconnectRequested"
      BY <1>2, <1>6, <2>1, <2>3 DEF PageInv, EndSeen, WantsRecovery, x
    <2>4. CASE sig # "reconnectRequested"
      BY <1>2, <1>6, <2>2, <2>4 DEF EndSeen, x
    <2> QED
      BY <2>3, <2>4
  <1>10. TimerRuns'
    BY <1>6 DEF PageInv, TimerRuns
  <1> QED
    BY <1>2, <1>7, <1>8, <1>9, <1>10 DEF PageInv

LEMMA PageHandlesLaunchError ==
    ASSUME PageInv, signals # <<>>, HandleLaunchError
    PROVE  PageInv'
  <1> DEFINE u == ShowLaunchError(ui)
  <1>1. /\ RecordOutcome(u) /\ Dispatched
        /\ UNCHANGED <<LifecycleButSignals, deletion>>
    BY DEF HandleLaunchError
  <1>2. SignalInv' /\ UNCHANGED stage
    BY <1>1, Dispatching
  <1>3. ui \in UiState /\ deletion \in Deletions
    BY DEF PageInv, PageTypes
  <1>4. /\ u \in UiState /\ u.session = ui.session
        /\ u.recorded = ui.recorded /\ u.state = "failed"
    BY <1>3 DEF ShowLaunchError, UiState, Overlay
  <1> HIDE DEF u
  <1>5. /\ ui' \in UiState /\ outcomes' \in [Session -> Nat]
        /\ ui'.session = u.session /\ ui'.state = u.state
        /\ u.session # NoSession => ui'.recorded
        /\ RecordsAgree'
    BY <1>1, <1>2, <1>4, RecordOutcomeIs
  <1>6. PageTypes'
    BY <1>1, <1>3, <1>5 DEF PageTypes
  <1>7. FinishKept' /\ EndSeen' /\ TimerRuns'
    BY <1>4, <1>5 DEF FinishKept, EndSeen, TimerRuns, WantsRecovery
  <1> QED
    BY <1>2, <1>5, <1>6, <1>7 DEF PageInv

LEMMA PageHandlesFinished ==
    ASSUME PageInv, signals # <<>>, HandleSessionFinished
    PROVE  PageInv'
  <1> DEFINE v == [ui EXCEPT !.sessionSettingsOpen = FALSE]
  <1>1. /\ SessionFinished(v) /\ Dispatched
        /\ UNCHANGED <<LifecycleButSignals, deletion>>
    BY DEF HandleSessionFinished
  <1>2. SignalInv' /\ UNCHANGED stage
    BY <1>1, Dispatching
  <1>3. ui \in UiState /\ deletion \in Deletions
    BY DEF PageInv, PageTypes
  <1>4. /\ v \in UiState /\ v.session = ui.session /\ v.state = ui.state
        /\ v.recorded = ui.recorded /\ v.page = ui.page
        /\ v.autoReconnectTimer = ui.autoReconnectTimer
    BY <1>3 DEF UiState
  <1> HIDE DEF v
  <1>5. PICK u \in UiState :
            /\ u.session = ui.session /\ u.recorded = ui.recorded
            /\ u.state = ui.state
            /\ u.autoReconnectTimer = ui.autoReconnectTimer
            /\ u.page \in {ui.page, "left"}
            /\ WantsRecovery(ui) \/ u.page = "left"
            /\ RecordOutcome(u)
    <2>1. CASE WantsRecovery(v)
      <3> DEFINE u == [v EXCEPT !.reconnectSource = v.session]
      <3>1. RecordOutcome(u)
        BY <1>1, <2>1 DEF SessionFinished
      <3>2. /\ u \in UiState
            /\ u.session = v.session /\ u.recorded = v.recorded
            /\ u.state = v.state /\ u.page = v.page
            /\ u.autoReconnectTimer = v.autoReconnectTimer
        BY <1>4 DEF UiState
      <3> HIDE DEF u
      <3> QED
        BY <1>4, <2>1, <3>1, <3>2 DEF WantsRecovery
    <2>2. CASE ~WantsRecovery(v)
      <3> DEFINE u == [v EXCEPT !.page = "left"]
      <3>1. RecordOutcome(u)
        BY <1>1, <2>2 DEF SessionFinished
      <3>2. /\ u \in UiState
            /\ u.session = v.session /\ u.recorded = v.recorded
            /\ u.state = v.state /\ u.page = "left"
            /\ u.autoReconnectTimer = v.autoReconnectTimer
        BY <1>4 DEF UiState
      <3> HIDE DEF u
      <3> QED
        BY <1>4, <3>1, <3>2
    <2> QED
      BY <2>1, <2>2
  <1>6. /\ ui' \in UiState /\ outcomes' \in [Session -> Nat]
        /\ ui'.session = u.session /\ ui'.state = u.state
        /\ ui'.page = u.page
        /\ ui'.autoReconnectTimer = u.autoReconnectTimer
        /\ u.session # NoSession => ui'.recorded
        /\ RecordsAgree'
    BY <1>2, <1>5, RecordOutcomeIs
  <1>7. PageTypes'
    BY <1>1, <1>3, <1>6 DEF PageTypes
  <1>8. FinishKept'
    BY <1>5, <1>6 DEF FinishKept
  <1>9. EndSeen'
    BY <1>5, <1>6 DEF EndSeen, WantsRecovery
  <1>10. TimerRuns'
    BY <1>5, <1>6 DEF PageInv, TimerRuns
  <1> QED
    BY <1>2, <1>6, <1>7, <1>8, <1>9, <1>10 DEF PageInv

LEMMA PageFinishedForReconnect ==
    ASSUME PageInv, signals # <<>>, NEW s \in Session,
           HandleFinishedForReconnect(s)
    PROVE  PageInv'
  <1> DEFINE v == [ui EXCEPT !.sessionSettingsOpen = FALSE,
                             !.displayReconnectPending = FALSE,
                             !.reconnectSource = NoSession]
             w == WithSession(v, s)
  <1>1. /\ stage[s] = "unborn" /\ stage' = [stage EXCEPT ![s] = "new"]
        /\ unexpected' = [unexpected EXCEPT ![s] = TRUE]
        /\ ui' = [w EXCEPT !.startupTimer = TRUE]
        /\ Dispatched
        /\ UNCHANGED <<success, inputHandler, settingsOpen, connection,
                       semaphore, active, quitEvents, crashed, historyVars,
                       outcomes, deletion>>
    BY DEF HandleFinishedForReconnect
  <1>2. SignalInv'
    BY <1>1, SignalDispatched DEF PageInv, Dispatched
  <1>3. ui \in UiState /\ ui.session # s /\ deletion \in Deletions
        /\ outcomes \in [Session -> Nat]
    BY <1>1 DEF PageInv, PageTypes, RecordsAgree
  <1>4. v \in UiState /\ v.session = ui.session
    BY <1>3 DEF UiState
  <1> HIDE DEF v
  <1>5. /\ w \in UiState /\ w.session = s /\ ~w.recorded
        /\ w.state = "attempting"
    BY <1>3, <1>4, WithSessionIs, SessionIsSome
  <1> HIDE DEF w
  <1>6. /\ ui' \in UiState /\ ui'.session = s /\ ~ui'.recorded
        /\ ui'.state = "attempting"
    BY <1>1, <1>5 DEF UiState
  <1>7. PageTypes'
    BY <1>1, <1>3, <1>6 DEF PageTypes
  <1> QED
    BY <1>1, <1>2, <1>6, <1>7, PageReplaces

LEMMA PageHandlesReady ==
    ASSUME PageInv, signals # <<>>, HandleReadyForDeletion
    PROVE  PageInv'
  <1>1. /\ Dispatched /\ Head(signals).sig = "readyForDeletion"
        /\ UNCHANGED <<LifecycleButSignals, outcomes>>
    BY DEF HandleReadyForDeletion
  <1>2. /\ SignalInv' /\ UNCHANGED stage
        /\ \A B : "readyForDeletion" \notin B /\ Queued(signals, ui.session, B)
                      => Queued(signals', ui.session, B)
    BY <1>1, Dispatching
  <1>3. PageTypes
    BY DEF PageInv
  <1>4. CASE WantsRecovery(ui)
    <2>1. UNCHANGED <<ui, deletion>>
      BY <1>4 DEF HandleReadyForDeletion
    <2>2. PageTypes' /\ RecordsAgree' /\ TimerRuns'
      BY <1>1, <1>2, <1>3, <2>1
         DEF PageInv, PageTypes, RecordsAgree, OneOutcomePerSession, TimerRuns
    <2>3. EndSeen'
      BY <1>4, <2>1 DEF EndSeen, WantsRecovery
    <2>4. FinishKept'
      BY <1>2, <2>1 DEF PageInv, FinishKept, Finish
    <2> QED
      BY <1>2, <2>2, <2>3, <2>4 DEF PageInv
  <1>5. CASE ~WantsRecovery(ui)
    <2>1. /\ ui' = WithSession(ui, NoSession)
          /\ Collect(WithSession(ui, NoSession))
      BY <1>5 DEF HandleReadyForDeletion
    <2>2. /\ ui' \in UiState /\ ui'.session = NoSession
          /\ ui'.state # "reconnecting"
      <3>1. ui'.state \in {ui.state, "disconnected"}
        BY <1>3, <2>1 DEF WithSession, PageTypes, UiState
      <3> QED
        BY <1>3, <1>5, <2>1, <3>1, WithSessionIs
           DEF PageTypes, WantsRecovery
    <2>3. deletion' \in Deletions
      BY <1>3, <2>1 DEF Collect, PageTypes, Deletions
    <2>4. PageTypes' /\ TimerRuns'
      BY <1>1, <1>3, <2>2, <2>3 DEF PageTypes, TimerRuns
    <2> QED
      BY <1>1, <1>2, <2>2, <2>4, PageLetsGo
  <1> QED
    BY <1>4, <1>5

-----------------------------------------------------------------------------
(* The timers and the user. *)

LEMMA SignalKept ==
    ASSUME SignalInv, UNCHANGED lifecycleVars
    PROVE  SignalInv' /\ UNCHANGED stage
  <1>1. HoldInv'
    BY DEF SignalInv, HoldInv, LifecycleTypeOK, OneSessionAtATime,
           lifecycleVars, sessionVars, historyVars
  <1>2. UNCHANGED <<stage, signals, active>>
    BY DEF lifecycleVars, sessionVars
  <1> QED
    BY <1>1, <1>2 DEF SignalInv, ActiveHolds, Owes

LEMMA PageReconnects ==
    ASSUME PageInv, NEW u \in UiState, u.session = ui.session,
           NEW s \in Session, Reconnect(u, s), UNCHANGED <<outcomes, deletion>>
    PROVE  PageInv'
  <1>0. /\ SignalInv /\ deletion \in Deletions
        /\ outcomes \in [Session -> Nat]
    BY DEF PageInv, PageTypes
  <1>1. CASE NeedsReplacement(u)
    <2> DEFINE v == [u EXCEPT !.reconnectSource = NoSession]
               w == WithSession(v, s)
    <2>1. Construct(s) /\ ui' = [w EXCEPT !.startupTimer = TRUE]
      BY <1>1 DEF Reconnect
    <2>2. /\ stage[s] = "unborn" /\ stage' = [stage EXCEPT ![s] = "new"]
          /\ SignalInv' /\ s # u.session
      BY <1>0, <2>1, SignalStep DEF Construct, PageInv, RecordsAgree
    <2>3. v \in UiState /\ v.session = u.session
      BY DEF UiState
    <2> HIDE DEF v
    <2>4. /\ w \in UiState /\ w.session = s /\ ~w.recorded
          /\ w.state = "attempting"
      BY <2>2, <2>3, WithSessionIs, SessionIsSome
    <2> HIDE DEF w
    <2>5. /\ ui' \in UiState /\ ui'.session = s /\ ~ui'.recorded
          /\ ui'.state = "attempting"
      BY <2>1, <2>4 DEF UiState
    <2>6. PageTypes'
      BY <1>0, <2>5 DEF PageTypes
    <2> QED
      BY <2>2, <2>5, <2>6, PageReplaces
  <1>2. CASE ~NeedsReplacement(u)
    <2>1. /\ ui' = [u EXCEPT !.state = "failed"] /\ UNCHANGED lifecycleVars
          /\ u.session = NoSession
      BY <1>2 DEF Reconnect, NeedsReplacement
    <2>2. /\ ui' \in UiState /\ ui'.session = NoSession
          /\ ui'.state = "failed"
      BY <2>1 DEF UiState, Overlay
    <2>3. PageTypes' /\ TimerRuns'
      BY <1>0, <2>2 DEF PageTypes, TimerRuns
    <2> QED
      BY <1>0, <2>1, <2>2, <2>3, SignalKept, PageLetsGo
  <1> QED
    BY <1>1, <1>2

LEMMA PageOpens ==
    ASSUME PageInv, OpenPage
    PROVE  PageInv'
  <1> DEFINE w == WithSession(ui, 1)
  <1>1. /\ stage[1] = "unborn" /\ Construct(1) /\ 1 \in Session
        /\ ui' = [w EXCEPT !.page = "shown", !.startupTimer = TRUE]
        /\ UNCHANGED <<outcomes, deletion>>
    BY SessionAssumption DEF OpenPage, Session
  <1>2. /\ ui \in UiState /\ ui.session # 1 /\ SignalInv
        /\ deletion \in Deletions /\ outcomes \in [Session -> Nat]
    BY <1>1 DEF PageInv, PageTypes, RecordsAgree
  <1>3. SignalInv' /\ stage' = [stage EXCEPT ![1] = "new"]
    BY <1>1, <1>2, SignalStep DEF Construct
  <1>4. /\ w \in UiState /\ w.session = 1 /\ ~w.recorded
        /\ w.state = "attempting"
    BY <1>1, <1>2, WithSessionIs, SessionIsSome
  <1> HIDE DEF w
  <1>5. /\ ui' \in UiState /\ ui'.session = 1 /\ ~ui'.recorded
        /\ ui'.state = "attempting"
    BY <1>1, <1>4 DEF UiState
  <1>6. PageTypes'
    BY <1>1, <1>2, <1>5 DEF PageTypes
  <1> QED
    BY <1>1, <1>3, <1>5, <1>6, PageReplaces

LEMMA PageBegins ==
    ASSUME PageInv, BeginFails \/ BeginStarts
    PROVE  PageInv'
  <1>0. /\ ui \in UiState /\ SignalInv /\ deletion \in Deletions
        /\ outcomes \in [Session -> Nat]
    BY DEF PageInv, PageTypes
  <1>1. CASE BeginFails
    <2> DEFINE u == [ui EXCEPT !.startupTimer = FALSE, !.state = "failed"]
    <2>1. /\ RecordOutcome(u) /\ UNCHANGED <<lifecycleVars, deletion>>
      BY <1>1 DEF BeginFails
    <2>2. SignalInv' /\ UNCHANGED stage
      BY <1>0, <2>1, SignalKept
    <2>3. /\ u \in UiState /\ u.session = ui.session
          /\ u.recorded = ui.recorded /\ u.state = "failed"
      BY <1>0 DEF UiState, Overlay
    <2> HIDE DEF u
    <2>4. /\ ui' \in UiState /\ outcomes' \in [Session -> Nat]
          /\ ui'.session = u.session /\ ui'.state = u.state
          /\ u.session # NoSession => ui'.recorded
          /\ RecordsAgree'
      BY <2>1, <2>2, <2>3, RecordOutcomeIs
    <2>5. PageTypes'
      BY <1>0, <2>1, <2>4 DEF PageTypes
    <2>6. FinishKept' /\ EndSeen' /\ TimerRuns'
      BY <2>3, <2>4 DEF FinishKept, EndSeen, TimerRuns, WantsRecovery
    <2> QED
      BY <2>2, <2>4, <2>5, <2>6 DEF PageInv
  <1>2. CASE BeginStarts
    <2>1. /\ ui.session # NoSession /\ Start(ui.session) /\ Collect(ui)
          /\ ui' = [ui EXCEPT !.startupTimer = FALSE]
          /\ UNCHANGED outcomes
      BY <1>2 DEF BeginStarts
    <2>2. ui.session \in Session
      BY <1>0, <2>1 DEF UiState
    <2>3. SignalInv' /\ \A t \in Session : Delivers(t)
      BY <1>0, <2>1, <2>2, SignalStep DEF Start
    <2>4. /\ ui' \in UiState
          /\ ui'.session = ui.session /\ ui'.recorded = ui.recorded
          /\ ui'.state = ui.state /\ ui'.page = ui.page
          /\ ui'.autoReconnectTimer = ui.autoReconnectTimer
      BY <1>0, <2>1 DEF UiState
    <2>5. PageTypes'
      BY <1>0, <2>1, <2>4 DEF PageTypes, Collect, Deletions
    <2> QED
      BY <2>1, <2>3, <2>4, <2>5, PageStays
  <1> QED
    BY <1>1, <1>2

LEMMA PageIsLeft ==
    ASSUME PageInv, NEW timer \in BOOLEAN, QuitRequested(timer)
    PROVE  PageInv'
  <1> DEFINE v == [ui EXCEPT !.reconnectSource = NoSession]
             w == WithSession(v, NoSession)
  <1>1. /\ ui' = [w EXCEPT !.autoReconnectTimer = timer, !.page = "left"]
        /\ UNCHANGED <<lifecycleVars, outcomes, deletion>>
    BY DEF QuitRequested
  <1>2. PageTypes /\ SignalInv
    BY DEF PageInv
  <1>3. v \in UiState
    BY <1>2 DEF PageTypes, UiState
  <1> HIDE DEF v
  <1>4. w \in UiState /\ w.session = NoSession
    BY <1>3, WithSessionIs
  <1> HIDE DEF w
  <1>5. ui' \in UiState /\ ui'.session = NoSession /\ ui'.page = "left"
    BY <1>1, <1>4 DEF UiState
  <1>6. PageTypes' /\ TimerRuns'
    BY <1>1, <1>2, <1>5 DEF PageTypes, TimerRuns
  <1> QED
    BY <1>1, <1>2, <1>5, <1>6, SignalKept, PageLetsGo

LEMMA PageLeavesSettings ==
    ASSUME PageInv, LeaveSettings
    PROVE  PageInv'
  <1>0. ui \in UiState /\ SignalInv /\ PageTypes
    BY DEF PageInv, PageTypes
  <1>1. /\ ui.session # NoSession
        /\ CloseSettings(ui.session) \/ ApplySettings(ui.session)
        /\ ui' = [ui EXCEPT !.sessionSettingsOpen = FALSE]
        /\ UNCHANGED <<outcomes, deletion>>
    BY DEF LeaveSettings
  <1>2. ui.session \in Session
    BY <1>0, <1>1 DEF UiState
  <1>3. SignalInv' /\ \A t \in Session : Delivers(t)
    BY <1>0, <1>1, <1>2, SignalStep
  <1>4. /\ ui' \in UiState
        /\ ui'.session = ui.session /\ ui'.recorded = ui.recorded
        /\ ui'.state = ui.state /\ ui'.page = ui.page
        /\ ui'.autoReconnectTimer = ui.autoReconnectTimer
    BY <1>0, <1>1 DEF UiState
  <1>5. PageTypes'
    BY <1>0, <1>1, <1>4 DEF PageTypes
  <1> QED
    BY <1>1, <1>3, <1>4, <1>5, PageStays

LEMMA PageInterrupted ==
    ASSUME PageInv, Interrupt, UNCHANGED <<ui, outcomes, deletion>>
    PROVE  PageInv'
  <1>0. HoldInv /\ SignalInv /\ PageTypes
    BY DEF PageInv, SignalInv
  <1>1. /\ UNCHANGED <<stage, signals, semaphore, active>>
        /\ active # NoSession /\ QuitPushed
    BY DEF Interrupt, sessionVars
  <1>2. LifecycleTypeOK'
    BY <1>0, QuitPushedType
       DEF Interrupt, HoldInv, LifecycleTypeOK, sessionVars
  <1>3. OneSessionAtATime'
    BY <1>0, <1>1, HoldersKept DEF HoldInv
  <1>4. SignalInv'
    BY <1>0, <1>1, <1>2, <1>3 DEF SignalInv, HoldInv, ActiveHolds, Owes
  <1>5. \A t \in Session : Delivers(t)
    BY <1>1 DEF Delivers
  <1>6. PageTypes'
    BY <1>0 DEF PageTypes
  <1> QED
    BY <1>4, <1>5, <1>6, PageStays

LEMMA PageStep ==
    ASSUME PageInv, [SegueNext]_segueVars
    PROVE  PageInv'
  <1>0. ui \in UiState /\ PageTypes /\ SignalInv
    BY DEF PageInv, PageTypes
  <1>1. CASE HandleSignal
    <2>1. signals # <<>>
      BY <1>1 DEF HandleSignal
    <2>2. CASE IgnoreSignal
      BY <2>1, <2>2, PageIgnores
    <2>3. CASE Head(signals).session = ui.session /\ HandlePlainSignal
      BY <2>1, <2>3, PageHandlesPlain
    <2>4. CASE HandleLaunchError
      BY <2>1, <2>4, PageHandlesLaunchError
    <2>5. CASE HandleSessionFinished
      BY <2>1, <2>5, PageHandlesFinished
    <2>6. CASE \E s \in Session : HandleFinishedForReconnect(s)
      BY <2>1, <2>6, PageFinishedForReconnect
    <2>7. CASE HandleReadyForDeletion
      BY <2>1, <2>7, PageHandlesReady
    <2> QED
      BY <1>1, <2>2, <2>3, <2>4, <2>5, <2>6, <2>7 DEF HandleSignal
  <1>2. CASE OpenPage
    BY <1>2, PageOpens
  <1>3. CASE BeginFails \/ BeginStarts
    BY <1>3, PageBegins
  <1>4. CASE AutoReconnect
    <2> DEFINE u == [ui EXCEPT !.autoReconnectTimer = FALSE]
    <2>1. u \in UiState /\ u.session = ui.session
      BY <1>0 DEF UiState
    <2>2. /\ \E s \in Session : Reconnect(u, s)
          /\ UNCHANGED <<outcomes, deletion>>
      BY <1>4 DEF AutoReconnect
    <2> HIDE DEF u
    <2> QED
      BY <2>1, <2>2, PageReconnects
  <1>5. CASE ManualReconnect
    <2> DEFINE u == [ui EXCEPT !.reconnectAttempt = 0]
    <2>0. 0 \in 0..MaxAutoReconnectAttempts
      BY SegueAssumption
    <2>1. u \in UiState /\ u.session = ui.session
      BY <1>0, <2>0 DEF UiState
    <2>2. /\ \E s \in Session : Reconnect(u, s)
          /\ UNCHANGED <<outcomes, deletion>>
      BY <1>5 DEF ManualReconnect
    <2> HIDE DEF u
    <2> QED
      BY <2>1, <2>2, PageReconnects
  <1>6. CASE QuitByKey \/ QuitByButton
    <2>1. ui.autoReconnectTimer \in BOOLEAN
      BY <1>0 DEF UiState
    <2> QED
      BY <1>6, <2>1, PageIsLeft DEF QuitByKey, QuitByButton
  <1>7. CASE LeaveSettings
    BY <1>7, PageLeavesSettings
  <1>8. CASE Interrupt /\ UNCHANGED <<ui, outcomes, deletion>>
    BY <1>8, PageInterrupted
  <1>9. ASSUME NEW s \in Session, SessionStep(s),
               UNCHANGED <<ui, outcomes, deletion>>
        PROVE  PageInv'
    <2>1. SignalInv' /\ \A t \in Session : Delivers(t)
      BY <1>0, <1>9, SignalStep DEF SessionStep, Unblocks
    <2>2. PageTypes'
      BY <1>0, <1>9 DEF PageTypes
    <2> QED
      BY <1>9, <2>1, <2>2, PageStays
  <1>11. ASSUME NEW s \in Session, DeleteLater(s)
         PROVE  PageInv'
    <2>1. UNCHANGED <<lifecycleVars, ui, outcomes>> /\ deletion' \in Deletions
      BY <1>0, <1>11 DEF DeleteLater, PageTypes, Deletions
    <2>2. SignalInv' /\ UNCHANGED <<stage, signals>> /\ PageTypes'
      BY <1>0, <2>1, SignalKept DEF PageTypes, lifecycleVars
    <2>3. \A t \in Session : Delivers(t)
      BY <2>2 DEF Delivers
    <2> QED
      BY <2>1, <2>2, <2>3, PageStays
  <1>10. CASE UNCHANGED segueVars
    <2>1. /\ UNCHANGED <<stage, signals, ui, outcomes, deletion>>
          /\ UNCHANGED lifecycleVars
      BY <1>10 DEF segueVars, lifecycleVars, sessionVars
    <2>2. SignalInv' /\ PageTypes'
      BY <1>0, <2>1, SignalKept DEF PageTypes
    <2>3. \A t \in Session : Delivers(t)
      BY <2>1 DEF Delivers
    <2> QED
      BY <2>1, <2>2, <2>3, PageStays
  <1> QED
    BY <1>1, <1>2, <1>3, <1>4, <1>5, <1>6, <1>7, <1>8, <1>9, <1>10, <1>11
       DEF SegueNext, SegueStep

LEMMA PageInvariant == SegueSpec => []PageInv
  BY PageInit, PageStep, PTL DEF SegueSpec

-----------------------------------------------------------------------------
(* The theorems. *)

\* The page's state keeps its types: the attempts never pass their maximum,
\* whatever the order of failures, reconnections and the user's answers.
THEOREM SegueTypes == SegueSpec => []SegueTypeOK
  <1>1. PageInv => SegueTypeOK
    BY DEF PageInv, PageTypes, Deletions, SignalInv, HoldInv, SegueTypeOK
  <1> QED
    BY <1>1, PageInvariant, PTL

\* Under the real page, which starts the replacement of a Session while the
\* cleanup of the old one may still run, one Session at most holds the
\* semaphore.
THEOREM OneSessionOnPage == SegueSpec => []OneSessionAtATime
  <1>1. PageInv => OneSessionAtATime
    BY DEF PageInv, SignalInv, HoldInv
  <1> QED
    BY <1>1, PageInvariant, PTL

\* However many signals report its failure, a Session has one record at most.
THEOREM OneOutcome == SegueSpec => []OneOutcomePerSession
  <1>1. PageInv => OneOutcomePerSession
    BY DEF PageInv, RecordsAgree
  <1> QED
    BY <1>1, PageInvariant, PTL

\* A failure that is shown when its Session is over has its record: whatever
\* showed it, the handler of sessionFinished has recorded the Session, if no
\* other did before.
THEOREM FailureOnRecord == SegueSpec => []FailureIsRecorded
  <1>1. ASSUME PageInv, NEW s \in Session,
               ui.session = s, ui.state = "failed", stage[s] = "done",
               \A i \in DOMAIN signals : signals[i].session # s
        PROVE  outcomes[s] = 1
    <2>1. ~Queued(signals, s, Finish)
      BY <1>1 DEF Queued
    <2>2. stage[s] \notin Unfinished
      BY <1>1 DEF Unfinished
    <2>3. ui.recorded
      BY <1>1, <2>1, <2>2, SessionIsSome DEF PageInv, FinishKept
    <2> QED
      BY <1>1, <2>3, SessionIsSome DEF PageInv, RecordsAgree
  <1>2. PageInv => FailureIsRecorded
    BY <1>1 DEF FailureIsRecorded
  <1> QED
    BY <1>2, PageInvariant, PTL

\* No Session leaves the user on a page that shows neither an end nor a
\* failure nor waits for a timer.
THEOREM NobodyStranded == SegueSpec => []NeverStranded
  <1>1. ASSUME PageInv, NEW s \in Session,
               stage[s] = "done", ui.session = s,
               \A i \in DOMAIN signals : signals[i].session # s
        PROVE  \/ ui.page = "left" \/ ui.state = "failed"
               \/ ui.autoReconnectTimer \/ ui.startupTimer
    <2>1. ~Queued(signals, s, Ready)
      BY <1>1 DEF Queued
    <2>2. WantsRecovery(ui) \/ ui.page = "left"
      BY <1>1, <2>1, SessionIsSome DEF PageInv, EndSeen
    <2> QED
      BY <1>1, <2>2 DEF PageInv, TimerRuns, WantsRecovery
  <1>2. PageInv => NeverStranded
    BY <1>1 DEF NeverStranded
  <1> QED
    BY <1>2, PageInvariant, PTL

-----------------------------------------------------------------------------
(* Callbacks and a lost stream, under the page: SessionProofs has the      *)
(* steps of the Sessions, and the page adds none that touches what they    *)
(* depend on.                                                              *)

LossKnown == <<stage, unexpected, connection, quitEvents, flagged,
               endedByLoss, hostQuit>>

LEMMA LostOnPage ==
    ASSUME PageInv, LostInv, [SegueNext]_segueVars
    PROVE  LostInv'
  <1>0. HoldInv'
    BY PageStep DEF PageInv, SignalInv
  <1>1. ASSUME UNCHANGED LossKnown
        PROVE  LostInv'
    BY <1>0, <1>1 DEF LossKnown, LostInv, CallInv, Linked, LostStream, Pushed
  <1>2. ASSUME NEW s \in Session,
               \/ Construct(s) \/ StartBlocks(s) \/ StartAcquires(s)
               \/ Exec(s) \/ Settings(s) \/ CloseSettings(s) \/ ApplySettings(s)
               \/ Connect(s) \/ Terminate(s) \/ Cleanup(s)
        PROVE  LostInv'
    <2>1. CallInv
      BY DEF LostInv
    <2>2. \A t \in Session : Linked(t)'
      BY <1>2, <2>1, CallSession, CallTermination
    <2>3. \A t \in Session : LostStream(t)'
      BY <1>2, LostSession, LostTermination
    <2> QED
      BY <1>0, <2>2, <2>3 DEF LostInv, CallInv
  <1>3. CASE \/ UNCHANGED segueVars \/ BeginFails \/ QuitByKey \/ QuitByButton
             \/ \E s \in Session : DeleteLater(s)
    <2>1. UNCHANGED lifecycleVars
      BY <1>3 DEF segueVars, BeginFails, QuitByKey, QuitByButton,
                  QuitRequested, DeleteLater
    <2>2. UNCHANGED LossKnown
      BY <2>1 DEF LossKnown, lifecycleVars, sessionVars, historyVars
    <2> QED
      BY <1>1, <2>2
  <1>4. CASE Interrupt
    <2>1. QuitPushed /\ UNCHANGED <<stage, unexpected, connection>>
      BY <1>4 DEF Interrupt, sessionVars
    <2>2. \A t \in Session : LostStream(t)'
      BY <2>1, LostKept, QuitPushedKeeps DEF LostInv
    <2>3. \A t \in Session : Linked(t)'
      BY <2>1 DEF LostInv, CallInv, Linked
    <2> QED
      BY <1>0, <2>2, <2>3 DEF LostInv, CallInv
  <1>5. CASE HandleSignal
    <2>1. CASE \/ IgnoreSignal \/ HandlePlainSignal \/ HandleLaunchError
               \/ HandleSessionFinished \/ HandleReadyForDeletion
      <3>1. UNCHANGED LossKnown
        BY <2>1 DEF IgnoreSignal, HandlePlainSignal, HandleLaunchError,
                    HandleSessionFinished, HandleReadyForDeletion,
                    LifecycleButSignals, sessionVars, historyVars, LossKnown
      <3> QED
        BY <1>1, <3>1
    <2>2. ASSUME NEW s \in Session, HandleFinishedForReconnect(s),
                 NEW t \in Session
          PROVE  LostStream(t)' /\ Linked(t)'
      <3>1. /\ stage[s] = "unborn" /\ stage' = [stage EXCEPT ![s] = "new"]
            /\ unexpected' = [unexpected EXCEPT ![s] = TRUE]
            /\ UNCHANGED <<connection, quitEvents, flagged, endedByLoss,
                           hostQuit>>
        BY <2>2 DEF HandleFinishedForReconnect, historyVars
      <3>2. /\ stage \in [Session -> Stage]
            /\ unexpected \in [Session -> BOOLEAN]
            /\ LostStream(s) /\ LostStream(t) /\ Linked(s) /\ Linked(t)
        BY DEF LostInv, CallInv, HoldInv, LifecycleTypeOK
      <3>3. Pushed(t)' <=> Pushed(t)
        BY <3>1 DEF Pushed
      <3> QED
        BY <3>1, <3>2, <3>3 DEF LostStream, Linked, Connected
    <2> QED
      BY <1>0, <1>5, <2>1, <2>2 DEF HandleSignal, LostInv, CallInv
  <1>6. CASE OpenPage
    <2>1. 1 \in Session /\ Construct(1)
      BY <1>6, SessionAssumption DEF OpenPage, Session
    <2> QED
      BY <1>2, <2>1
  <1>7. CASE BeginStarts \/ LeaveSettings
    <2>1. ui.session \in Session
      BY <1>7 DEF BeginStarts, LeaveSettings, PageInv, PageTypes, UiState
    <2> QED
      BY <1>2, <1>7, <2>1 DEF BeginStarts, LeaveSettings, Start
  <1>8. CASE AutoReconnect \/ ManualReconnect
    <2>1. PICK s \in Session : \E u : Reconnect(u, s)
      BY <1>8 DEF AutoReconnect, ManualReconnect
    <2>2. Construct(s) \/ UNCHANGED lifecycleVars
      BY <2>1 DEF Reconnect
    <2>3. UNCHANGED lifecycleVars => UNCHANGED LossKnown
      BY DEF LossKnown, lifecycleVars, sessionVars, historyVars
    <2> QED
      BY <1>1, <1>2, <2>2, <2>3
  <1>9. ASSUME NEW s \in Session, SessionStep(s)
        PROVE  LostInv'
    BY <1>2, <1>9 DEF SessionStep, Unblocks
  <1> QED
    BY <1>3, <1>4, <1>5, <1>6, <1>7, <1>8, <1>9 DEF SegueNext, SegueStep

LEMMA LostInvariant == SegueSpec => []LostInv
  <1>1. SegueInit => LostInv
    BY LostInit DEF SegueInit
  <1> QED
    BY <1>1, LostOnPage, PageInvariant, PTL DEF SegueSpec

\* Whatever the page does about the loss, the replacement it starts while the
\* cleanup of the lost Session still runs included: a loss flagged in time, or
\* whose SDL_QUIT ended the loop, never has the host's application quit, except
\* when it was flagged before the loop began.
THEOREM LostStreamOnPage == SegueSpec => []LostStreamLeavesAppRunning
  BY LostLeavesApp, LostInvariant, PTL

\* Under the page, too, a termination callback begins for the Session that its
\* connection belongs to: a reconnection does not hand it to the replacement.
THEOREM CallbacksOnPage == SegueSpec => []CallbackBeginsForItsSession
  <1>1. LostInv => CallbackBeginsForItsSession
    BY LinkedBegins DEF LostInv
  <1> QED
    BY <1>1, LostInvariant, PTL
=============================================================================
