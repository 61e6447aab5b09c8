------------------------------ MODULE HostTrust ------------------------------
(***************************************************************************)
(* The record of one Host (NvComputer, src/app/backend/nvcomputer.cpp) as  *)
(* the tasks of ComputerManager (computermanager.cpp) write it: a polling  *)
(* thread and an add task observe the Host and merge what they saw with    *)
(* update(); a pairing task pins a certificate; a quit task ends the Host's*)
(* application and the main thread answers the user.                       *)
(*                                                                         *)
(* A query copies the pinned certificate when it starts and carries it into*)
(* the state it builds (NvComputer(NvHTTP&, ...), nvcomputer.cpp:198), so  *)
(* what update() compares is the pin of that earlier moment.               *)
(***************************************************************************)
EXTENDS Integers

CONSTANTS
    Certs,       \* certificates the Host may present
    Observers,   \* the queries that may run: a polling thread, an add task
    MaxRotations,\* bound: times the Host changes its certificate
    MaxGames,    \* bound: applications started on the Host
    MaxQuits     \* bound: times the user asks to quit the application

ASSUME HostTrustAssumption ==
    {MaxRotations, MaxGames, MaxQuits} \subseteq Nat

NoCert == "none"
ASSUME NoCertAssumption == NoCert \notin Certs

VARIABLES
    hostCert,         \* the certificate the Host presents now
    hostGame,         \* an application runs on the Host
    serverCert,       \* the pinned certificate, or NoCert
    identityChanged,
    pendingServerCert,
    gameRuns,         \* currentGameId # 0
    pendingQuit,
    query,            \* [Observers -> [at, pin, game]]
    pairing,          \* [at, cert]
    quitTask,         \* PendingQuitTask: where the last one is
    news,             \* a computerStateChanged waits for the main thread
    rotations, games, quits  \* spent of the bounds

trustVars == <<serverCert, identityChanged, pendingServerCert>>
hostSideVars == <<hostCert, hostGame, rotations, games>>
quitVars == <<gameRuns, pendingQuit, quitTask, quits>>
hostTrustVars == <<hostSideVars, trustVars, quitVars, query, pairing, news>>

NoQuery == [at |-> "idle", pin |-> NoCert, game |-> FALSE]

\* What is left of the bounds is free: a run chooses.
HostTrustInit ==
    /\ hostCert \in Certs /\ hostGame \in BOOLEAN
    /\ serverCert \in {hostCert, NoCert}
    /\ identityChanged = FALSE /\ pendingServerCert = NoCert
    /\ gameRuns = FALSE /\ pendingQuit = FALSE
    /\ query = [o \in Observers |-> NoQuery]
    /\ pairing = [at |-> "idle", cert |-> NoCert]
    /\ quitTask = "idle" /\ news = FALSE
    /\ rotations \in 0..MaxRotations
    /\ games \in 0..MaxGames /\ quits \in 0..MaxQuits

(***************************************************************************)
(* The Host.                                                               *)
(***************************************************************************)

\* It is reinstalled, or something else answers in its place.
HostRotatesCert ==
    /\ rotations < MaxRotations
    /\ rotations' = rotations + 1
    /\ hostCert' \in Certs \ {hostCert}
    /\ UNCHANGED <<hostGame, games, trustVars, quitVars, query, pairing, news>>

\* Some client starts an application.
HostStartsGame ==
    /\ games < MaxGames /\ ~hostGame
    /\ games' = games + 1 /\ hostGame' = TRUE
    /\ UNCHANGED <<hostCert, rotations, trustVars, quitVars, query, pairing,
                   news>>

HostEndsGame ==
    /\ hostGame /\ hostGame' = FALSE
    /\ UNCHANGED <<hostCert, rotations, games, trustVars, quitVars, query,
                   pairing, news>>

(***************************************************************************)
(* A query of the server info, and update().                               *)
(***************************************************************************)

\* The query copies the pin, without the lock.
StartQuery(o) ==
    /\ query[o].at = "idle"
    /\ query' = [query EXCEPT ![o] = [at |-> "asked", pin |-> serverCert,
                                      game |-> FALSE]]
    /\ UNCHANGED <<hostSideVars, trustVars, quitVars, pairing, news>>

\* The Host answers.  Over HTTPS it must present the pin; a mismatch is a
\* 401, and the query is made again over HTTP (nvhttp.cpp:192-203, :610-619),
\* so an answer comes in either case.
HostAnswers(o) ==
    /\ query[o].at = "asked"
    /\ query' = [query EXCEPT ![o].at = "answered", ![o].game = hostGame]
    /\ UNCHANGED <<hostSideVars, trustVars, quitVars, pairing, news>>

QueryFails(o) ==
    /\ query[o].at = "asked"
    /\ query' = [query EXCEPT ![o] = NoQuery]
    /\ UNCHANGED <<hostSideVars, trustVars, quitVars, pairing, news>>

\* X_Mistake, here and below, is the definition X with a plausible mistake in
\* it.  No specification uses it: it shows that a property would catch it.
ObserveCert_Overwrites(cert) ==
    /\ serverCert' = IF cert = NoCert THEN serverCert ELSE cert
    /\ UNCHANGED <<identityChanged, pendingServerCert>>

\* The trust part of update(): the first certificate is pinned, another one
\* than the pin is remembered and the pin kept.
ObserveCert(cert) ==
    IF cert = NoCert \/ cert = serverCert
    THEN UNCHANGED trustVars
    ELSE IF serverCert = NoCert
    THEN serverCert' = cert /\ UNCHANGED <<identityChanged, pendingServerCert>>
    ELSE /\ identityChanged' = TRUE
         /\ pendingServerCert' = cert
         /\ UNCHANGED serverCert

Update_QuietAboutGames(o) ==
    /\ query[o].at = "answered"
    /\ ObserveCert(query[o].pin)
    /\ gameRuns' = query[o].game
    /\ news' = (news \/ query[o].pin \notin {NoCert, serverCert})
    /\ query' = [query EXCEPT ![o] = NoQuery]
    /\ UNCHANGED <<hostSideVars, pendingQuit, quitTask, quits, pairing>>

\* update() under the Host's lock; a change is news for the main thread.
Update(o) ==
    /\ query[o].at = "answered"
    /\ ObserveCert(query[o].pin)
    /\ gameRuns' = query[o].game
    /\ news' = (news \/ gameRuns' # gameRuns
                     \/ query[o].pin \notin {NoCert, serverCert})
    /\ query' = [query EXCEPT ![o] = NoQuery]
    /\ UNCHANGED <<hostSideVars, pendingQuit, quitTask, quits, pairing>>

(***************************************************************************)
(* PendingPairingTask, on the thread pool and without the Host's lock.     *)
(***************************************************************************)

\* NvPairingManager::pair() fetches the Host's certificate.
StartPairing ==
    /\ pairing.at = "idle"
    /\ pairing' = [at |-> "verifying", cert |-> hostCert]
    /\ UNCHANGED <<hostSideVars, trustVars, quitVars, query, news>>

PairingFails ==
    /\ pairing.at = "verifying"
    /\ pairing' = [at |-> "idle", cert |-> NoCert]
    /\ UNCHANGED <<hostSideVars, trustVars, quitVars, query, news>>

\* The last stage is an HTTPS request that pins the certificate fetched.
PairingPins ==
    /\ pairing.at = "verifying" /\ pairing.cert = hostCert
    /\ serverCert' = pairing.cert
    /\ pairing' = [pairing EXCEPT !.at = "pinned"]
    /\ UNCHANGED <<identityChanged, pendingServerCert, hostSideVars, quitVars,
                   query, news>>

PairingClearsChange ==
    /\ pairing.at = "pinned"
    /\ identityChanged' = FALSE
    /\ pairing' = [pairing EXCEPT !.at = "cleared"]
    /\ UNCHANGED <<serverCert, pendingServerCert, hostSideVars, quitVars, query,
                   news>>

PairingCompletes ==
    /\ pairing.at = "cleared"
    /\ pendingServerCert' = NoCert
    /\ pairing' = [at |-> "idle", cert |-> NoCert]
    /\ UNCHANGED <<serverCert, identityChanged, hostSideVars, quitVars, query,
                   news>>

(***************************************************************************)
(* quitRunningApp(), PendingQuitTask and handleComputerStateChanged().     *)
(***************************************************************************)

\* The user stops the running application, perhaps again.  (The task of an
\* earlier quit has ended: one is followed.)
QuitRunningApp ==
    /\ quits < MaxQuits /\ quitTask \in {"idle", "ended"}
    /\ quits' = quits + 1
    /\ pendingQuit' = TRUE /\ quitTask' = "started"
    /\ UNCHANGED <<gameRuns, hostSideVars, trustVars, query, pairing, news>>

\* The task cancels the application if the record says that one runs.
QuitTaskCancels ==
    /\ quitTask = "started"
    /\ IF gameRuns THEN hostGame' = FALSE /\ quitTask' = "cancelled"
                   ELSE UNCHANGED hostGame /\ quitTask' = "idle"
    /\ UNCHANGED <<gameRuns, pendingQuit, quits, hostCert, rotations, games,
                   trustVars, query, pairing, news>>

\* Success is not reported: it is left to the next poll.
QuitTaskSucceeds ==
    /\ quitTask = "cancelled"
    /\ quitTask' = "ended"
    /\ UNCHANGED <<gameRuns, pendingQuit, quits, hostSideVars, trustVars, query,
                   pairing, news>>

\* The request, or the check that follows it, fails: quitAppFailed().
QuitTaskFails ==
    /\ \/ quitTask = "started" /\ gameRuns
       \/ quitTask = "cancelled"
    /\ quitTask' = "idle" /\ pendingQuit' = FALSE
    /\ UNCHANGED <<gameRuns, quits, hostSideVars, trustVars, query, pairing,
                   news>>

\* The main thread handles the change and answers a pending quit.
HandleComputerStateChanged ==
    /\ news /\ news' = FALSE
    /\ pendingQuit' = (pendingQuit /\ gameRuns)
    /\ UNCHANGED <<gameRuns, quitTask, quits, hostSideVars, trustVars, query,
                   pairing>>

(***************************************************************************)
(* The specification.  Threads that can go on do, and a Host that is asked *)
(* again and again answers in the end.                                     *)
(***************************************************************************)

QueryStep(o) == StartQuery(o) \/ HostAnswers(o) \/ QueryFails(o) \/ Update(o)

PairingStep == PairingFails \/ PairingPins \/ PairingClearsChange
                  \/ PairingCompletes

QuitTaskStep == QuitTaskCancels \/ QuitTaskSucceeds \/ QuitTaskFails

HostTrustNext ==
    \/ HostRotatesCert \/ HostStartsGame \/ HostEndsGame
    \/ \E o \in Observers : QueryStep(o)
    \/ StartPairing \/ PairingStep
    \/ QuitRunningApp \/ QuitTaskStep
    \/ HandleComputerStateChanged

HostTrustFairness(o) ==
    /\ WF_hostTrustVars(QueryStep(o))
    /\ SF_hostTrustVars(HostAnswers(o))

HostTrustSpec ==
    /\ HostTrustInit /\ [][HostTrustNext]_hostTrustVars
    /\ \A o \in Observers : HostTrustFairness(o)
    /\ WF_hostTrustVars(PairingStep)
    /\ WF_hostTrustVars(QuitTaskStep)
    /\ WF_hostTrustVars(HandleComputerStateChanged)

(***************************************************************************)
(* Properties.                                                             *)
(***************************************************************************)

\* Every variable keeps its type.
HostTrustTypeOK ==
    /\ {hostCert, serverCert, pendingServerCert} \subseteq Certs \cup {NoCert}
    /\ {hostGame, identityChanged, gameRuns, pendingQuit, news}
         \subseteq BOOLEAN
    /\ query \in [Observers -> [at : {"idle", "asked", "answered"},
                                pin : Certs \cup {NoCert}, game : BOOLEAN]]
    /\ pairing \in [at : {"idle", "verifying", "pinned", "cleared"},
                    cert : Certs \cup {NoCert}]
    /\ quitTask \in {"idle", "started", "cancelled", "ended"}
    /\ {rotations, games, quits} \subseteq Nat

\* What is observed never replaces a pin, nor lifts the block on Sessions:
\* only a pairing that verified the Host's certificate does
\* (nvcomputer.cpp:710-727, session.cpp:1402).
OnlyPairingTrusts ==
    [][(\/ serverCert # NoCert /\ serverCert' # serverCert
        \/ identityChanged /\ ~identityChanged')
       => pairing.at \in {"verifying", "pinned"} /\ pairing' # pairing
     ]_hostTrustVars

\* A quit that went well is not forgotten.  The success of the task is reported
\* by nothing but the news of a later poll, so as long as the user waits the
\* main thread has news to handle or a poll still has some to bring: an answer
\* from before the cancellation does not use them up
\* (computermanager.cpp:589-600, :822-829).
QuitWillBeAnswered ==
    pendingQuit /\ quitTask \in {"cancelled", "ended"} => news \/ gameRuns

\* "An unexpected change to either enters Trust state Identity Changed"
\* (docs/adr/0007-host-identity-requires-id-and-certificate.md:3): a Host that
\* presents another certificate than the pinned one is found out.
CertChangeIsNoticed ==
    (serverCert # NoCert /\ hostCert # serverCert)
        ~> (identityChanged \/ hostCert = serverCert)
=============================================================================
