# Verification of jochona-client

TLA+ models of the Jochona streaming client, the TLC runs that check them and
the TLAPS proofs about them. Paths are relative to the repository, and mostly
below `app/`. `PROJECT.json` maps every definition to the lines it models and
lists the hazards the properties are aimed at.

## The system

The client finds streaming hosts, pairs with them, launches one of their
applications and shows its video, plays its audio and sends input back. It is a
Qt/QML program; while a stream runs, the GUI thread is taken over by an SDL
event loop inside `Session::exec()`.

| Component | State it keeps | Operations | Talks to |
|---|---|---|---|
| Session lifecycle (`streaming/session.cpp`) | stage of one connection, `s_ActiveSession` and its semaphore, the termination flag, Session settings | construct, initialize, start, exec, interrupt, close/apply settings, cleanup task | GUI by queued signals, library by callbacks, pool thread |
| Stream page (`gui/StreamSegue.qml`, `gui/session/SessionStatusOverlay.qml`) | current Session, recovery state, two timers, the record flag | handlers of ten signals, reconnect, leave, collect | Session, Library (outcome records) |
| Frame pacer (`.../pacer/pacer.cpp`) | pacing and render queue, their histories, the frame kept for the GPU | submitFrame, V-sync thread, render thread or main-thread rendering, destructor | decoder, renderer |
| FFmpeg decoder (`streaming/video/ffmpeg.cpp`) | frame counts, queue of frame information, failure count | decoder thread, submitDecodeUnit, reset | library, codec, pacer, SDL events |
| Decoder recreation (in `Session::exec()`) | decoder pointer and lock, barrier count, SDL queue | window, reset, barrier and toggle events; HDR callback | window system, decoder, library |
| Decoder/renderer selection, video renderers | device handles | initialize, render | graphics drivers |
| Audio (`streaming/audio/audio.cpp`) | renderer, sample and drop counters | init, play one packet, recreate | library, audio device |
| Overlays (`streaming/video/overlaymanager.cpp`) | surface, text and enabled flag of each overlay | set state, set text, take surface | main thread, render thread |
| Input (`streaming/input/*`) | capture state, pressed keys, gamepad slots | translate SDL events, hot plug, rumble | library, Session |
| Host manager (`backend/computermanager.cpp`, `nvcomputer.cpp`) | known hosts, one polling thread each, delayed saving, two levels of locks | add, delete, rename, poll, flush, shut down | HTTP, discovery, settings |
| Host protocol (`nvhttp.cpp`), pairing (`nvpairingmanager.cpp`) and trust (`nvcomputer.cpp`) | pinned certificate, Identity Changed, pending quit of each host | query, merge, pair, quit the host's application | host, host manager |
| Beacon and SPAKE2 (`backend/beacon/*`), Wake on LAN (`backend/wake/*`) | one exchange each | requests with time-outs | host |
| Adapters, capabilities, negotiator (`backend/adapters/*`, `backend/negotiation/*`) | probe results and capabilities of each host | probe, merge, negotiate | host manager, Session |
| Settings database (`core/settingsdatabase.cpp`) | a SQLite file, its log, snapshots before each migration | open, migrate, recover, prune, import, write | host manager, GUI |
| Credentials, identity (`core/credentialstore.cpp`, `backend/identitymanager.cpp`) | the vault of the system, the client's certificate and key | load, migrate, regenerate, remove the plaintext pair | vault, settings, database |
| Effective settings, preferences (`settings/*`) | layers of overrides | resolve | Session |
| Library, controller profiles (`library/*`, `backend/controller*.cpp`) | catalogue, history, profiles | merge, record, apply | GUI, Session |
| Command line (`cli/*`) | one small state machine each | start, quit, list, pair with time-outs | host manager, Session |
| Main program, GUI, gamepad navigation, support bundle | presentation | | |

### What is hard, and what makes each component correct

- *Pacer.* Three threads share two bounded queues; the lock is released around
  every `av_frame_free`, wake-ups are sent after the lock is released, and the
  destructor takes no lock. Correct: no frame leaks, is freed twice, is shown
  out of order or freed while on screen, and none is stranded in a queue.
- *Session.* The GUI thread blocks on a semaphore that a pool thread releases;
  callbacks of a library thread find their Session through a static pointer; one
  flag tells a lost stream from a finished one and is written by two threads.
  Correct: one Session at a time, callbacks begin for their own, a quit ends the
  stream, a loss the client knows of leaves the host's application running.
- *Stream page.* One failure is reported by up to four signals in several
  orders, while timers and the user act too. Correct: each Session writes at
  most one record, a failure writes one, the user can always go on, and no
  Session is destroyed while something uses it.
- *Recreation.* A new decoder makes some queued events obsolete, and only those.
  Correct: window changes reach the decoder, an old decoder's reset does not
  destroy a new one, a lost decoder comes back, the HDR mode is the host's.
- *Decoder thread.* Input and output are counted against each other while the
  codec refuses, delays or loses units. Correct: frames get their own time
  stamps, the thread gives up for good at the threshold and always joins.
- *Host manager.* Polling threads, tasks on a thread pool and the main thread
  share the hosts under one lock of the manager and one of each host. The locks
  are not recursive and prefer a waiting writer. A host is deleted by a task
  that waits for its threads; changes are saved 50 ms later, or at exit.
  Correct: one object and at most one going thread for a host, none deleted
  under a thread, no change forgotten, every deletion ends.
- *Trust.* A query carries the pin of the moment it began, a pairing writes the
  host's record without its lock, the success of a quit is told by a later poll.
  Correct: only pairing replaces a pin, a changed certificate is noticed, the
  user who quit an application gets an answer.
- *Settings database.* A migration can be cut short anywhere, fail, or meet a
  file of a newer build; a recovery replaces the file under its log. Correct: an
  open database has exactly the schema of its build, and acknowledged records
  stay.
- *Identity.* The plaintext pair is removed once the vault has a copy, in several
  writes any of which may be the last one. An unanswered lookup looks like an
  empty vault. Correct: the pair the hosts trust is never lost, nor replaced.

## The modules

| Module | What it is |
|---|---|
| `FramePipeline` | abstract: what the pacer promises the decoder and the renderer |
| `Pacer` | `pacer.cpp`; implements `FramePipeline` (`PipelineSpec`) |
| `MCPacer` | the pacer's two paths that `PacerThreads.cfg` does not take |
| `PacerProofs` | proofs: types, decode order, and that `Pacer` implements `FramePipeline` |
| `PacerFrameProofs` | proofs: frames held and freed, the frame on screen, events (EXTENDS `PacerProofs`) |
| `MCPacerProofs` | proofs: the same on the two paths of `MCPacer`, by instances of `PacerFrameProofs` |
| `SessionLifecycle` | the parts of `session.cpp` that create, run and end Sessions |
| `SessionProofs` | proofs: one Session at a time, callbacks, lost streams |
| `StreamSegue` | the stream page, composed with `SessionLifecycle` (EXTENDS) |
| `SegueProofs` | proofs: the page's records, its ways on, and one Session at a time under it (EXTENDS `SessionProofs`) |
| `FrameDecoder` | the decoder thread of `ffmpeg.cpp` |
| `DecoderRecreation` | how `exec()` replaces its decoder |
| `MCDecoder` | the two last ones for TLC: a behaviour is one of either |
| `DecoderProofs` | proofs: time stamps, giving up, window changes, resets, HDR mode |
| `HostManager` | `computermanager.cpp`: threads, tasks, locks, deletion, delayed saving, exit |
| `HostTrust` | the pin, Identity Changed and the pending quit of one host |
| `SettingsDatabase` | `settingsdatabase.cpp`: migrations, snapshots, recovery, import |
| `ClientIdentity` | the constructor of `identitymanager.cpp` over the vault |
| `MCBackend` | the four last ones for TLC: a behaviour is one of them |
| `HostProofs` | proofs: one object and one going thread for each host, saving, the exit |
| `BackendProofs` | proofs: trust and quits, schema and records, the trusted pair, all types of `MCBackend` |

Definitions with a suffix, as `Promote_Newest`, are the definition of that name
with a plausible mistake. No specification uses them; each breaks a property,
which shows that the property says something about the code.

### Pacer

One action for each stretch of code between two points where another thread can
intervene. `SubmitForPacing`/`SubmitForRendering` are `submitFrame` up to the
unlock, `DecoderWakes*` the wake-up after it. `VsyncHandle` is `handleVsync`
from its lock to the first release of it; `VsyncDropped` what follows each
`av_frame_free` of the loop; `VsyncWoken` and `VsyncTimeout` the two results of
the wait. `RenderThreadTest` and `RenderThreadWait` are the two halves of
`while (!m_Stopping && m_RenderQueue.isEmpty()) wait()`, apart because the
destructor's writes can fall between them. `RenderFrame`, `TrimRenderQueue` and
`TrimmedFrame` are `renderFrame`. `Dtor*` are `~Pacer`, which runs after the
decoder thread was joined and, with main-thread rendering, not inside
`renderOnMainThread`. A frame is the number of its picture. A V-sync may come at
any time: the sources under `pacer/` are only clocks. `m_Stopping` is a plain
bool read without the lock; it is modelled as sequentially consistent. Taking a
frame from an empty queue is undefined in the code and ends the model ("fault").

### SessionLifecycle

`stage[s]` follows each Session from its constructor to `readyForDeletion`.
`Construct`, `StartBlocks`, `StartAcquires` are the constructor and `start()`;
`Connect*` is `AsyncConnectionStartThread`; `Exec*` is `execInternal()` up to
`DispatchDeferredCleanup`; `Cleanup*` are the statements of
`DeferredSessionCleanupTask` and its destructor. `Termination*` is
`clConnectionTerminated` on a library thread, statement by statement:
`TerminationBegins` enters its port test over the network, and each of the steps
after it (`Reports`, `Flags`, `ShowsError`) follows `s_ActiveSession` as it is by
then, or a null pointer (`Crashes`), before `PushesQuit`. `connection[s]` says
how far the callback of each connection has come. `LiStopConnection` ends a
connection that has not called back yet and waits for nothing. `signals` is Qt's
queue to the GUI thread: other threads append to it, an emission on the GUI
thread itself runs at once and goes to its front, and an emission of a signal
that the interface is not connected to (`Handled`) does neither. The GUI thread
dispatches events when `GuiFree`. `quitEvents` keeps, beside each SDL_QUIT, whose
lost connection pushed it, which the code does not; `flagged` (when a callback
set `m_UnexpectedTermination`), `endedByLoss` (whose own SDL_QUIT ended its loop)
and `hostQuit` are history. `UserStarts`,
`UserLeavesSettings` and `TakeSignals` stand for a simple interface, so the
module can be checked without the page. Left out: the informational
stageStarting signals, `m_ShouldExit`, the stream configuration.

### StreamSegue

`ui` holds the properties of the page and of its overlay. Handlers are operators
on that record, composed as the QML calls them. A handler runs for the page's
current Session only (`Connections { target: session }`). The 100 ms timer before
`initialize()` is `startupTimer`; the 0 ms timer between that and `start()` is one
step with both (`BeginStarts`); the two-second reconnect timer and a user's answer come when what
the GUI thread had queued is handled (`QueueDrained`). `Collect` is `gc()`: the
engine deletes QObjects through `deleteLater`, so what the page no longer refers
to is only posted, and `DeleteLater` comes when the GUI thread is back in its
event loop, not while `start()` blocks it nor inside `exec()`. One page is
modelled. Left out: the overlay's handler of stageStarting, which sets
"attempting" and a text: the signals come before every other one of their
Session, for which the overlay is "attempting" already.

### FrameDecoder and DecoderRecreation

`FrameDecoder` has one action per branch of the decoder thread's two loops.
The codec keeps the units it accepted in order, may answer EAGAIN, fail, and
with a failure lose a unit (`lost`). The library hands over units as they come
and latches a wake-up. `DecoderRecreation` has the SDL queue in order, as
a function from places to events: an event is pushed at the next place, the one
at the first place is taken, and what is flushed leaves its place empty. A
window's size and display are one growing number; `flushWindowEvents()` pumps
the system and so may find changes before and after its barrier. The HDR
callback uses the lock with try-lock: one step, dropped while a recreation holds
it. `HandleToggle` takes it that SDL reports the new size of the window after
every toggle, on which the code relies too. `FrameDecoder` ends where `reset()`
has joined the thread: the deletion of the pacer that follows is `Pacer`'s, and
can hang (`PacerDestructor`). Left out: the shortcut for minimised windows on
Windows.

### HostManager

One host UUID is followed through the `NvComputer` objects that stand for it in
turn; `contents[o]` is a number, new for every change of a persisted field.
`writer`, `readers` and `waiting` are the state of each `QReadWriteLock`: a
reader needs no writer and nobody waiting to write. A critical section in which
nothing else is awaited is one step; waiting for a write lock is a step of its
own (`Await*`), and a read lock held while another lock is awaited is in
`readers` (`FlushLockHosts`, `FlushLockHost`, `AddLookup`). `poller` are the
`PcMonitorThread`s, `active` and `inactive` the polling entry
(`StartPollingComputer`, `Interrupt` are its operations). `main` says which slot
the main thread runs; `events` are the calls queued to it. `NotifyListeners` and
`SaveHost` are `handleComputerStateChanged`; `Flush*` are `flushHosts`, called
from the timer or from the destructor. `Add*` are `PendingAddTask::run` from the
lookup of the UUID on, `Del*` the `DeferredHostDeletionTask`. `Quit` and
`Destructor*` are the end of the process: `aboutToQuit`, `main.cpp` waiting for
the thread pool, and `~ComputerManager`. Left out: name resolution, box art, the
merge of single fields; the address that an add task asks STUN for after it has
stored a new host (`computermanager.cpp:1128-1140`), which it writes before the
news that saves the host; and the pairing task's write of the record without the
lock (`:777-781`), which is in `HostTrust`. Waiting for the pool has no limit (30 s in `main.cpp`).

### HostTrust

`query[o]` is a query in flight with the pin it copied and the answer it got;
`Update` merges it under the host's lock (`ObserveCert` is its trust part). The
pairing task writes the pin, the flag and the pending certificate in three steps
without the lock, as the code does; its cryptographic phases are one step that
fails or ends with the certificate the host presents. `Quit*` are
`PendingQuitTask`, one at a time; `news` is a queued `computerStateChanged`. The host changes
its certificate and its application as it likes.

### SettingsDatabase

`seen` is what a reader sees, `file` the main file without its write-ahead log,
`tx` the open transaction. A schema is the set of statements that were run, each
of which fails when it was run before. `ReadVersion` to `PruneBackupSnapshots`
are `open()`, with `CloseConnection`, `DropLog` and `ReplaceFile` for
`restoreFromSnapshot`. `Import*` are `importLegacyHostRecords`, whose marker is
written in the same transaction. `Crash` may come between any two steps;
`Launch` starts any of the builds. `logLost` and `reimported` are history: each
lasts from a loss of records until the last acknowledged ones are there again.

### ClientIdentity

`phase` is the statement of the constructor that comes next; the certificate and
the key that belong together carry one number. The vault answers, does not
answer, refuses a write, or is damaged from outside; the database may not open,
or its marker not be readable, which the code takes for an absent one.
`trusted` is the pair the hosts were paired with. `dbFailed` and `damaged` are
history. `sslCert` is the parsed certificate, which the code keeps.

## What the runs check

| Run | Instance | Shows |
|---|---|---|
| `PacerThreads` | both threads, 8 frames, queues of 3, histories of 2 | types, accounting of frames, order, the frame on screen, refinement of `FramePipeline` |
| `MCPacer` | the two other thread arrangements, 5 frames | accounting, an event for each frame, and that each frame is resolved |
| `SessionLifecycle` | 2 Sessions, 3 ends by the user or a connection, quitAppAfter | mutual exclusion, callbacks, quitting the app, `start()` and quits come to an end |
| `StreamSegue` | 2 Sessions, 1 automatic reconnect, 1 end | types, mutual exclusion under the real page, records, a way on after each Session |
| `MCDecoder` | 4 units, threshold 3; 6 window changes, 2 resets, 2 toggles, 1 HDR change | all of FrameDecoder and DecoderRecreation |
| `MCBackend` | 2 objects, 2 polling threads, 2 add tasks; 2 certificates, 2 queries; builds 1 and 3; 3 pairs | types; one object, threads, saving, deletion; trust and quit; schema and records; the trusted pair |

Six more runs each refute what a comment or a document of the repository says,
and are the findings of `PROJECT.json`: `PacerDestructor` (a lost wake-up leaves
`~Pacer` joining for ever), `PacerEmptyQueue` (a frame taken from an empty queue
after a late wake-up), `SessionQuitApp` (a connection lost just before the loop
is forgotten and the host's application quit), `SegueDeletion` (after a failed
launch and a reconnection, the old Session is deleted between the release of the
semaphore, which lets the replacement start, and the last signal its cleanup
task emits through it), `HostFlush` (`flushHosts` reads a host
twice, and a thread waiting to write in between stops the main thread) and
`HostTrust` (what `update` compares with the pin is the pin itself, so a changed
certificate is never noticed).

The parts of `MCBackend` share a run because each is small. The host manager
spends its bounds in three ways: `tasks` (both add tasks, a deletion, the exit),
`polling` (starts, stops, edits, a refused flush, a deletion, the exit) and
`readded` (a host deleted and found again while it is polled).

**Bounds.** `MaxFrames` = 8 fills both queues and overflows each while a frame
is in every hand; the histories (half the frame rate) have two entries, so they
roll. Two Sessions are enough for a hand-over: a third would meet a second
exactly as that met the first. `MaxEnds` counts the SDL_QUITs the user pushes
and the connections that end by themselves, together: three are a loss that races
a quit of the user and an end of the next Session, or two losses and a quit.
With the page one is enough: its five properties are proved for any number, and
the race of a loss with a quit is in `SessionLifecycle`. `Handled` has the one
signal that the simple interface waits for; with the page it has all. One
automatic reconnect has both outcomes of the
attempt limit. Three failures of four units reach the threshold and leave a unit
after it. Two resets and two toggles let one of each fall into the recreation of
another. Two objects are a host and its successor after a deletion; two polling
threads are one that was stopped and not yet joined, and its successor; one
queued call makes the others wait for room, which only delays them. Builds 1 and
3 have a migration chain of three, a recovery in its middle and an older build
that meets a newer file; a migration of two statements has a middle; three
launches are a failure, a recovery and the launch that sees the result, with two
faults between them. Three pairs are the old one, a regenerated one and one
more.

**Fairness.** Pacer: each thread that can run does; more frames need not come.
SessionLifecycle: the connection thread (its calls have time-outs), the GUI
thread outside a blocking call, the pool thread, and a callback that has begun.
The cleanup is not forced through `LiStopConnection` while a callback of its
connection runs, so liveness holds for a library that waits there and for one
that does not.
The user, a failing decoder and the network are not forced. FrameDecoder: its
thread and the rest of a `reset()` that was called. DecoderRecreation: the main
thread takes its events. A wait with a time-out needs no event. HostManager:
every thread that can go on does; for `HostFlush` the main thread and the timer
are strongly fair, since the lock lets a reader in once the writers have left
and the event loop does not starve a timer. HostTrust: the tasks go on, and a
host that is asked for ever answers. The user, the network and the database owe
nothing.

**Deadlock** is not checked where bounded behaviours end; the waits that matter
are liveness properties (`StartReturns`, `ResetReturns`, `FrameResolved`,
`DecoderComesBack`).

**Assumptions about what is external.** Nothing is assumed of a termination
callback that has begun: moonlight-common-c is a submodule that is not here, and
no line of the repository says that `LiStopConnection` waits for it. Of the
library it is assumed that no callback begins once `LiStopConnection` has
returned, and that a connection ends by itself once. SDL reports the size of a
window after `SDL_SetWindowFullscreen`. `QReadWriteLock` prefers writers and is not recursive, as Qt documents. A
SQLite transaction is atomic under a crash, and closing the last connection
folds the log into the file or fails. A vault write happens or does not.

**What the properties except.** `AcknowledgedIsKept` names the two cases in which
records are lost: a recovery that removes a log which closing could not fold
(`logLost`), until the snapshot brings the records back, and an import retried
after the user's edits (`reimported`), until they are written anew.
`TrustedPairIsKept` and `NoSilentRotation` except a vault damaged from outside
and a launch whose database did not open, or did not read or write the marker:
there a lookup
that fails can bring the old pair back or make a new one. `ExitSavesHosts`
excepts news still queued at the exit, which nothing delivers any more, and a
refused last transaction. `HdrModeSettles` excepts `hdrMissed`, and
`StampIsOwn` and `FrameInfoMatches` a codec that has lost a unit (`lost`).
`DeletionEnds` excepts a flush that waits for itself, which is the finding of
`HostFlush`. `LostStreamLeavesAppRunning` speaks of a loss the client has
learned of, by the flag or by the SDL_QUIT of the lost connection. Between the
loss and the flag lies the port test of the callback, which can take seconds; a
user who ends the stream meanwhile has ended it, and with quitAppAfter the
application is quit. A loss flagged before the loop is excepted, since
`ExecEntersLoop` clears the flag: that is the finding of `SessionQuitApp`.
`StartReturns` is for the simple interface; with the page `start()` can block for
good (below), and the properties of the page do not speak of a blocked thread.

**A statement of the repository that the model contradicts without a run of its
own.** `pacer.h:10-14` gives "the maximum number of frames pacer will ever hold" as
3 + 1 + 1 and `pacer.cpp:16-20` asks that the sum over both queues stay within the
pool, which `ffmpeg.cpp:547` extends by that number. The render queue holds up to
three frames more: with both queues full the pacer has six, and one or two beside
them. `PacerThreads` reaches such states; `TypeOK` gives the bounds that do hold.

**Behaviours met while modelling that no run reports**, since the repository makes
no clear statement they would contradict: a termination callback that has begun
finds, after its port test, a null `s_ActiveSession` or the replacement of its
Session, if the library lets it (`crashed`, `Follows`); a query made with the old
pin and merged after the host was paired again sets `identityChanged` once more;
an SDL_QUIT left in the queue ends the
next Session (`QuitEndsSession` does not tell whose quit it was); with a loss
followed by a launch error the reconnect timer and the Reconnect button can each
start a Session, the second of which blocks the GUI thread that the first one
needs; an HDR change between `LiGetCurrentHostDisplayHdrMode()` and the unlock
is dropped (`hdrMissed`); once the codec has lost a unit the decoder thread
never blocks again (`lost`); `closeSessionSettings()` may follow the end of the
stream; a call queued for a host may be handled after the host
was deleted (`SaveHost`), and an add task may write the address that STUN found to
a host that was deleted meanwhile; a quit asked for when the record says that no
application runs sends nothing and waits for an unrelated change; after an
unreadable key the certificate parsed before is used with the new key until the
next launch (`sslCert`); the certificate and the key are written to the vault
one after the other, and a crash between the two can leave a certificate with
another key, which the next launch loads without comparing them.

## What is proved

Every theorem holds for all values of the constants that its module's
assumption allows. `PacerAssumption`: the queues hold at least one frame, and
both rates are at least 2, so that half of one, the length of a history, is not
0; `MCPacer` fixes the rates and the threads, its theorems are for any number of
frames and any capacity. `SessionAssumption` and the assumptions of the other
modules give the ranges of their constants: any number of Sessions, attempts,
quit requests, units, window changes, objects, threads, tasks, queries, builds,
statements, launches and faults. No theorem about Sessions assumes anything of
when a callback that has begun goes on.

| Theorem | States | Invariant used |
|---|---|---|
| `TypeCorrect` | `[]TypeOK` | inductive as it stands |
| `OrderCorrect` | `[]FramesInOrder` | `OrderInv` |
| `ImplementsPipeline` | `PipelineSpec` | `OrderInv` |
| `FramesCorrect`, `PathFramesCorrect` | `[]FramesAccountedFor` | `FrameInv` |
| `ShownCorrect` | `[]ShownFrameKept` | `FrameInv` |
| `EventCorrect`, `PathEventCorrect` | `[]EventForEachFrame` | inductive, with `TypeOK` |
| `OneSession` | `[]OneSessionAtATime` | `HoldInv` |
| `LostStreamCorrect` | `[]LostStreamLeavesAppRunning` | `LostInv` |
| `CallbacksCorrect` | `[]CallbackBeginsForItsSession` | `CallInv` |
| `SegueTypes` | `[]SegueTypeOK` | `PageInv` |
| `OneSessionOnPage` | `[]OneSessionAtATime` | `PageInv` |
| `OneOutcome` | `[]OneOutcomePerSession` | `PageInv` |
| `FailureOnRecord` | `[]FailureIsRecorded` | `PageInv` |
| `NobodyStranded` | `[]NeverStranded` | `PageInv` |
| `LostStreamOnPage` | `[]LostStreamLeavesAppRunning` | `PageInv`, `LostInv` |
| `CallbacksOnPage` | `[]CallbackBeginsForItsSession` | `PageInv`, `Connected` |
| `InfoMatches` | `[]FrameInfoMatches` | `ThreadInv` |
| `StampsAreRight` | `[]StampIsOwn` | `ThreadInv` |
| `AsksOnce` | `GivesUpForGood` | `ThreadInv` |
| `WindowChangesArrive` | `[]WindowChangesReachDecoder` | `RecreationInv` |
| `ResetsAreOwn` | `[]ResetIsForThisDecoder` | `RecreationInv` |
| `HdrSettles` | `[]HdrModeSettles` | `RecreationInv` |
| `DecoderTypes` | `[]TypeOK` of `MCDecoder` | `ThreadInv`, `RecreationInv` |
| `OneObject` | `[]OneObjectPerHost` | `HostInv` |
| `ThreadsEndFirst` | `[]HostOutlivesItsThreads` | `HostInv` |
| `OneThreadPolls` | `[]PolledByOneThread` | `HostInv`, `PollInv` |
| `NoChangeForgotten` | `[]ChangeIsScheduled` | `HostInv`, `SaveInv` |
| `ExitSaves` | `[]ExitSavesHosts` | `HostInv`, `SaveInv` |
| `HostTypes`, `BackendTypes` | `[]HostManagerTypeOK`, `[]BackendTypeOK` | `ManagerInv`, `BackendInv` |
| `PairingAloneTrusts` | `OnlyPairingTrusts` | types only |
| `QuitIsNotForgotten` | `[]QuitWillBeAnswered` | inductive, with the types |
| `OpenHasTheSchema` | `[]OpenedIsComplete` | `SchemaInv` |
| `AcknowledgedRecordsStay` | `[]AcknowledgedIsKept` | `KeptInv` |
| `PairIsKept` | `[]TrustedPairIsKept` | `IdentityInv` |
| `RunsWithTrustedPair` | `[]NoSilentRotation` | `IdentityInv` |

*Order.* `FramesInOrder` says nothing of a frame that is about to come or to be
taken, so it is not inductive. `OrderInv` adds that every frame is older than
`nextFrame` (else a submission could break the order), that the frame being
rendered is younger than the one on screen (else rendering could), and that
without a V-sync thread the pacing queue stays empty (else frames submitted to
the render queue could be younger than those of the pacing queue). The lemmas
`TailOrder`, `AppendOrder` and `DropOrder` say what the queue operations do to
these facts; then there is one lemma for each thread.

*Refinement.* A submission is `Accept`, the rendering of a frame `Show`, and
every other step `GiveUp`, perhaps of no picture. `Show` asks that the picture
is the oldest that is pending; that is `OrderInv`.

*Frames.* A step that frees a frame must know that the frame is in no second
place. `PlaceOrder` puts the places in a row (screen, renderer, render queue,
V-sync thread, pacing queue), each with older frames than the next, so no two
share one (`PlacesApart`). `Teardown` says where `~Pacer` finds the threads:
when it frees the queues no frame is in a thread's hands. `FreesAccounted` is
the argument common to all steps: if a step frees what it stops holding and
only that, the accounting stands. Each path of `MCPacer` is an instance of
`Pacer`, so `PathInv` is the invariant of the instance on the path taken.

*Sessions.* The types and `OneSessionAtATime` need each other (`HoldInv`): only a
holder releases, so the semaphore stays 0 or 1. `CallInv` adds that a connection
which has not called back yet belongs to a stage between connecting and
`LiStopConnection`, where its Session holds the semaphore (`Linked`). A callback
that has begun can be anywhere, so `LostInv` follows its traces instead
(`LostStream`): a flag set in the loop or before the cleanup looks is still set,
with the Session in stages that do not quit the application; and the order of
flag, SDL_QUIT and end of the loop: an SDL_QUIT of a lost connection is queued
only when the callback is over, and as long as the Session is before or in its
loop the flag was then set, early or in time, since the callback found that
Session through `s_ActiveSession`. What a push or a take does to the queue of
SDL_QUITs is `PushedByAppend` and `PushedByTail`. These theorems are about
`SessionLifecycle!Spec`, with its simple interface. `OneSessionOnPage`,
`LostStreamOnPage` and `CallbacksOnPage` say the same of the real page: a step of
the page changes of a Session only what a user of the simple interface could
change.

*Page.* A property of the page speaks of a Session that is over and whose signals
have been handled, so the invariant has to say, while they are not, which
signal is still to come. `Owes`, a part of `SignalInv`, is that promise of the
Sessions alone: a Session that is done has `readyForDeletion` queued behind all
its others, but for what the page asks of it. Each step of a Session keeps that
promise (`Delivers`), in whatever order it appends or emits directly, and a
callback that reports late, to whichever Session it finds, appends before that
Session is done. `PageInv` adds the page's side: its flag agrees with the
records, and a Session comes to it with none (`RecordsAgree`); the record is
written, or `sessionFinished`, at the latest, will write it (`FinishKept`); a
Session that was handled to its end left a way on (`EndSeen`). One lemma for
each handler says what it does to the page, and the queue lemmas
(`AnsweredAppend` to `AnsweredInTail`) what a signal appended, put in front or
taken does to a promise.

*Decoder thread.* `StampIsOwn` holds because the codec and the queue of frame
information hold the same units (`QueueIsCodec`), which a refused unit or a
frame received in between must not disturb. `GivenUp` says that the threshold is
reached once and where the thread can be afterwards.

*Recreation.* `RendererLearnsGeometry` asks for an event that is up to date and
behind all barriers. A window event that is taken may be out of date; then the
one it is out of date against is behind it (`LatestIsQueued`), so taking it
loses nothing. `FlushRefCountsBarriers` lets a step that sees `flushRef` = 0
know that no barrier is queued. `ToggleBudget` bounds the geometry,
`NoneWhileChoosing` keeps a reset event from surviving the flush, and
`HdrUnderWay` says what the host's mode is while it is on its way to the
decoder.

*Hosts.* Neither property is inductive. `HostInv` adds where a running thread
belongs: to the polling entry, with the known host, or to the deletion task,
with the host it deletes (`ThreadsPlaced`); what the task holds at each of its
steps (`DeletionHolds`); and that after the thread pool was awaited no task is
left, so nothing starts a thread once the destructor has stopped them
(`Ending`). An add task makes an object only when none is known, which it looks
up again under the write lock, and a new object is none that was freed, because
all that is referred to was made (`ReferredMade`). `QuietStep` is the argument
common to the steps that start no thread and make no object. `PollInv` says that
every thread is the one that goes on, one that was stopped, or one that the
deletion task joins, and only one of these (`ListedOnce`, `ListedExist`), and
that a thread goes on exactly while polling is referred to and the host is known
(`Counted`). A flush takes its snapshot before it writes, and the host can
change in between; `SaveInv` says that what is about to be written is then
current or has news under way (`SnapshotIsCurrent`), that a flush that runs is
still asked for (`FlushRuns`), and that it reads the known host under the
manager's lock (`FlushReads`), so no deletion takes it away.

*Trust.* Each step that writes the trust fields is looked at: what a query brings
goes through `ObserveCert`, which keeps a pin that is there. A cancellation
leaves `gameRuns` set until a query says otherwise, and that is news: so the
wait of the user always has something left to end it, and `QuitWillBeAnswered`
is inductive.

*Database.* `SchemaInv` says that the file, what a reader sees and every whole
snapshot have the complete schema of their version (`FilesComplete`), that a
migration is the next one, or the first after a version that could not be read
(`NextOrFirst`), how much of it the open transaction holds (`Half`), and that a
database past its migrations has the version of the build (`Accepted`).
`KeptInv` adds to the property the records of the transaction and of the
snapshot that a recovery would bring back.

*Identity.* `IdentityInv` says in which phases the pair at hand is the trusted
one (`CarriedPair`), that it can be loaded (`KeptPair`), and what the marker
implies (`MarkerKnown`): with it set, a failed lookup stops the program instead
of making a new pair.

*Types.* The types of `MCBackend` bound versions and counts, which the parts'
invariants do not need: `VersionType` bounds the version of a host by those that
objects not made yet will still use, `ContentBound` and `WorkBound` what the
files of the database hold.

Only model-checked: liveness (`FrameResolved`, `StartReturns`,
`QuitEndsSession`, `ResetReturns`, `DecoderComesBack`, `DeletionEnds`), since
fairness and ENABLED are out of the prover's reach. The six runs that find a
violation are counterexamples and need no proof.

## Not modelled, and why

- *Choice of decoder and renderer, the renderers*: calls into drivers. Their
  outcome is the success or failure of one step in `DecoderRecreation`.
- *HTTP, XML, the cryptographic phases of pairing, SPAKE2*: conversions and group
  arithmetic. Their results are inputs of `HostManager` and `HostTrust`.
- *Beacon, Wake on LAN, command line*: one chain of requests each, on one thread,
  with nothing running beside it.
- *Negotiator, capabilities, effective settings, controller profiles*: pure
  functions over many plain fields, enumerated by their own tests.
- *Library, preferences, the small setters of the database*: single statements
  that succeed or fail as a whole.
- *Audio, overlays, gamepads, navigation*: a flag, a pointer or a counter around
  calls into a device.
- *Interface, translations, support bundle*: presentation and reading.
- In modelled parts: stream configuration and launch validation of the Session,
  name resolution and box art of the host manager, the three back ends of the
  vault, the minimised-window shortcut of Windows.
