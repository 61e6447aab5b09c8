----------------------------- MODULE HostManager -----------------------------
(***************************************************************************)
(* The paired Hosts kept by ComputerManager                                *)
(* (src/app/backend/computermanager.cpp): the polling threads, the tasks   *)
(* on the thread pool that add and delete a Host, the main thread with its *)
(* event queue, and the delayed flush of the Host records to the database. *)
(* One Host UUID is followed through the NvComputer objects that stand for *)
(* it in turn.                                                             *)
(*                                                                         *)
(* The locks are Qt's QReadWriteLock, not recursive: a reader waits while  *)
(* a writer holds the lock OR waits for it.  A critical section in which   *)
(* nothing else is awaited is one step; waiting for a write lock is a step *)
(* of its own, since it is what stops the readers.  m_DelayedFlushMutex is *)
(* taken by the main thread alone (a worker's saveHosts() is a queued call)*)
(* and needs no model.  The contents of an object are a number, new for    *)
(* every change of a persisted field.                                      *)
(***************************************************************************)
EXTENDS Integers, FiniteSets, Sequences

CONSTANTS
    MaxObjects,   \* bound: NvComputer objects made for the UUID
    Pollers,      \* PcMonitorThread objects that can exist at once
    MaxVersion,   \* bound: changes of a persisted field of an object made
    MaxStarts,    \* bound: calls of startPolling()
    Adders,       \* the PendingAddTasks that may run
    MaxEvents,    \* bound: calls queued for the main thread
    MaxFailures,  \* bound: transactions the database refuses
    CanQuit       \* the application may be closed

ASSUME HostManagerAssumption ==
    /\ MaxObjects \in Nat \ {0}
    /\ MaxVersion \in Nat \ {0}
    /\ {MaxStarts, MaxEvents, MaxFailures} \subseteq Nat
    /\ CanQuit \in BOOLEAN
    /\ IsFiniteSet(Pollers) /\ IsFiniteSet(Adders)
    /\ Pollers \cap Adders = {}
    /\ (Pollers \cup Adders) \cap {"main", "del", "none"} = {}

Objects == 1..MaxObjects
Versions == 0..(MaxVersion + MaxObjects)
NoObject == 0
NoThread == "none"
Threads == Pollers \cup Adders \cup {"main", "del"}

\* m_Lock of the manager, and NvComputer::lock of each object
Manager == 0
Locks == {Manager} \cup Objects

VARIABLES
    writer,      \* [Locks -> Threads or NoThread]
    readers,     \* [Locks -> SUBSET Threads]: held across several steps
    waiting,     \* [Locks -> SUBSET Threads]: waiting to write
    known,       \* m_KnownHosts: the object for the UUID, or NoObject
    active,      \* m_PollEntries: the entry's active thread, or NoThread
    inactive,    \* and its inactive list
    pollRef,     \* m_PollingRef
    poller,      \* [Pollers -> [object, at, interrupted]]
    contents,    \* [Objects -> 0..MaxVersion]: 0 before it is made
    freed,       \* the objects deleted
    version,     \* the last change made
    main,        \* [at, object]: what the main thread does
    events,      \* calls queued for the main thread: an object or SaveAll
    timer,       \* m_DelayedFlushTimer is active
    needsFlush,  \* m_NeedsDelayedFlush
    snapshot,    \* the records flushHosts() has serialized
    lastSaved,   \* m_LastSerializedHosts: contents, 0 when the UUID is absent
    disk,        \* host_records in the database, likewise
    failures,    \* transactions refused so far
    quitting,    \* the event loop has ended
    add,         \* [Adders -> [at, object]]: the PendingAddTasks
    del,         \* [at, object, threads]: the DeferredHostDeletionTask
    starts       \* calls of startPolling() so far

lockVars == <<writer, readers, waiting>>
hostVars == <<known, contents, freed, version>>
pollVars == <<active, inactive, pollRef, poller, starts>>
saveVars == <<timer, needsFlush, snapshot, lastSaved, disk, failures>>
hostManagerVars == <<lockVars, hostVars, pollVars, saveVars,
                     main, events, quitting, add, del>>

SaveAll == 0   \* the queued call of saveHosts()

(***************************************************************************)
(* The lock.                                                               *)
(***************************************************************************)

CanRead(l) == writer[l] = NoThread /\ waiting[l] = {}

CanWrite(l) == writer[l] = NoThread /\ readers[l] = {}

\* Thread t begins to wait for the write lock l.
AwaitWrite(t, l) ==
    /\ waiting' = [waiting EXCEPT ![l] = @ \cup {t}]
    /\ UNCHANGED <<writer, readers>>

\* Thread t, which was waiting, writes under l within this step.
WriteUnder(t, l) ==
    /\ CanWrite(l) /\ t \in waiting[l]
    /\ waiting' = [waiting EXCEPT ![l] = @ \ {t}]
    /\ UNCHANGED <<writer, readers>>

\* Thread t reads under l within this step.
ReadUnder(l) == CanRead(l) /\ UNCHANGED lockVars

\* A persisted field of object o changes.
ChangeContents(o) ==
    /\ version < MaxVersion
    /\ version' = version + 1
    /\ contents' = [contents EXCEPT ![o] = version']

(***************************************************************************)
(* ComputerPollingEntry and startPollingComputer().                        *)
(***************************************************************************)

Finished(t) == poller[t].at = "finished"

NoPoller == [object |-> NoObject, at |-> "none", interrupted |-> FALSE]

\* cleanInactiveList() frees the threads that have finished.
Reaped == {t \in inactive : Finished(t)}

\* X_Mistake, here and below, is the definition X with a plausible mistake in
\* it.  No specification uses it: it shows that a property would catch it.
StartPollingComputer_Always(o, ref) ==
    IF o = NoObject \/ active # NoThread
    THEN UNCHANGED <<active, inactive, poller>>
    ELSE \E t \in Pollers :
           /\ poller[t].at = "none"
           /\ active' = t
           /\ poller' = [poller EXCEPT ![t] = [object |-> o, at |-> "top",
                                               interrupted |-> FALSE]]
           /\ UNCHANGED inactive

\* startPollingComputer(o), with m_Lock held to write and the reference
\* count already ref.  A thread still active on the entry is kept.
StartPollingComputer(o, ref) ==
    IF ref = 0 \/ o = NoObject
    THEN UNCHANGED <<active, inactive, poller>>
    ELSE /\ inactive' = inactive \ Reaped
         /\ IF active # NoThread
            THEN /\ poller' = [t \in Pollers |->
                                 IF t \in Reaped THEN NoPoller ELSE poller[t]]
                 /\ UNCHANGED active
            ELSE \E t \in Pollers :
                   /\ t \in Reaped \/ poller[t].at = "none"
                   /\ active' = t
                   /\ poller' = [u \in Pollers |->
                        IF u = t THEN [object |-> o, at |-> "top",
                                       interrupted |-> FALSE]
                        ELSE IF u \in Reaped THEN NoPoller ELSE poller[u]]

\* interrupt() asks the active thread to end and moves it to the inactive
\* list; the finished ones are freed.
Interrupt ==
    /\ active' = NoThread
    /\ inactive' = (inactive \ Reaped)
                     \cup (IF active = NoThread THEN {} ELSE {active})
    /\ poller' = [t \in Pollers |->
                    IF t = active THEN [poller[t] EXCEPT !.interrupted = TRUE]
                    ELSE IF t \in Reaped THEN NoPoller ELSE poller[t]]

(***************************************************************************)
(* PcMonitorThread::run().                                                 *)
(***************************************************************************)

\* The head of the loop: an interrupted thread ends; another polls the Host
\* and goes on to update() when the right Host has answered.  A failed poll
\* comes back here, and may have found the Host newly offline.
PollHost(t) ==
    /\ poller[t].at = "top"
    /\ LET o == poller[t].object IN
       IF poller[t].interrupted
       THEN /\ poller' = [poller EXCEPT ![t].at = "finished"]
            /\ UNCHANGED lockVars
       ELSE \/ /\ CanRead(o)
               /\ poller' = [poller EXCEPT ![t].at = "update"]
               /\ AwaitWrite(t, o)
            \/ /\ CanRead(o) /\ Len(events) < MaxEvents
               /\ poller' = [poller EXCEPT ![t].at = "offline"]
               /\ UNCHANGED lockVars
    /\ UNCHANGED <<hostVars, active, inactive, pollRef, starts, saveVars, main,
                   events, quitting, add, del>>

\* update() or updateAppList(), under the write lock of the Host.
UpdateHost(t) ==
    LET o == poller[t].object IN
    /\ poller[t].at = "update"
    /\ WriteUnder(t, o)
    /\ \/ /\ Len(events) < MaxEvents /\ ChangeContents(o)
          /\ poller' = [poller EXCEPT ![t].at = "emit"]
       \/ /\ poller' = [poller EXCEPT ![t].at = "top"]
          /\ UNCHANGED <<version, contents>>
    /\ UNCHANGED <<known, freed, active, inactive, pollRef, starts, saveVars,
                   main, events, quitting, add, del>>

\* emit computerStateChanged: a call queued for the main thread.  The app
\* list of a Host that is online may be refreshed next, by a further update.
EmitChange(t) ==
    LET o == poller[t].object IN
    /\ poller[t].at \in {"emit", "offline"}
    /\ events' = Append(events, o)
    /\ \/ /\ poller' = [poller EXCEPT ![t].at = "top"]
          /\ UNCHANGED lockVars
       \/ /\ poller[t].at = "emit"
          /\ poller' = [poller EXCEPT ![t].at = "update"]
          /\ AwaitWrite(t, o)
    /\ UNCHANGED <<hostVars, active, inactive, pollRef, starts, saveVars, main,
                   quitting, add, del>>

PollerStep(t) == PollHost(t) \/ UpdateHost(t) \/ EmitChange(t)

(***************************************************************************)
(* The main thread: the slots it runs, one at a time, from its event loop. *)
(***************************************************************************)

Idle == main.at = "loop" /\ ~quitting

At(where, o) == main' = [at |-> where, object |-> o]

\* saveHosts() on the main thread arms the delayed flush.
SaveHosts == needsFlush' = TRUE /\ timer' = TRUE

AwaitPolling(call) ==
    /\ Idle
    /\ \/ call = "start" /\ starts < MaxStarts
       \/ call = "stop" /\ pollRef > 0
    /\ At(call, NoObject) /\ AwaitWrite("main", Manager)
    /\ UNCHANGED <<hostVars, pollVars, saveVars, events, quitting, add, del>>

\* startPolling(): the first reference starts a thread for each known Host.
StartPolling ==
    /\ main.at = "start" /\ WriteUnder("main", Manager)
    /\ pollRef' = pollRef + 1
    /\ starts' = starts + 1
    /\ IF pollRef = 0 THEN StartPollingComputer(known, 1)
                      ELSE UNCHANGED <<active, inactive, poller>>
    /\ At("loop", NoObject)
    /\ UNCHANGED <<hostVars, saveVars, events, quitting, add, del>>

\* stopPollingAsync(): the last reference interrupts the threads and does
\* not wait for them.
StopPollingAsync ==
    /\ main.at = "stop" /\ WriteUnder("main", Manager)
    /\ pollRef' = pollRef - 1
    /\ IF pollRef = 1 THEN Interrupt
                      ELSE UNCHANGED <<active, inactive, poller>>
    /\ At("loop", NoObject)
    /\ UNCHANGED <<hostVars, starts, saveVars, events, quitting, add, del>>

\* renameHost() and setWakeOverrides(): the user edits a Host.  The second
\* saves at once; both go on to handleComputerStateChanged().
AwaitEdit ==
    /\ Idle /\ known # NoObject
    /\ At("edit", known) /\ AwaitWrite("main", known)
    /\ UNCHANGED <<hostVars, pollVars, saveVars, events, quitting, add, del>>

EditHost ==
    /\ main.at = "edit" /\ WriteUnder("main", main.object)
    /\ ChangeContents(main.object) \/ UNCHANGED <<version, contents>>
    /\ \/ SaveHosts
       \/ UNCHANGED <<timer, needsFlush>>
    /\ At("notify", main.object)
    /\ UNCHANGED <<known, freed, pollVars, snapshot, lastSaved, disk, failures,
                   events, quitting, add, del>>

\* The next queued call: saveHosts() or handleComputerStateChanged().
TakeEvent ==
    /\ Idle /\ events # <<>>
    /\ events' = Tail(events)
    /\ IF Head(events) = SaveAll
       THEN SaveHosts /\ UNCHANGED main
       ELSE At("notify", Head(events)) /\ UNCHANGED <<timer, needsFlush>>
    /\ UNCHANGED <<lockVars, hostVars, pollVars, snapshot, lastSaved, disk,
                   failures, quitting, add, del>>

\* The listeners of computerStateChanged run first, and read the Hosts.
NotifyListeners ==
    /\ main.at = "notify" /\ ReadUnder(Manager)
    /\ At("compare", main.object)
    /\ UNCHANGED <<hostVars, pollVars, saveVars, events, quitting, add, del>>

\* saveHost(): save if the Host differs from what was last serialized.  For
\* an object already deleted the comparison reads freed memory.
SaveHost ==
    /\ main.at = "compare" /\ ReadUnder(main.object)
    /\ \/ /\ main.object \in freed \/ contents[main.object] # lastSaved
          /\ SaveHosts
       \/ /\ main.object \in freed \/ contents[main.object] = lastSaved
          /\ UNCHANGED <<timer, needsFlush>>
    /\ At("loop", NoObject)
    /\ UNCHANGED <<hostVars, pollVars, snapshot, lastSaved, disk, failures,
                   events, quitting, add, del>>

(***************************************************************************)
(* flushHosts(), from the timer or from the destructor.                    *)
(***************************************************************************)

FlushTimeout ==
    /\ Idle /\ timer
    /\ timer' = FALSE
    /\ At("flush", NoObject)
    /\ UNCHANGED <<lockVars, hostVars, pollVars, needsFlush, snapshot,
                   lastSaved, disk, failures, events, quitting, add, del>>

\* The manager is locked to read while every Host is serialized.
FlushLockHosts ==
    /\ main.at = "flush" /\ CanRead(Manager)
    /\ IF known = NoObject
       THEN snapshot' = 0 /\ At("write", NoObject) /\ UNCHANGED readers
       ELSE /\ readers' = [readers EXCEPT ![Manager] = @ \cup {"main"}]
            /\ At("lockHost", known)
            /\ UNCHANGED snapshot
    /\ UNCHANGED <<writer, waiting, hostVars, pollVars, timer, needsFlush,
                   lastSaved, disk, failures, events, quitting, add, del>>

FlushLockHost ==
    /\ main.at = "lockHost" /\ CanRead(main.object)
    /\ readers' = [readers EXCEPT ![main.object] = @ \cup {"main"}]
    /\ At("record", main.object)
    /\ UNCHANGED <<writer, waiting, hostVars, pollVars, saveVars, events,
                   quitting, add, del>>

\* hostRecordFromComputer() locks the Host to read a second time; the locks
\* are then released.
FlushRecord ==
    /\ main.at = "record" /\ CanRead(main.object)
    /\ snapshot' = contents[main.object]
    /\ readers' = [readers EXCEPT ![main.object] = @ \ {"main"},
                                  ![Manager] = @ \ {"main"}]
    /\ At("write", NoObject)
    /\ UNCHANGED <<writer, waiting, hostVars, pollVars, timer, needsFlush,
                   lastSaved, disk, failures, events, quitting, add, del>>

\* What was last serialized is taken from the Hosts again, after the write.
FlushWrite_SerializesAgain ==
    /\ main.at = "write"
    /\ disk' = snapshot
    /\ lastSaved' = IF known = NoObject THEN 0 ELSE contents[known]
    /\ needsFlush' = FALSE
    /\ snapshot' = 0
    /\ At(IF quitting THEN "destroy" ELSE "loop", NoObject)
    /\ UNCHANGED <<lockVars, hostVars, pollVars, timer, failures, events,
                   quitting, add, del>>

\* replaceHostRecords(), one transaction: all of it or nothing.
FlushWrite ==
    /\ main.at = "write"
    /\ \/ /\ disk' = snapshot /\ lastSaved' = snapshot
          /\ needsFlush' = FALSE
          /\ UNCHANGED failures
       \/ /\ failures < MaxFailures
          /\ failures' = failures + 1
          /\ needsFlush' = TRUE
          /\ UNCHANGED <<disk, lastSaved>>
    /\ snapshot' = 0
    /\ At(IF quitting THEN "destroy" ELSE "loop", NoObject)
    /\ UNCHANGED <<lockVars, hostVars, pollVars, timer, events, quitting, add,
                   del>>

(***************************************************************************)
(* The end of the process: main.cpp waits for the thread pool, then the    *)
(* manager is destroyed.  Calls still queued are never delivered.          *)
(***************************************************************************)

\* aboutToQuit: handleAboutToQuit() interrupts the polling threads.
Quit ==
    /\ CanQuit /\ Idle /\ ReadUnder(Manager)
    /\ quitting' = TRUE
    /\ Interrupt
    /\ At("drain", NoObject)
    /\ UNCHANGED <<hostVars, pollRef, starts, saveVars, events, add, del>>

DestructorFlush_StopsTimer ==
    /\ main.at = "drain" /\ del.at = "idle"
    /\ \A a \in Adders : add[a].at \in {"idle", "done"}
    /\ timer' = FALSE
    /\ At("destroy", NoObject)
    /\ UNCHANGED <<lockVars, hostVars, pollVars, needsFlush, snapshot,
                   lastSaved, disk, failures, events, quitting, add, del>>

\* ~ComputerManager() flushes what still waits to be flushed.
DestructorFlush ==
    /\ main.at = "drain" /\ del.at = "idle"
    /\ \A a \in Adders : add[a].at \in {"idle", "done"}
    /\ timer' = FALSE
    /\ At(IF timer \/ needsFlush THEN "flush" ELSE "destroy", NoObject)
    /\ UNCHANGED <<lockVars, hostVars, pollVars, needsFlush, snapshot,
                   lastSaved, disk, failures, events, quitting, add, del>>

\* The threads are interrupted again; deleting the entries waits for them.
DestructorInterrupt ==
    /\ main.at = "destroy" /\ CanWrite(Manager) /\ UNCHANGED lockVars
    /\ Interrupt
    /\ At("join", NoObject)
    /\ UNCHANGED <<hostVars, pollRef, starts, saveVars, events, quitting, add,
                   del>>

DestructorDelete ==
    /\ main.at = "join" /\ \A t \in inactive : Finished(t)
    /\ poller' = [t \in Pollers |->
                    IF t \in inactive THEN NoPoller ELSE poller[t]]
    /\ inactive' = {}
    /\ freed' = freed \cup ({known} \ {NoObject})
    /\ At("exited", NoObject)
    /\ UNCHANGED <<lockVars, known, contents, version, active, pollRef, starts,
                   saveVars, events, quitting, add, del>>

(***************************************************************************)
(* PendingAddTask: a Host found by mDNS or typed by the user.  The queries *)
(* before it looks the UUID up change nothing here.                        *)
(***************************************************************************)

AddNewHost(a) ==
    /\ Idle /\ add[a].at = "idle"
    /\ add' = [add EXCEPT ![a].at = "lookup"]
    /\ UNCHANGED <<lockVars, hostVars, pollVars, saveVars, main, events,
                   quitting, del>>

\* The queries fail, and the task ends.
AddQueryFails(a) ==
    /\ add[a].at = "lookup"
    /\ add' = [add EXCEPT ![a].at = "done"]
    /\ UNCHANGED <<lockVars, hostVars, pollVars, saveVars, main, events,
                   quitting, del>>

\* A known UUID keeps the read lock; a new one lets it go.
AddLookup(a) ==
    /\ add[a].at = "lookup" /\ CanRead(Manager)
    /\ IF known # NoObject
       THEN /\ readers' = [readers EXCEPT ![Manager] = @ \cup {a}]
            /\ waiting' = [waiting EXCEPT ![known] = @ \cup {a}]
            /\ add' = [add EXCEPT ![a].at = "fold", ![a].object = known]
       ELSE /\ add' = [add EXCEPT ![a].at = "unlocked"]
            /\ UNCHANGED <<readers, waiting>>
    /\ UNCHANGED <<writer, hostVars, pollVars, saveVars, main, events,
                   quitting, del>>

AddLockForWrite(a) ==
    /\ add[a].at = "unlocked"
    /\ AwaitWrite(a, Manager)
    /\ add' = [add EXCEPT ![a].at = "lock"]
    /\ UNCHANGED <<hostVars, pollVars, saveVars, main, events, quitting, del>>

AddInsert_LooksUpOnce(a) ==
    /\ add[a].at = "lock" /\ CanWrite(Manager)
    /\ \E o \in Objects :
         /\ contents[o] = 0 /\ \A p \in 1..(o - 1) : contents[p] # 0
         /\ version' = version + 1
         /\ contents' = [contents EXCEPT ![o] = version']
         /\ known' = o
         /\ StartPollingComputer(o, pollRef)
         /\ waiting' = [waiting EXCEPT ![Manager] = @ \ {a}]
         /\ add' = [add EXCEPT ![a].at = "emit", ![a].object = o]
    /\ UNCHANGED <<writer, readers, freed, pollRef, starts, saveVars, main,
                   events, quitting, del>>

\* Under the write lock the UUID is looked up again: another task may have
\* added it.  A new object is stored, and polled if polling is on.  (An address
\* that STUN finds is added to it before AddEmit, whose news covers it.)
AddInsert(a) ==
    /\ add[a].at = "lock" /\ CanWrite(Manager)
    /\ IF known # NoObject
       THEN /\ writer' = [writer EXCEPT ![Manager] = a]
            /\ waiting' = [waiting EXCEPT ![Manager] = @ \ {a},
                                          ![known] = @ \cup {a}]
            /\ add' = [add EXCEPT ![a].at = "fold", ![a].object = known]
            /\ UNCHANGED <<hostVars, active, inactive, poller>>
       ELSE \E o \in Objects :
              /\ contents[o] = 0 /\ \A p \in 1..(o - 1) : contents[p] # 0
              /\ version' = version + 1
              /\ contents' = [contents EXCEPT ![o] = version']
              /\ known' = o
              /\ StartPollingComputer(o, pollRef)
              /\ waiting' = [waiting EXCEPT ![Manager] = @ \ {a}]
              /\ add' = [add EXCEPT ![a].at = "emit", ![a].object = o]
              /\ UNCHANGED <<writer, freed>>
    /\ UNCHANGED <<readers, pollRef, starts, saveVars, main, events, quitting,
                   del>>

\* update() of the known object; then the manager's lock is released.
AddFold(a) ==
    LET o == add[a].object IN
    /\ add[a].at = "fold" /\ CanWrite(o)
    /\ waiting' = [waiting EXCEPT ![o] = @ \ {a}]
    /\ readers' = [readers EXCEPT ![Manager] = @ \ {a}]
    /\ writer' = [writer EXCEPT ![Manager] = NoThread]
    /\ \/ /\ ChangeContents(o)
          /\ add' = [add EXCEPT ![a].at = "emit"]
       \/ /\ add' = [add EXCEPT ![a].at = "done"]
          /\ UNCHANGED <<version, contents>>
    /\ UNCHANGED <<known, freed, pollVars, saveVars, main, events, quitting,
                   del>>

AddEmit(a) ==
    /\ add[a].at = "emit"
    /\ events' = Append(events, add[a].object)
    /\ add' = [add EXCEPT ![a].at = "done"]
    /\ UNCHANGED <<lockVars, hostVars, pollVars, saveVars, main, quitting, del>>

(***************************************************************************)
(* DeferredHostDeletionTask.                                               *)
(***************************************************************************)

\* The user deletes a Host.  (Bound: an object is left to add it again.)
DeleteHost ==
    /\ Idle /\ del.at = "idle" /\ known # NoObject
    /\ \E o \in Objects : contents[o] = 0
    /\ del' = [at |-> "lock", object |-> known, threads |-> {}]
    /\ AwaitWrite("del", Manager)
    /\ UNCHANGED <<hostVars, pollVars, saveVars, main, events, quitting, add>>

\* Under the write lock the task takes the polling entry and the Host.
DelTakeHost ==
    /\ del.at = "lock" /\ WriteUnder("del", Manager)
    /\ known' = NoObject
    /\ active' = NoThread /\ inactive' = {}
    /\ del' = [del EXCEPT !.at = "save",
                          !.threads = inactive \cup ({active} \ {NoThread})]
    /\ UNCHANGED <<contents, freed, version, pollRef, poller, starts, saveVars,
                   main, events, quitting, add>>

\* saveHosts() from a worker is a queued call.
DelSaveHosts ==
    /\ del.at = "save"
    /\ events' = Append(events, SaveAll)
    /\ del' = [del EXCEPT !.at = "interrupt"]
    /\ UNCHANGED <<lockVars, hostVars, pollVars, saveVars, main, quitting, add>>

DelInterrupt_Missing ==
    /\ del.at = "interrupt"
    /\ del' = [del EXCEPT !.at = "join"]
    /\ UNCHANGED <<lockVars, hostVars, pollVars, saveVars, main, events,
                   quitting, add>>

\* The entry is deleted: its threads are interrupted, then awaited.
DelInterrupt ==
    /\ del.at = "interrupt"
    /\ poller' = [t \in Pollers |->
                    [poller[t] EXCEPT !.interrupted = @ \/ t \in del.threads]]
    /\ del' = [del EXCEPT !.at = "join"]
    /\ UNCHANGED <<lockVars, hostVars, active, inactive, pollRef, starts,
                   saveVars, main, events, quitting, add>>

DelJoin_NotAwaited ==
    /\ del.at = "join"
    /\ del' = [del EXCEPT !.at = "free", !.threads = {}]
    /\ UNCHANGED <<lockVars, hostVars, pollVars, saveVars, main, events,
                   quitting, add>>

DelJoin ==
    /\ del.at = "join" /\ \A t \in del.threads : Finished(t)
    /\ poller' = [t \in Pollers |->
                    IF t \in del.threads THEN NoPoller ELSE poller[t]]
    /\ del' = [del EXCEPT !.at = "free", !.threads = {}]
    /\ UNCHANGED <<lockVars, hostVars, active, inactive, pollRef, starts,
                   saveVars, main, events, quitting, add>>

\* The object itself is deleted last.
DelFree ==
    /\ del.at = "free"
    /\ freed' = freed \cup {del.object}
    /\ del' = [del EXCEPT !.at = "idle", !.object = NoObject]
    /\ UNCHANGED <<lockVars, known, contents, version, pollVars, saveVars, main,
                   events, quitting, add>>

(***************************************************************************)
(* The specification.  Every thread that can go on does, the lock wakes a  *)
(* reader once the writer has left, and the event loop does not starve the *)
(* timer, which is armed for 50 ms; the user and the network owe nothing.  *)
(***************************************************************************)

\* The Host is loaded from the database, or is not known yet.  What is left
\* of the bounds is free: a run chooses.
HostManagerInit ==
    /\ writer = [l \in Locks |-> NoThread]
    /\ readers = [l \in Locks |-> {}]
    /\ waiting = [l \in Locks |-> {}]
    /\ known \in {1, NoObject}
    /\ contents = [o \in Objects |-> IF o = known THEN 1 ELSE 0]
    /\ freed = {} /\ version \in 1..MaxVersion
    /\ active = NoThread /\ inactive = {} /\ pollRef = 0
    /\ starts \in 0..MaxStarts
    /\ poller = [t \in Pollers |-> NoPoller]
    /\ timer = FALSE /\ needsFlush = FALSE
    /\ snapshot = 0 /\ lastSaved = known /\ disk = known
    /\ failures \in 0..MaxFailures
    /\ main = [at |-> "loop", object |-> NoObject]
    /\ events = <<>> /\ quitting = FALSE
    /\ add \in [Adders -> [at : {"idle", "done"}, object : {NoObject}]]
    /\ del = [at |-> "idle", object |-> NoObject, threads |-> {}]

UserStep ==
    \/ AwaitPolling("start") \/ AwaitPolling("stop")
    \/ AwaitEdit \/ DeleteHost \/ Quit
    \/ \E a \in Adders : AddNewHost(a)

MainStep ==
    \/ StartPolling \/ StopPollingAsync \/ EditHost
    \/ TakeEvent \/ NotifyListeners \/ SaveHost
    \/ FlushTimeout \/ FlushLockHosts \/ FlushLockHost \/ FlushRecord
    \/ FlushWrite
    \/ DestructorFlush \/ DestructorInterrupt \/ DestructorDelete

AddStep(a) ==
    \/ AddQueryFails(a) \/ AddLookup(a) \/ AddLockForWrite(a)
    \/ AddInsert(a) \/ AddFold(a) \/ AddEmit(a)

DelStep ==
    DelTakeHost \/ DelSaveHosts \/ DelInterrupt \/ DelJoin \/ DelFree

HostManagerNext ==
    \/ UserStep \/ MainStep \/ DelStep
    \/ \E t \in Pollers : PollerStep(t)
    \/ \E a \in Adders : AddStep(a)

HostManagerFairness ==
    /\ SF_hostManagerVars(MainStep)
    /\ SF_hostManagerVars(FlushTimeout)
    /\ WF_hostManagerVars(DelStep)
    /\ \A t \in Pollers : WF_hostManagerVars(PollerStep(t))
    /\ \A a \in Adders : WF_hostManagerVars(AddStep(a))

HostManagerSpec ==
    /\ HostManagerInit /\ [][HostManagerNext]_hostManagerVars
    /\ HostManagerFairness

(***************************************************************************)
(* Properties.                                                             *)
(***************************************************************************)

\* Every variable keeps its type.
HostManagerTypeOK ==
    /\ writer \in [Locks -> Threads \cup {NoThread}]
    /\ readers \in [Locks -> SUBSET Threads]
    /\ waiting \in [Locks -> SUBSET Threads]
    /\ known \in Objects \cup {NoObject}
    /\ contents \in [Objects -> Versions]
    /\ freed \subseteq Objects
    /\ version \in Versions
    /\ active \in Pollers \cup {NoThread} /\ inactive \subseteq Pollers
    /\ pollRef \in Nat /\ starts \in Nat
    /\ poller \in [Pollers -> [object : Objects \cup {NoObject},
                               at : {"none", "top", "update", "emit",
                                     "offline", "finished"},
                               interrupted : BOOLEAN]]
    /\ {timer, needsFlush, quitting} \subseteq BOOLEAN
    /\ {snapshot, lastSaved, disk} \subseteq Versions
    /\ failures \in 0..MaxFailures
    /\ main \in [at : {"loop", "start", "stop", "edit", "notify", "compare",
                       "flush", "lockHost", "record", "write", "drain",
                       "destroy", "join", "exited"},
                 object : Objects \cup {NoObject}]
    /\ events \in Seq(Objects \cup {SaveAll})
    /\ add \in [Adders -> [at : {"idle", "lookup", "unlocked", "lock",
                                 "fold", "emit", "done"},
                           object : Objects \cup {NoObject}]]
    /\ del \in [at : {"idle", "lock", "save", "interrupt", "join", "free"},
                object : Objects \cup {NoObject}, threads : SUBSET Pollers]

\* A polling thread never outlives the Host it polls: deleting a Host, and
\* the manager, waits for its threads first (computermanager.cpp:638-646,
\* :372-385).
HostOutlivesItsThreads ==
    \A t \in Pollers :
        poller[t].at \notin {"none", "finished"} => poller[t].object \notin freed

\* There is one object for the UUID, however the tasks that add it race: an
\* object that was made is the known one, or is being or has been deleted
\* (computermanager.cpp:1080-1122).
OneObjectPerHost ==
    \A o \in Objects :
        contents[o] # 0 => o = known \/ o = del.object \/ o \in freed

\* While someone holds a reference to polling the known Host has exactly one
\* thread that goes on polling it; with none it has none.  (An add task that
\* ends after aboutToQuit still starts a thread: the destructor stops it.)
PolledByOneThread ==
    LET going == {t \in Pollers : /\ poller[t].at # "none"
                                  /\ ~poller[t].interrupted
                                  /\ t \notin del.threads} IN
    ~quitting =>
        IF pollRef > 0 /\ known # NoObject
        THEN going = {active} /\ poller[active].object = known
        ELSE going = {}

\* What the records would hold if they were written now.
Current == IF known = NoObject THEN 0 ELSE contents[known]

InFlight ==
    \/ SaveAll \in {events[i] : i \in DOMAIN events}
    \/ known \in {events[i] : i \in DOMAIN events} \ {SaveAll}
    \/ del.at = "save"
    \/ \E t \in Pollers : poller[t].object = known /\ poller[t].at = "emit"
    \/ \E a \in Adders : add[a].object = known /\ add[a].at = "emit"
    \/ main.object = known /\ main.at \in {"notify", "compare"}

\* No change of a Host is forgotten: when the database differs from the
\* records, a flush is due or the news of the change is on its way to the main
\* thread.  A flush that races a change, or fails, does not lose it
\* (computermanager.cpp:389-433, 572-600).
ChangeIsScheduled ==
    disk # Current => timer \/ needsFlush \/ InFlight

\* A clean exit saves what the main thread knew: at the end the database has
\* the current records, unless the news of a change was still queued or the
\* last transaction was refused.
ExitSavesHosts ==
    main.at = "exited" =>
        \/ disk = Current
        \/ InFlight
        \/ needsFlush /\ failures > 0

\* The main thread waits for itself: it reads a Host in flushHosts() and wants
\* to read it again, and a thread waits to write it.
FlushWaitsForItself ==
    main.at = "record" /\ waiting[main.object] # {}

\* A deletion that was begun is completed, whatever the polling threads and
\* the other tasks do; nothing but the nested read of flushHosts() stops it.
DeletionEnds == del.at = "lock" ~> (del.at = "idle" \/ FlushWaitsForItself)

\* "Persist immediately" (computermanager.cpp:704): a save that was asked for
\* is written.
RequestedSaveIsWritten == needsFlush ~> ~needsFlush
=============================================================================
