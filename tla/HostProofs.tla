----------------------------- MODULE HostProofs -----------------------------
(***************************************************************************)
(* Proofs about the host manager, for any number of objects, threads and   *)
(* tasks: one object stands for a Host, none is deleted under the thread   *)
(* that polls it, one thread polls it, no change of it is forgotten, and   *)
(* what is known at the exit is saved.                                     *)
(***************************************************************************)
EXTENDS HostManager, TLAPS

MadeOr0 == Objects \cup {NoObject}

PollerState == [object : MadeOr0,
                at : {"none", "top", "update", "emit", "offline", "finished"},
                interrupted : BOOLEAN]
AddState == [at : {"idle", "lookup", "unlocked", "lock", "fold", "emit", "done"},
             object : MadeOr0]
DelState == [at : {"idle", "lock", "save", "interrupt", "join", "free"},
             object : MadeOr0, threads : SUBSET Pollers]

\* The parts of the type invariant the proofs need.
HostType ==
    /\ version \in Nat /\ contents \in [Objects -> Nat]
    /\ known \in MadeOr0 /\ freed \subseteq Objects
    /\ active \in Pollers \cup {NoThread} /\ inactive \subseteq Pollers
    /\ poller \in [Pollers -> PollerState]
    /\ add \in [Adders -> AddState] /\ del \in DelState

Made(o) == o = NoObject \/ contents[o] # 0
Running(t) == poller[t].at \notin {"none", "finished"}

\* Whatever is referred to was made.
ReferredMade ==
    /\ Made(known) /\ Made(del.object)
    /\ \A o \in freed : Made(o)
    /\ \A t \in Pollers : Made(poller[t].object)
    /\ \A a \in Adders : Made(add[a].object)
    /\ main.at = "edit" => main.object \in MadeOr0 /\ Made(main.object)

\* What the deletion task holds.
DeletionHolds ==
    /\ del.at = "idle" <=> del.object = NoObject
    /\ del.at = "lock" => known = del.object
    /\ del.at \in {"save", "interrupt", "join", "free"} => known # del.object
    /\ del.at \notin {"save", "interrupt", "join"} => del.threads = {}
    /\ del.object \notin freed

\* A thread that runs is the entry's, and polls the known Host, or is the
\* deletion task's, and polls the Host it deletes.
ThreadsPlaced ==
    \A t \in Pollers : Running(t) =>
        /\ poller[t].object # NoObject
        /\ \/ (t = active \/ t \in inactive) /\ poller[t].object = known
           \/ t \in del.threads /\ poller[t].object = del.object

\* Once the thread pool has been awaited no task is left; the destructor finds
\* the polling stopped.
Ending ==
    /\ quitting => main.at \in {"drain", "flush", "lockHost", "record",
                                "write", "destroy", "join", "exited"}
    /\ main.at \in {"drain", "destroy", "join", "exited"} => quitting
    /\ quitting /\ main.at # "drain" =>
         del.at = "idle" /\ \A a \in Adders : add[a].at \in {"idle", "done"}
    /\ main.at \in {"join", "exited"} => active = NoThread
    /\ main.at = "exited" => \A t \in Pollers : ~Running(t)
    /\ known \in freed => main.at = "exited"

HostInv ==
    /\ HostType /\ ReferredMade /\ DeletionHolds /\ ThreadsPlaced /\ Ending
    /\ HostOutlivesItsThreads /\ OneObjectPerHost

(***************************************************************************)
(* The operators.                                                          *)
(***************************************************************************)

LEMMA ZeroIsNoObject == NoObject \notin Objects
BY DEF NoObject, Objects

LEMMA MainIsNoThread == NoThread \notin Pollers
BY HostManagerAssumption DEF NoThread

LEMMA NoPollerState == NoPoller \in PollerState
BY DEF NoPoller, PollerState, MadeOr0

\* A change of an object's contents leaves what was made made.
LEMMA ChangeKeeps ==
    ASSUME HostType, NEW o, ChangeContents(o)
    PROVE  /\ version' \in Nat /\ contents' \in [Objects -> Nat]
           /\ \A p \in Objects : contents[p] # 0 => contents'[p] # 0
           /\ \A p \in Objects : contents'[p] # 0 => contents[p] # 0 \/ p = o
<1>1. version' \in Nat /\ version' # 0
    BY DEF HostType, ChangeContents
<1>2. \A p \in Objects : contents'[p] = IF p = o THEN version' ELSE contents[p]
    BY DEF HostType, ChangeContents
<1>3. contents' \in [Objects -> Nat]
    BY <1>1 DEF HostType, ChangeContents
<1> QED BY <1>1, <1>2, <1>3

\* Starting to poll: only the thread started, if any, begins to run; it is the
\* entry's and polls o.  The others go on as they were or are freed.
LEMMA StartKeeps ==
    ASSUME HostType, NEW o \in MadeOr0, NEW ref, StartPollingComputer(o, ref)
    PROVE  /\ active' \in Pollers \cup {NoThread} /\ inactive' \subseteq Pollers
           /\ poller' \in [Pollers -> PollerState]
           /\ \A t \in Pollers : Running(t)' =>
                \/ t = active' /\ poller'[t].object = o /\ o # NoObject
                \/ /\ Running(t) /\ poller'[t].object = poller[t].object
                   /\ t = active => t = active'
                   /\ t \in inactive => t \in inactive'
           /\ \A t \in Pollers : poller'[t].object \in {poller[t].object, o, NoObject}
<1>1. CASE ref = 0 \/ o = NoObject
    BY <1>1 DEF StartPollingComputer, HostType, Running
<1>2. CASE ~(ref = 0 \/ o = NoObject) /\ active # NoThread
    <2>1. /\ inactive' = inactive \ Reaped /\ active' = active
          /\ poller' = [t \in Pollers |->
                          IF t \in Reaped THEN NoPoller ELSE poller[t]]
        BY <1>2 DEF StartPollingComputer
    <2>2. \A t \in Pollers : t \in Reaped => ~Running(t)
        BY DEF Reaped, Finished, Running
    <2>3. poller' \in [Pollers -> PollerState]
        BY <2>1, NoPollerState DEF HostType
    <2> QED BY <2>1, <2>2, <2>3 DEF HostType, Running, NoPoller
<1>3. CASE ~(ref = 0 \/ o = NoObject) /\ active = NoThread
    <2>1. inactive' = inactive \ Reaped
        BY <1>3 DEF StartPollingComputer
    <2>2. PICK t \in Pollers :
            /\ t \in Reaped \/ poller[t].at = "none"
            /\ active' = t
            /\ poller' = [u \in Pollers |->
                 IF u = t THEN [object |-> o, at |-> "top", interrupted |-> FALSE]
                 ELSE IF u \in Reaped THEN NoPoller ELSE poller[u]]
        BY <1>3 DEF StartPollingComputer
    <2>3. \A u \in Pollers : u \in Reaped => ~Running(u)
        BY DEF Reaped, Finished, Running
    <2>4. [object |-> o, at |-> "top", interrupted |-> FALSE] \in PollerState
        BY DEF PollerState
    <2>5. poller' \in [Pollers -> PollerState]
        BY <2>2, <2>4, NoPollerState DEF HostType
    <2>6. \A u \in Pollers : Running(u)' =>
                \/ u = active' /\ poller'[u].object = o /\ o # NoObject
                \/ /\ Running(u) /\ poller'[u].object = poller[u].object
                   /\ u = active => u = active'
                   /\ u \in inactive => u \in inactive'
        <3> SUFFICES ASSUME NEW u \in Pollers, Running(u)'
                     PROVE  \/ u = active' /\ poller'[u].object = o
                               /\ o # NoObject
                            \/ /\ Running(u)
                               /\ poller'[u].object = poller[u].object
                               /\ u = active => u = active'
                               /\ u \in inactive => u \in inactive'
            OBVIOUS
        <3>1. CASE u = t
            BY <1>3, <2>2, <3>1
        <3>2. CASE u # t /\ u \in Reaped
            BY <2>2, <3>2 DEF Running, NoPoller
        <3>3. CASE u # t /\ u \notin Reaped
            BY <1>3, <2>1, <2>2, <3>3, MainIsNoThread DEF Running
        <3> QED BY <3>1, <3>2, <3>3
    <2>7. \A u \in Pollers :
             poller'[u].object \in {poller[u].object, o, NoObject}
        BY <2>2 DEF NoPoller
    <2> QED BY <2>1, <2>2, <2>5, <2>6, <2>7 DEF HostType
<1> QED BY <1>1, <1>2, <1>3

\* Interrupting: a thread that runs afterwards ran before, and is still the
\* entry's if it was.
LEMMA InterruptKeeps ==
    ASSUME HostType, Interrupt
    PROVE  /\ active' = NoThread /\ inactive' \subseteq Pollers
           /\ poller' \in [Pollers -> PollerState]
           /\ \A t \in Pollers : Running(t)' =>
                /\ Running(t) /\ poller'[t].object = poller[t].object
                /\ (t = active \/ t \in inactive) => t \in inactive'
           /\ \A t \in Pollers : poller'[t].object \in {poller[t].object, NoObject}
<1>1. inactive' = (inactive \ Reaped)
                     \cup (IF active = NoThread THEN {} ELSE {active})
    BY DEF Interrupt
<1>2. poller' = [t \in Pollers |->
                    IF t = active THEN [poller[t] EXCEPT !.interrupted = TRUE]
                    ELSE IF t \in Reaped THEN NoPoller ELSE poller[t]]
    BY DEF Interrupt
<1>3. \A t \in Pollers :
        LET p == [poller[t] EXCEPT !.interrupted = TRUE] IN
        p \in PollerState /\ p.object = poller[t].object /\ p.at = poller[t].at
    BY DEF HostType, PollerState
<1>4. \A t \in Pollers : t \in Reaped => ~Running(t)
    BY DEF Reaped, Finished, Running
<1>5. poller' \in [Pollers -> PollerState]
    BY <1>2, <1>3, NoPollerState DEF HostType
<1>6. inactive' \subseteq Pollers /\ active' = NoThread
    BY <1>1 DEF HostType, Interrupt
<1>7. \A t \in Pollers : Running(t)' =>
          /\ Running(t) /\ poller'[t].object = poller[t].object
          /\ (t = active \/ t \in inactive) => t \in inactive'
    <2> SUFFICES ASSUME NEW t \in Pollers, Running(t)'
                 PROVE  /\ Running(t) /\ poller'[t].object = poller[t].object
                        /\ (t = active \/ t \in inactive) => t \in inactive'
        OBVIOUS
    <2>1. CASE t = active
        BY <1>1, <1>2, <1>3, <2>1, MainIsNoThread DEF Running
    <2>2. CASE t # active /\ t \in Reaped
        BY <1>2, <2>2 DEF Running, NoPoller
    <2>3. CASE t # active /\ t \notin Reaped
        BY <1>1, <1>2, <2>3 DEF Running
    <2> QED BY <2>1, <2>2, <2>3
<1>8. \A t \in Pollers : poller'[t].object \in {poller[t].object, NoObject}
    BY <1>2, <1>3 DEF NoPoller
<1> QED BY <1>5, <1>6, <1>7, <1>8

(***************************************************************************)
(* Steps of the main thread.                                               *)
(***************************************************************************)

taskVars == <<hostVars, active, inactive, poller, add, del, quitting>>

LEMMA InvInit == HostManagerInit => HostInv
<1> SUFFICES ASSUME HostManagerInit PROVE HostInv
    OBVIOUS
<1>1. HostType
    BY HostManagerAssumption, NoPollerState
    DEF HostManagerInit, HostType, MadeOr0, Objects, NoObject, AddState, DelState
<1>2. \A t \in Pollers : ~Running(t) /\ poller[t].object = NoObject
    BY DEF HostManagerInit, NoPoller, Running
<1>3. ReferredMade
    BY <1>2, HostManagerAssumption
    DEF HostManagerInit, ReferredMade, Made, Objects, NoObject
<1>4. DeletionHolds /\ Ending
    BY <1>2, ZeroIsNoObject DEF HostManagerInit, DeletionHolds, Ending
<1>5. ThreadsPlaced
    BY <1>2 DEF ThreadsPlaced
<1>6. HostOutlivesItsThreads /\ OneObjectPerHost
    BY DEF HostManagerInit, HostOutlivesItsThreads, OneObjectPerHost
<1> QED BY <1>1, <1>3, <1>4, <1>5, <1>6 DEF HostInv

\* A step that moves the main thread alone.
LEMMA MainMoves ==
    ASSUME HostInv, UNCHANGED taskVars,
           main'.at = "edit" => main'.object \in MadeOr0 /\ Made(main'.object),
           Ending'
    PROVE  HostInv'
<1> USE DEF taskVars, hostVars
<1>1. HostType' /\ DeletionHolds' /\ ThreadsPlaced'
    BY DEF HostInv, HostType, DeletionHolds, ThreadsPlaced, Running
<1>2. ReferredMade'
    BY DEF HostInv, ReferredMade, Made
<1>3. HostOutlivesItsThreads' /\ OneObjectPerHost'
    BY DEF HostInv, HostOutlivesItsThreads, OneObjectPerHost
<1> QED BY <1>1, <1>2, <1>3 DEF HostInv

LEMMA MainSteps ==
    ASSUME HostInv,
           \/ AwaitPolling("start") \/ AwaitPolling("stop") \/ AwaitEdit
           \/ TakeEvent \/ NotifyListeners \/ SaveHost \/ FlushTimeout
           \/ FlushLockHosts \/ FlushLockHost \/ FlushRecord \/ FlushWrite
           \/ DestructorFlush
    PROVE  HostInv'
<1> USE DEF taskVars, hostVars, pollVars, At, Idle
<1>1. ASSUME NEW call \in {"start", "stop"}, AwaitPolling(call) PROVE HostInv'
    <2>1. UNCHANGED taskVars /\ Ending'
        BY <1>1 DEF AwaitPolling, HostInv, Ending, Running
    <2> QED BY <1>1, <2>1, MainMoves DEF AwaitPolling
<1>2. CASE AwaitEdit
    <2>1. UNCHANGED taskVars /\ Ending'
        BY <1>2 DEF AwaitEdit, HostInv, Ending, Running
    <2> QED BY <1>2, <2>1, MainMoves
            DEF AwaitEdit, HostInv, HostType, ReferredMade, Made
<1>3. CASE TakeEvent
    <2>1. UNCHANGED taskVars /\ Ending' /\ main'.at \in {"loop", "notify"}
        BY <1>3 DEF TakeEvent, HostInv, Ending, Running
    <2> QED BY <1>3, <2>1, MainMoves
<1>4. CASE NotifyListeners \/ SaveHost \/ FlushTimeout
    <2>1. UNCHANGED taskVars /\ Ending' /\ main'.at \in {"compare", "loop", "flush"}
        BY <1>4
        DEF NotifyListeners, SaveHost, FlushTimeout, HostInv, Ending, Running
    <2> QED BY <1>4, <2>1, MainMoves
<1>5. CASE FlushLockHosts \/ FlushLockHost \/ FlushRecord
    <2>1. UNCHANGED taskVars /\ Ending' /\ main'.at \in {"lockHost", "record", "write"}
        BY <1>5
        DEF FlushLockHosts, FlushLockHost, FlushRecord, HostInv, Ending, Running
    <2> QED BY <1>5, <2>1, MainMoves
<1>6. CASE FlushWrite \/ DestructorFlush
    <2>1. UNCHANGED taskVars /\ Ending' /\ main'.at \in {"destroy", "loop", "flush"}
        BY <1>6 DEF FlushWrite, DestructorFlush, HostInv, Ending, Running
    <2> QED BY <1>6, <2>1, MainMoves
<1> QED BY <1>1, <1>2, <1>3, <1>4, <1>5, <1>6

(***************************************************************************)
(* Steps that start no thread and make no object.                          *)
(***************************************************************************)

\* What was made stays so, and nothing else is made.
MadeKept ==
    /\ version' \in Nat /\ contents' \in [Objects -> Nat]
    /\ \A p \in MadeOr0 : Made(p)' <=> Made(p)

\* The threads that run did so before, on the same Host.
ThreadsKept ==
    /\ active' \in Pollers \cup {NoThread} /\ inactive' \subseteq Pollers
    /\ poller' \in [Pollers -> PollerState]
    /\ \A t \in Pollers : Running(t)' =>
          /\ Running(t) /\ poller'[t].object = poller[t].object
          /\ (t = active \/ t \in inactive) => (t = active' \/ t \in inactive')
    /\ \A t \in Pollers : poller'[t].object \in {poller[t].object, NoObject}

LEMMA NothingMade ==
    ASSUME HostInv, UNCHANGED <<version, contents>>
    PROVE  MadeKept
BY DEF HostInv, HostType, MadeKept, Made

LEMMA MadeObjectChanges ==
    ASSUME HostInv, NEW o \in MadeOr0, Made(o), ChangeContents(o)
    PROVE  MadeKept
BY ChangeKeeps, ZeroIsNoObject DEF HostInv, MadeKept, Made, MadeOr0

LEMMA ThreadsUnchanged ==
    ASSUME HostInv, UNCHANGED <<active, inactive, poller>>
    PROVE  ThreadsKept
BY DEF HostInv, HostType, ThreadsKept, Running

LEMMA ThreadsInterrupted ==
    ASSUME HostInv, Interrupt
    PROVE  ThreadsKept
BY InterruptKeeps DEF HostInv, ThreadsKept

\* A thread that runs goes on, or ends.
LEMMA ThreadGoesOn ==
    ASSUME HostInv, NEW t \in Pollers, Running(t),
           NEW where \in {"top", "update", "emit", "offline", "finished"},
           poller' = [poller EXCEPT ![t].at = where],
           UNCHANGED <<active, inactive>>
    PROVE  ThreadsKept
BY DEF HostInv, HostType, PollerState, ThreadsKept, Running

LEMMA QuietStep ==
    ASSUME HostInv, MadeKept, ThreadsKept, UNCHANGED <<known, freed, del>>,
           add' \in [Adders -> AddState],
           \A a \in Adders : add'[a].object = add[a].object \/ Made(add'[a].object),
           main'.at # "edit" \/ main' = main,
           Ending'
    PROVE  HostInv'
<1>1. HostType'
    BY DEF HostInv, HostType, MadeKept, ThreadsKept
<1>2. ReferredMade'
    <2>1. \A o \in MadeOr0 : Made(o) => Made(o)'
        BY DEF MadeKept
    <2>2. Made(known)' /\ Made(del.object)' /\ \A o \in freed' : Made(o)'
        BY <2>1 DEF HostInv, HostType, ReferredMade, MadeOr0, DelState
    <2>3. \A t \in Pollers : Made(poller[t].object)'
        <3> TAKE t \in Pollers
        <3>1. poller[t].object \in MadeOr0 /\ Made(poller[t].object)
            BY DEF HostInv, HostType, ReferredMade, PollerState
        <3>2. poller'[t].object \in MadeOr0 /\ Made(poller'[t].object)
            BY <3>1 DEF ThreadsKept, MadeOr0, Made
        <3> QED BY <3>2, <2>1 DEF Made
    <2>4. \A a \in Adders : Made(add[a].object)'
        <3> TAKE a \in Adders
        <3>1. add'[a].object \in MadeOr0 /\ Made(add'[a].object)
            BY DEF HostInv, HostType, ReferredMade, AddState
        <3> QED BY <3>1, <2>1 DEF Made
    <2>5. (main.at = "edit" => main.object \in MadeOr0 /\ Made(main.object))'
        BY <2>1 DEF HostInv, ReferredMade
    <2> QED BY <2>2, <2>3, <2>4, <2>5 DEF ReferredMade
<1>3. DeletionHolds'
    BY DEF HostInv, DeletionHolds
<1>4. ThreadsPlaced'
    BY DEF HostInv, ThreadsPlaced, ThreadsKept
<1>5. HostOutlivesItsThreads' /\ OneObjectPerHost'
    <2>1. \A o \in Objects : contents'[o] # 0 => contents[o] # 0
        BY ZeroIsNoObject DEF MadeKept, Made, MadeOr0
    <2> QED BY <2>1 DEF HostInv, HostOutlivesItsThreads, OneObjectPerHost,
                        ThreadsKept, Running
<1> QED BY <1>1, <1>2, <1>3, <1>4, <1>5 DEF HostInv

\* Each of these steps keeps what it must.
LEMMA QuietMainSteps ==
    ASSUME HostInv,
           \/ StopPollingAsync \/ Quit \/ DestructorInterrupt \/ EditHost
           \/ StartPolling /\ pollRef # 0
    PROVE  HostInv'
<1> USE DEF hostVars, pollVars, At, Idle
<1>0. add \in [Adders -> AddState]
    BY DEF HostInv, HostType
<1>1. CASE StopPollingAsync
    <2>1. ThreadsKept
        BY <1>1, ThreadsInterrupted, ThreadsUnchanged DEF StopPollingAsync
    <2>2. Ending' /\ main'.at = "loop"
        BY <1>1 DEF StopPollingAsync, HostInv, Ending
    <2> QED BY <1>0, <1>1, <2>1, <2>2, NothingMade, QuietStep
            DEF StopPollingAsync
<1>2. CASE Quit
    <2>1. ThreadsKept
        BY <1>2, ThreadsInterrupted DEF Quit
    <2>2. Ending' /\ main'.at = "drain"
        BY <1>2 DEF Quit, HostInv, Ending
    <2> QED BY <1>0, <1>2, <2>1, <2>2, NothingMade, QuietStep DEF Quit
<1>3. CASE DestructorInterrupt
    <2>1. ThreadsKept
        BY <1>3, ThreadsInterrupted DEF DestructorInterrupt
    <2>2. Ending' /\ main'.at = "join"
        BY <1>3 DEF DestructorInterrupt, HostInv, Ending, Interrupt
    <2> QED BY <1>0, <1>3, <2>1, <2>2, NothingMade, QuietStep
            DEF DestructorInterrupt
<1>4. CASE EditHost
    <2>1. MadeKept
        BY <1>4, NothingMade, MadeObjectChanges
        DEF EditHost, HostInv, ReferredMade
    <2>2. ThreadsKept
        BY <1>4, ThreadsUnchanged DEF EditHost
    <2>3. Ending' /\ main'.at = "notify"
        BY <1>4 DEF EditHost, HostInv, Ending, Running
    <2> QED BY <1>0, <1>4, <2>1, <2>2, <2>3, QuietStep DEF EditHost
<1>5. CASE StartPolling /\ pollRef # 0
    <2>1. ThreadsKept
        BY <1>5, ThreadsUnchanged DEF StartPolling
    <2>2. Ending' /\ main'.at = "loop"
        BY <1>5 DEF StartPolling, HostInv, Ending, Running
    <2> QED BY <1>0, <1>5, <2>1, <2>2, NothingMade, QuietStep DEF StartPolling
<1> QED BY <1>1, <1>2, <1>3, <1>4, <1>5

LEMMA PollerSteps ==
    ASSUME HostInv, NEW t \in Pollers, PollerStep(t)
    PROVE  HostInv'
<1> USE DEF hostVars
<1>1. add' \in [Adders -> AddState] /\ add' = add /\ main' = main
    BY DEF HostInv, HostType, PollerStep, PollHost, UpdateHost, EmitChange
<1>2. Running(t)
    BY DEF PollerStep, PollHost, UpdateHost, EmitChange, Running
<1>3. ThreadsKept
    BY <1>2, ThreadGoesOn DEF PollerStep, PollHost, UpdateHost, EmitChange
<1>4. MadeKept
    <2>1. poller[t].object \in MadeOr0 /\ Made(poller[t].object)
        BY DEF HostInv, HostType, PollerState, ReferredMade
    <2> QED BY <2>1, NothingMade, MadeObjectChanges
            DEF PollerStep, PollHost, UpdateHost, EmitChange
<1>5. UNCHANGED <<known, freed, del, quitting>>
    BY DEF PollerStep, PollHost, UpdateHost, EmitChange
<1>6. active' = active
    BY DEF PollerStep, PollHost, UpdateHost, EmitChange
<1>7. Ending'
    BY <1>1, <1>3, <1>5, <1>6 DEF HostInv, Ending, ThreadsKept
<1> QED BY <1>1, <1>3, <1>4, <1>5, <1>7, QuietStep

\* The steps of an add task that make no object.
LEMMA QuietAddSteps ==
    ASSUME HostInv, NEW a \in Adders,
           \/ AddNewHost(a) \/ AddQueryFails(a) \/ AddLookup(a)
           \/ AddLockForWrite(a) \/ AddFold(a) \/ AddEmit(a)
           \/ AddInsert(a) /\ known # NoObject
    PROVE  HostInv'
<1> USE DEF hostVars, pollVars
<1>1. \E where \in {"lookup", "unlocked", "lock", "fold", "emit", "done"},
         o \in {add[a].object, known} :
            add' = [add EXCEPT ![a] = [at |-> where, object |-> o]]
    BY DEF AddNewHost, AddQueryFails, AddLookup, AddLockForWrite, AddFold,
           AddEmit, AddInsert, HostInv, HostType, AddState
<1>2. /\ add' \in [Adders -> AddState]
      /\ \A b \in Adders : add'[b].object = add[b].object \/ Made(add'[b].object)
    BY <1>1 DEF HostInv, HostType, AddState, ReferredMade
<1>3. ThreadsKept
    BY ThreadsUnchanged
    DEF AddNewHost, AddQueryFails, AddLookup, AddLockForWrite, AddFold,
        AddEmit, AddInsert
<1>4. MadeKept
    <2>1. add[a].object \in MadeOr0 /\ Made(add[a].object)
        BY DEF HostInv, HostType, AddState, ReferredMade
    <2> QED BY <2>1, NothingMade, MadeObjectChanges
            DEF AddNewHost, AddQueryFails, AddLookup, AddLockForWrite, AddFold,
                AddEmit, AddInsert
<1>5. UNCHANGED <<known, freed, del, quitting, main, active, poller>>
    BY DEF AddNewHost, AddQueryFails, AddLookup, AddLockForWrite, AddFold,
           AddEmit, AddInsert
<1>6. ~(quitting /\ main.at # "drain")
    <2>1. add[a].at \notin {"idle", "done"} \/ AddNewHost(a)
        BY DEF AddQueryFails, AddLookup, AddLockForWrite, AddFold, AddEmit,
               AddInsert
    <2> QED BY <2>1 DEF HostInv, Ending, AddNewHost, Idle
<1>7. Ending'
    BY <1>5, <1>6 DEF HostInv, Ending, Running
<1> QED BY <1>2, <1>3, <1>4, <1>5, <1>7, QuietStep

(***************************************************************************)
(* Steps that start a thread, make an object or delete one.                *)
(***************************************************************************)

LEMMA StartPollingStep ==
    ASSUME HostInv, StartPolling, pollRef = 0
    PROVE  HostInv'
<1> USE DEF hostVars, At
<1>1. /\ UNCHANGED <<known, contents, freed, version, add, del, quitting>>
      /\ main.at = "start" /\ main'.at = "loop"
      /\ StartPollingComputer(known, 1) /\ known \in MadeOr0
    BY DEF StartPolling, HostInv, HostType
<1>2. /\ active' \in Pollers \cup {NoThread} /\ inactive' \subseteq Pollers
      /\ poller' \in [Pollers -> PollerState]
      /\ \A t \in Pollers : Running(t)' =>
           \/ t = active' /\ poller'[t].object = known /\ known # NoObject
           \/ /\ Running(t) /\ poller'[t].object = poller[t].object
              /\ t = active => t = active'
              /\ t \in inactive => t \in inactive'
      /\ \A t \in Pollers :
           poller'[t].object \in {poller[t].object, known, NoObject}
    BY <1>1, StartKeeps DEF HostInv
<1>3. known \notin freed
    BY <1>1 DEF HostInv, Ending
<1>4. HostType' /\ DeletionHolds' /\ OneObjectPerHost'
    BY <1>1, <1>2 DEF HostInv, HostType, DeletionHolds, OneObjectPerHost
<1>5. ReferredMade'
    BY <1>1, <1>2 DEF HostInv, ReferredMade, Made
<1>6. ThreadsPlaced'
    BY <1>1, <1>2 DEF HostInv, ThreadsPlaced
<1>7. HostOutlivesItsThreads'
    BY <1>1, <1>2, <1>3 DEF HostInv, HostOutlivesItsThreads, Running
<1>8. Ending'
    BY <1>1, <1>3 DEF HostInv, Ending
<1> QED BY <1>4, <1>5, <1>6, <1>7, <1>8 DEF HostInv

\* The object an add task makes is new, and becomes the known one.
LEMMA NewObjectStep ==
    ASSUME HostInv, NEW a \in Adders, AddInsert(a), known = NoObject
    PROVE  HostInv'
<1> USE DEF hostVars
<1>1. PICK o \in Objects :
        /\ contents[o] = 0 /\ version' = version + 1
        /\ contents' = [contents EXCEPT ![o] = version']
        /\ known' = o
        /\ StartPollingComputer(o, pollRef)
        /\ add' = [add EXCEPT ![a].at = "emit", ![a].object = o]
        /\ freed' = freed
    BY DEF AddInsert
<1>2. UNCHANGED <<main, quitting, del>> /\ add[a].at = "lock"
    BY DEF AddInsert
<1>3. o # NoObject /\ o \in MadeOr0
    BY ZeroIsNoObject DEF MadeOr0
<1>4. /\ active' \in Pollers \cup {NoThread} /\ inactive' \subseteq Pollers
      /\ poller' \in [Pollers -> PollerState]
      /\ \A t \in Pollers : Running(t)' =>
           \/ t = active' /\ poller'[t].object = o /\ o # NoObject
           \/ /\ Running(t) /\ poller'[t].object = poller[t].object
              /\ t = active => t = active'
              /\ t \in inactive => t \in inactive'
      /\ \A t \in Pollers :
           poller'[t].object \in {poller[t].object, o, NoObject}
    BY <1>1, <1>3, StartKeeps DEF HostInv
<1>5. /\ version' \in Nat /\ contents' \in [Objects -> Nat]
      /\ \A p \in Objects : contents'[p] # 0 <=> contents[p] # 0 \/ p = o
    <2>1. version' \in Nat /\ version' # 0
        BY <1>1 DEF HostInv, HostType
    <2>2. \A p \in Objects :
             contents'[p] = IF p = o THEN version' ELSE contents[p]
        BY <1>1 DEF HostInv, HostType
    <2>3. contents' \in [Objects -> Nat]
        BY <1>1, <2>1 DEF HostInv, HostType
    <2> QED BY <2>1, <2>2, <2>3
<1>6. o \notin freed /\ o # del.object
    BY <1>1, <1>3 DEF HostInv, ReferredMade, Made
<1>7. /\ add' \in [Adders -> AddState]
      /\ \A b \in Adders : add'[b].object \in {add[b].object, o}
    BY <1>1, <1>3 DEF HostInv, HostType, AddState
<1>8. HostType'
    BY <1>1, <1>2, <1>3, <1>4, <1>5, <1>7 DEF HostInv, HostType
<1>9. ReferredMade'
    <2>1. \A p \in MadeOr0 : Made(p) \/ p = o => Made(p)'
        BY <1>5 DEF Made, MadeOr0
    <2>2. Made(known)' /\ Made(del.object)' /\ \A p \in freed' : Made(p)'
        BY <1>1, <1>2, <1>3, <2>1
        DEF HostInv, HostType, ReferredMade, MadeOr0, DelState
    <2>3. \A t \in Pollers : Made(poller[t].object)'
        <3> TAKE t \in Pollers
        <3>1. poller[t].object \in MadeOr0 /\ Made(poller[t].object)
            BY DEF HostInv, HostType, ReferredMade, PollerState
        <3>2. poller'[t].object \in {poller[t].object, o, NoObject}
            BY <1>4
        <3> QED BY <1>3, <2>1, <3>1, <3>2 DEF Made
    <2>4. \A b \in Adders : Made(add[b].object)'
        <3> TAKE b \in Adders
        <3>1. add[b].object \in MadeOr0 /\ Made(add[b].object)
            BY DEF HostInv, HostType, ReferredMade, AddState
        <3>2. add'[b].object \in {add[b].object, o}
            BY <1>7
        <3> QED BY <1>3, <2>1, <3>1, <3>2 DEF Made
    <2>5. (main.at = "edit" => main.object \in MadeOr0 /\ Made(main.object))'
        BY <1>2, <2>1 DEF HostInv, ReferredMade
    <2> QED BY <2>2, <2>3, <2>4, <2>5 DEF ReferredMade
<1>10. DeletionHolds'
    BY <1>1, <1>2, <1>6 DEF HostInv, DeletionHolds
<1>11. ThreadsPlaced'
    BY <1>1, <1>2, <1>4 DEF HostInv, ThreadsPlaced
<1>12. HostOutlivesItsThreads'
    BY <1>1, <1>4, <1>6 DEF HostInv, HostOutlivesItsThreads, Running
<1>13. OneObjectPerHost'
    BY <1>1, <1>2, <1>5, ZeroIsNoObject DEF HostInv, OneObjectPerHost
<1>14. Ending'
    <2>1. ~(quitting /\ main.at # "drain")
        BY <1>2 DEF HostInv, Ending
    <2> QED BY <1>1, <1>2, <1>6, <2>1 DEF HostInv, Ending
<1> QED BY <1>8, <1>9, <1>10, <1>11, <1>12, <1>13, <1>14 DEF HostInv

\* The manager deletes its Hosts once no thread is left.
LEMMA DestructorDeleteStep ==
    ASSUME HostInv, DestructorDelete
    PROVE  HostInv'
<1> USE DEF At
<1>1. /\ main.at = "join" /\ main'.at = "exited" /\ inactive' = {}
      /\ \A t \in inactive : Finished(t)
      /\ poller' = [t \in Pollers |->
                      IF t \in inactive THEN NoPoller ELSE poller[t]]
      /\ freed' = freed \cup ({known} \ {NoObject})
      /\ UNCHANGED <<known, contents, version, active, add, del, quitting>>
    BY DEF DestructorDelete
<1>2. /\ quitting /\ del.at = "idle" /\ del.object = NoObject
      /\ del.threads = {} /\ active = NoThread
    BY <1>1 DEF HostInv, Ending, DeletionHolds
<1>3. \A t \in Pollers : ~Running(t)'
    <2> TAKE t \in Pollers
    <2>1. CASE t \in inactive
        BY <1>1, <2>1 DEF Running, NoPoller
    <2>2. CASE t \notin inactive
        <3>1. ~Running(t)
            BY <1>2, <2>2, MainIsNoThread DEF HostInv, ThreadsPlaced
        <3> QED BY <1>1, <2>2, <3>1 DEF Running
    <2> QED BY <2>1, <2>2
<1>4. poller' \in [Pollers -> PollerState]
    BY <1>1, NoPollerState DEF HostInv, HostType
<1>5. \A t \in Pollers : poller'[t].object \in {poller[t].object, NoObject}
    BY <1>1 DEF NoPoller
<1>6. HostType'
    BY <1>1, <1>4 DEF HostInv, HostType, MadeOr0
<1>7. ReferredMade'
    BY <1>1, <1>5 DEF HostInv, ReferredMade, Made
<1>8. DeletionHolds'
    BY <1>1, <1>2, ZeroIsNoObject DEF HostInv, HostType, DeletionHolds
<1>9. ThreadsPlaced' /\ HostOutlivesItsThreads'
    BY <1>3 DEF ThreadsPlaced, HostOutlivesItsThreads, Running
<1>10. OneObjectPerHost'
    BY <1>1 DEF HostInv, OneObjectPerHost
<1>11. Ending'
    BY <1>1, <1>2, <1>3 DEF HostInv, Ending
<1> QED BY <1>6, <1>7, <1>8, <1>9, <1>10, <1>11 DEF HostInv

(***************************************************************************)
(* The deletion task.                                                      *)
(***************************************************************************)

LEMMA DeleteHostStep ==
    ASSUME HostInv, DeleteHost
    PROVE  HostInv'
<1> USE DEF hostVars, pollVars, Idle
<1>1. /\ main.at = "loop" /\ ~quitting /\ del.at = "idle" /\ known # NoObject
      /\ del' = [at |-> "lock", object |-> known, threads |-> {}]
      /\ UNCHANGED <<known, contents, freed, version, active, inactive, poller,
                     main, quitting, add>>
    BY DEF DeleteHost
<1>2. known \notin freed /\ del.object = NoObject /\ del.threads = {}
    BY <1>1 DEF HostInv, Ending, DeletionHolds
<1>3. HostType' /\ ReferredMade'
    BY <1>1 DEF HostInv, HostType, DelState, ReferredMade, Made
<1>4. DeletionHolds'
    BY <1>1, <1>2 DEF DeletionHolds
<1>5. ThreadsPlaced' /\ HostOutlivesItsThreads' /\ OneObjectPerHost'
    BY <1>1, <1>2, ZeroIsNoObject
    DEF HostInv, ThreadsPlaced, HostOutlivesItsThreads, OneObjectPerHost, Running
<1>6. Ending'
    BY <1>1 DEF HostInv, Ending
<1> QED BY <1>3, <1>4, <1>5, <1>6 DEF HostInv

\* The Host's threads go from the entry to the task.
LEMMA DelTakeHostStep ==
    ASSUME HostInv, DelTakeHost
    PROVE  HostInv'
<1> DEFINE taken == inactive \cup ({active} \ {NoThread})
<1>1. /\ del.at = "lock" /\ known' = NoObject /\ active' = NoThread
      /\ inactive' = {}
      /\ del' = [del EXCEPT !.at = "save", !.threads = taken]
      /\ UNCHANGED <<contents, freed, version, poller, main, quitting, add>>
    BY DEF DelTakeHost
<1>2. taken \subseteq Pollers
    BY DEF HostInv, HostType
<1>3. /\ del'.at = "save" /\ del'.object = del.object /\ del'.threads = taken
      /\ del' \in DelState
    BY <1>1, <1>2 DEF HostInv, HostType, DelState
<1>4. /\ known = del.object /\ known # NoObject /\ del.threads = {}
      /\ del.object \notin freed
    BY <1>1 DEF HostInv, DeletionHolds
<1>5. HostType'
    BY <1>1, <1>3 DEF HostInv, HostType, MadeOr0
<1>6. ReferredMade'
    BY <1>1, <1>3 DEF HostInv, ReferredMade, Made
<1>7. DeletionHolds'
    BY <1>1, <1>3, <1>4 DEF DeletionHolds
<1>8. ThreadsPlaced'
    <2> SUFFICES ASSUME NEW t \in Pollers, Running(t)
                 PROVE  /\ poller[t].object # NoObject
                        /\ t \in taken /\ poller[t].object = del.object
        BY <1>1, <1>3 DEF ThreadsPlaced, Running
    <2> QED BY <1>4, MainIsNoThread DEF HostInv, ThreadsPlaced
<1>9. HostOutlivesItsThreads' /\ OneObjectPerHost'
    BY <1>1, <1>3, <1>4 DEF HostInv, HostOutlivesItsThreads, OneObjectPerHost
<1>10. Ending'
    BY <1>1, <1>3, ZeroIsNoObject DEF HostInv, HostType, Ending, Running
<1> QED BY <1>5, <1>6, <1>7, <1>8, <1>9, <1>10 DEF HostInv

LEMMA DelSaveHostsStep ==
    ASSUME HostInv, DelSaveHosts
    PROVE  HostInv'
<1> USE DEF hostVars, pollVars
<1>1. /\ del.at = "save" /\ del' = [del EXCEPT !.at = "interrupt"]
      /\ UNCHANGED <<known, contents, freed, version, active, inactive, poller,
                     main, quitting, add>>
    BY DEF DelSaveHosts
<1>2. /\ del'.at = "interrupt" /\ del'.object = del.object
      /\ del'.threads = del.threads /\ del' \in DelState
    BY <1>1 DEF HostInv, HostType, DelState
<1>3. HostType' /\ ReferredMade' /\ DeletionHolds'
    BY <1>1, <1>2 DEF HostInv, HostType, ReferredMade, Made, DeletionHolds
<1>4. ThreadsPlaced' /\ HostOutlivesItsThreads' /\ OneObjectPerHost'
    BY <1>1, <1>2 DEF HostInv, ThreadsPlaced, HostOutlivesItsThreads,
                      OneObjectPerHost, Running
<1>5. Ending'
    BY <1>1, <1>2 DEF HostInv, Ending, Running
<1> QED BY <1>3, <1>4, <1>5 DEF HostInv

LEMMA DelInterruptStep ==
    ASSUME HostInv, DelInterrupt
    PROVE  HostInv'
<1> USE DEF hostVars
<1>1. /\ del.at = "interrupt" /\ del' = [del EXCEPT !.at = "join"]
      /\ UNCHANGED <<known, contents, freed, version, active, inactive,
                     main, quitting, add>>
    BY DEF DelInterrupt
<1>2. /\ del'.at = "join" /\ del'.object = del.object
      /\ del'.threads = del.threads /\ del' \in DelState
    BY <1>1 DEF HostInv, HostType, DelState
<1>3. poller' = [t \in Pollers |->
                  [poller[t] EXCEPT !.interrupted = @ \/ t \in del.threads]]
    BY DEF DelInterrupt
<1>4. \A t \in Pollers :
         /\ poller'[t].at = poller[t].at /\ poller'[t].object = poller[t].object
         /\ poller'[t] \in PollerState
    <2> TAKE t \in Pollers
    <2> DEFINE b == poller[t].interrupted \/ t \in del.threads
    <2>1. poller'[t] = [poller[t] EXCEPT !.interrupted = b]
        BY <1>3
    <2>2. b \in BOOLEAN
        BY Zenon
    <2>3. poller[t] \in PollerState
        BY DEF HostInv, HostType
    <2> HIDE DEF b
    <2> QED BY <2>1, <2>2, <2>3 DEF PollerState
<1>5. poller' \in [Pollers -> PollerState]
    BY <1>3, <1>4
<1>6. \A t \in Pollers : Running(t)' <=> Running(t)
    BY <1>4 DEF Running
<1>7. HostType' /\ ReferredMade' /\ DeletionHolds'
    BY <1>1, <1>2, <1>4, <1>5
    DEF HostInv, HostType, ReferredMade, Made, DeletionHolds
<1>8. ThreadsPlaced'
    BY <1>1, <1>2, <1>4, <1>6 DEF HostInv, ThreadsPlaced
<1>9. HostOutlivesItsThreads' /\ OneObjectPerHost'
    BY <1>1, <1>2, <1>4 DEF HostInv, HostOutlivesItsThreads, OneObjectPerHost
<1>10. Ending'
    BY <1>1, <1>2, <1>6 DEF HostInv, Ending
<1> QED BY <1>7, <1>8, <1>9, <1>10 DEF HostInv

LEMMA DelJoinStep ==
    ASSUME HostInv, DelJoin
    PROVE  HostInv'
<1> USE DEF hostVars
<1>1. /\ del.at = "join" /\ \A t \in del.threads : Finished(t)
      /\ poller' = [t \in Pollers |->
                      IF t \in del.threads THEN NoPoller ELSE poller[t]]
      /\ del' = [del EXCEPT !.at = "free", !.threads = {}]
      /\ UNCHANGED <<known, contents, freed, version, active, inactive,
                     main, quitting, add>>
    BY DEF DelJoin
<1>2. /\ del'.at = "free" /\ del'.object = del.object /\ del'.threads = {}
      /\ del' \in DelState
    BY <1>1 DEF HostInv, HostType, DelState
<1>3. poller' \in [Pollers -> PollerState]
    BY <1>1, NoPollerState DEF HostInv, HostType
<1>4. \A t \in Pollers :
         /\ Running(t)' => /\ Running(t) /\ t \notin del.threads
                           /\ poller'[t].object = poller[t].object
         /\ poller'[t].object \in {poller[t].object, NoObject}
    BY <1>1 DEF Running, NoPoller
<1>5. HostType' /\ DeletionHolds'
    BY <1>1, <1>2, <1>3 DEF HostInv, HostType, DeletionHolds
<1>6. ReferredMade'
    BY <1>1, <1>2, <1>4 DEF HostInv, ReferredMade, Made
<1>7. ThreadsPlaced'
    BY <1>1, <1>2, <1>4 DEF HostInv, ThreadsPlaced
<1>8. HostOutlivesItsThreads' /\ OneObjectPerHost'
    BY <1>1, <1>2, <1>4
    DEF HostInv, HostOutlivesItsThreads, OneObjectPerHost, Running
<1>9. Ending'
    BY <1>1, <1>2, <1>4 DEF HostInv, Ending
<1> QED BY <1>5, <1>6, <1>7, <1>8, <1>9 DEF HostInv

\* Nothing polls the object that is deleted: its threads were awaited.
LEMMA DelFreeStep ==
    ASSUME HostInv, DelFree
    PROVE  HostInv'
<1> USE DEF pollVars
<1>1. /\ del.at = "free" /\ freed' = freed \cup {del.object}
      /\ del' = [del EXCEPT !.at = "idle", !.object = NoObject]
      /\ UNCHANGED <<known, contents, version, active, inactive, poller,
                     main, quitting, add>>
    BY DEF DelFree
<1>2. del.threads = {} /\ known # del.object
    BY <1>1 DEF HostInv, DeletionHolds
<1>3. /\ del'.at = "idle" /\ del'.object = NoObject /\ del'.threads = {}
      /\ del' \in DelState
    BY <1>1, <1>2 DEF HostInv, HostType, DelState, MadeOr0
<1>4. \A t \in Pollers : Running(t) => poller[t].object = known
    BY <1>2 DEF HostInv, ThreadsPlaced
<1>5. Ending'
    BY <1>1, <1>2, <1>3 DEF HostInv, Ending, Running
<1>6. HostType'
    BY <1>1, <1>2, <1>3 DEF HostInv, HostType, DeletionHolds, DelState, MadeOr0
<1>7. ReferredMade'
    BY <1>1, <1>3 DEF HostInv, ReferredMade, Made
<1>8. DeletionHolds'
    BY <1>1, <1>3, ZeroIsNoObject DEF HostInv, HostType, DeletionHolds
<1>9. ThreadsPlaced'
    BY <1>1, <1>2, <1>4 DEF HostInv, ThreadsPlaced, Running
<1>10. HostOutlivesItsThreads'
    BY <1>1, <1>2, <1>4 DEF HostInv, HostOutlivesItsThreads, Running
<1>11. OneObjectPerHost'
    BY <1>1, <1>3 DEF HostInv, OneObjectPerHost
<1> QED BY <1>5, <1>6, <1>7, <1>8, <1>9, <1>10, <1>11 DEF HostInv

(***************************************************************************)
(* The theorems.                                                           *)
(***************************************************************************)

LEMMA InvStep == HostInv /\ [HostManagerNext]_hostManagerVars => HostInv'
<1> SUFFICES ASSUME HostInv, [HostManagerNext]_hostManagerVars PROVE HostInv'
    OBVIOUS
<1>1. CASE UserStep
    <2>1. CASE \E a \in Adders : AddNewHost(a)
        BY <2>1, QuietAddSteps
    <2> QED BY <1>1, <2>1, MainSteps, DeleteHostStep, QuietMainSteps DEF UserStep
<1>2. CASE MainStep
    <2>1. CASE StartPolling
        BY <2>1, StartPollingStep, QuietMainSteps
    <2> QED BY <1>2, <2>1, MainSteps, QuietMainSteps, DestructorDeleteStep
            DEF MainStep
<1>3. CASE DelStep
    BY <1>3, DelTakeHostStep, DelSaveHostsStep, DelInterruptStep, DelJoinStep,
       DelFreeStep DEF DelStep
<1>4. CASE \E t \in Pollers : PollerStep(t)
    BY <1>4, PollerSteps
<1>5. CASE \E a \in Adders : AddStep(a)
    BY <1>5, QuietAddSteps, NewObjectStep DEF AddStep
<1>6. CASE UNCHANGED hostManagerVars
    <2>1. UNCHANGED taskVars /\ main' = main
        BY <1>6 DEF hostManagerVars, taskVars, pollVars
    <2>2. Ending'
        BY <2>1 DEF taskVars, hostVars, HostInv, Ending, Running
    <2> QED BY <2>1, <2>2, MainMoves DEF HostInv, ReferredMade
<1> QED BY <1>1, <1>2, <1>3, <1>4, <1>5, <1>6 DEF HostManagerNext

\* The invariant holds of ComputerManager with its tasks and threads.
LEMMA InvHolds == HostManagerSpec => []HostInv
BY InvInit, InvStep, PTL DEF HostManagerSpec

\* However the tasks that add and delete a Host race, there is one object for
\* it (computermanager.cpp:1080-1122).
THEOREM OneObject == HostManagerSpec => []OneObjectPerHost
<1>1. HostInv => OneObjectPerHost
    BY DEF HostInv
<1> QED BY <1>1, InvHolds, PTL

\* No Host is deleted under a thread that polls it (computermanager.cpp:638-646,
\* :372-385).
THEOREM ThreadsEndFirst == HostManagerSpec => []HostOutlivesItsThreads
<1>1. HostInv => HostOutlivesItsThreads
    BY DEF HostInv
<1> QED BY <1>1, InvHolds, PTL

(***************************************************************************)
(* Whose the threads are: a thread that exists is in exactly one place,    *)
(* the entry's active thread goes on polling the known Host, and those the *)
(* entry or the deletion task no longer wants were asked to end.           *)
(***************************************************************************)

Listed(t) == t = active \/ t \in inactive \/ t \in del.threads

ListedOnce ==
    /\ active \notin inactive \cup del.threads
    /\ inactive \cap del.threads = {}
ListedExist == \A t \in Pollers : poller[t].at # "none" <=> Listed(t)
InactiveEnd == \A t \in inactive : poller[t].interrupted
ActiveGoesOn ==
    active \in Pollers =>
        /\ ~poller[active].interrupted
        /\ known # NoObject /\ poller[active].object = known
Counted ==
    /\ pollRef \in Nat
    /\ main.at = "stop" => pollRef > 0
    /\ ~quitting => (active # NoThread <=> pollRef > 0 /\ known # NoObject)

ListInv == ListedOnce /\ ListedExist /\ InactiveEnd
PollInv == ListInv /\ ActiveGoesOn /\ Counted

LEMMA PollInvInit == HostManagerInit => PollInv
<1> SUFFICES ASSUME HostManagerInit PROVE PollInv
    OBVIOUS
<1>1. \A t \in Pollers : poller[t].at = "none"
    BY DEF HostManagerInit, NoPoller
<1> QED BY <1>1, MainIsNoThread
        DEF HostManagerInit, PollInv, ListInv, ListedOnce, ListedExist, Listed,
            InactiveEnd, ActiveGoesOn, Counted

\* A step that leaves the threads alone.
LEMMA PollQuiet ==
    ASSUME PollInv, UNCHANGED <<active, inactive, poller, pollRef, known, quitting>>,
           del'.threads = del.threads,
           main'.at # "stop" \/ pollRef > 0
    PROVE  PollInv'
BY DEF PollInv, ListInv, ListedOnce, ListedExist, Listed, InactiveEnd,
       ActiveGoesOn, Counted

\* A thread is started: it is the entry's, and goes on.
LEMMA StartLists ==
    ASSUME HostType, ListInv, active = NoThread, NEW o \in Objects, NEW ref,
           ref # 0, StartPollingComputer(o, ref), del' = del
    PROVE  /\ ListInv' /\ active' \in Pollers
           /\ ~poller'[active'].interrupted /\ poller'[active'].object = o
<1>1. o # NoObject
    BY ZeroIsNoObject
<1>2. inactive' = inactive \ Reaped
    BY <1>1 DEF StartPollingComputer
<1>3. PICK t \in Pollers :
        /\ t \in Reaped \/ poller[t].at = "none"
        /\ active' = t
        /\ poller' = [u \in Pollers |->
             IF u = t THEN [object |-> o, at |-> "top", interrupted |-> FALSE]
             ELSE IF u \in Reaped THEN NoPoller ELSE poller[u]]
    BY <1>1 DEF StartPollingComputer
<1>4. Reaped \subseteq inactive
    BY DEF Reaped
<1>5. t \notin inactive \ Reaped /\ t \notin del.threads
    BY <1>3, <1>4 DEF ListInv, ListedOnce, ListedExist, Listed
<1>6. ListedOnce'
    BY <1>2, <1>3, <1>5 DEF ListInv, ListedOnce
<1>7. ListedExist'
    <2> SUFFICES ASSUME NEW u \in Pollers
                 PROVE  poller'[u].at # "none" <=> Listed(u)'
        BY DEF ListedExist
    <2>1. CASE u = t
        BY <1>3, <2>1 DEF Listed
    <2>2. CASE u # t /\ u \in Reaped
        BY <1>2, <1>3, <1>4, <2>2 DEF Listed, NoPoller, ListInv, ListedOnce
    <2>3. CASE u # t /\ u \notin Reaped
        BY <1>2, <1>3, <2>3, MainIsNoThread DEF Listed, ListInv, ListedExist
    <2> QED BY <2>1, <2>2, <2>3
<1>8. InactiveEnd'
    BY <1>2, <1>3, <1>5 DEF ListInv, InactiveEnd, HostType
<1> QED BY <1>3, <1>6, <1>7, <1>8 DEF ListInv

\* The entry's thread is asked to end, and joins those that were.
LEMMA InterruptLists ==
    ASSUME HostType, ListInv, Interrupt, del' = del
    PROVE  ListInv' /\ active' = NoThread
<1>1. /\ active' = NoThread
      /\ inactive' = (inactive \ Reaped)
                     \cup (IF active = NoThread THEN {} ELSE {active})
      /\ poller' = [t \in Pollers |->
                    IF t = active THEN [poller[t] EXCEPT !.interrupted = TRUE]
                    ELSE IF t \in Reaped THEN NoPoller ELSE poller[t]]
    BY DEF Interrupt
<1>2. Reaped \subseteq inactive
    BY DEF Reaped
<1>3. \A t \in Pollers :
        LET p == [poller[t] EXCEPT !.interrupted = TRUE] IN
        p.interrupted /\ p.at = poller[t].at
    BY DEF HostType, PollerState
<1>4. ListedOnce'
    BY <1>1, MainIsNoThread DEF ListInv, ListedOnce, HostType, DelState
<1>5. ListedExist'
    <2> SUFFICES ASSUME NEW u \in Pollers
                 PROVE  poller'[u].at # "none" <=> Listed(u)'
        BY DEF ListedExist
    <2>1. CASE u = active
        <3>1. poller'[u].at = poller[u].at
            BY <1>1, <1>3, <2>1
        <3> QED BY <1>1, <2>1, <3>1, MainIsNoThread
                DEF Listed, ListInv, ListedExist
    <2>2. CASE u # active /\ u \in Reaped
        BY <1>1, <1>2, <2>2, MainIsNoThread
        DEF Listed, NoPoller, ListInv, ListedOnce
    <2>3. CASE u # active /\ u \notin Reaped
        BY <1>1, <2>3, MainIsNoThread DEF Listed, ListInv, ListedExist
    <2> QED BY <2>1, <2>2, <2>3
<1>6. InactiveEnd'
    <2> SUFFICES ASSUME NEW u \in inactive' PROVE poller'[u].interrupted
        BY DEF InactiveEnd
    <2>1. u \in Pollers
        BY <1>1 DEF HostType
    <2>2. CASE u = active
        BY <1>1, <1>3, <2>1, <2>2
    <2>3. CASE u # active
        BY <1>1, <2>1, <2>3 DEF ListInv, InactiveEnd
    <2> QED BY <2>2, <2>3
<1> QED BY <1>1, <1>4, <1>5, <1>6 DEF ListInv

\* A polling thread takes a step: it is asked to end by others alone, and it
\* stays where it is listed when it has ended.
LEMMA PollThreadStep ==
    ASSUME HostInv, PollInv, NEW t \in Pollers, PollerStep(t)
    PROVE  PollInv'
<1>1. /\ UNCHANGED <<active, inactive, pollRef, known, quitting, del, main>>
      /\ poller[t].at # "none"
    BY DEF PollerStep, PollHost, UpdateHost, EmitChange, hostVars
<1>2. PICK where \in {"top", "update", "emit", "offline", "finished"} :
        poller' = [poller EXCEPT ![t].at = where]
    BY DEF PollerStep, PollHost, UpdateHost, EmitChange
<1>3. \A u \in Pollers :
        /\ poller'[u].at # "none" <=> poller[u].at # "none"
        /\ poller'[u].interrupted = poller[u].interrupted
        /\ poller'[u].object = poller[u].object
    BY <1>1, <1>2 DEF HostInv, HostType, PollerState
<1>4. ListInv'
    BY <1>1, <1>3 DEF HostInv, HostType, PollInv, ListInv, ListedOnce,
                      ListedExist, Listed, InactiveEnd
<1>5. ActiveGoesOn' /\ Counted'
    BY <1>1, <1>3 DEF PollInv, ActiveGoesOn, Counted
<1> QED BY <1>4, <1>5 DEF PollInv

\* The steps of the main thread that start threads or ask them to end.
LEMMA PollMainSteps ==
    ASSUME HostInv, PollInv,
           \/ StartPolling \/ StopPollingAsync \/ Quit \/ DestructorInterrupt
           \/ DestructorDelete
    PROVE  PollInv'
<1> USE DEF hostVars, At, Idle
<1>1. CASE StartPolling
    <2>1. /\ ~quitting /\ main'.at = "loop" /\ pollRef' = pollRef + 1
          /\ UNCHANGED <<known, quitting, del>>
        BY <1>1 DEF StartPolling, HostInv, Ending
    <2>2. CASE pollRef = 0 /\ known # NoObject
        <3>1. active = NoThread /\ known \in Objects
            BY <2>1, <2>2 DEF PollInv, Counted, HostInv, HostType, MadeOr0
        <3>2. StartPollingComputer(known, 1)
            BY <1>1, <2>2 DEF StartPolling
        <3>3. /\ ListInv' /\ active' \in Pollers
              /\ ~poller'[active'].interrupted
              /\ poller'[active'].object = known
            BY <2>1, <3>1, <3>2, StartLists DEF HostInv, PollInv
        <3>4. ActiveGoesOn' /\ Counted'
            BY <2>1, <2>2, <3>3, MainIsNoThread DEF ActiveGoesOn, Counted
        <3> QED BY <3>3, <3>4 DEF PollInv
    <2>3. CASE pollRef # 0 \/ known = NoObject
        <3>1. UNCHANGED <<active, inactive, poller>>
            BY <1>1, <2>3 DEF StartPolling, StartPollingComputer
        <3> QED BY <2>1, <2>3, <3>1
                DEF PollInv, ListInv, ListedOnce, ListedExist, Listed,
                    InactiveEnd, ActiveGoesOn, Counted
    <2> QED BY <2>2, <2>3
<1>2. CASE StopPollingAsync
    <2>1. /\ ~quitting /\ main.at = "stop" /\ main'.at = "loop"
          /\ pollRef' = pollRef - 1 /\ UNCHANGED <<known, quitting, del>>
        BY <1>2 DEF StopPollingAsync, HostInv, Ending
    <2>2. pollRef' \in Nat /\ (pollRef' > 0 <=> pollRef # 1) /\ pollRef > 0
        BY <2>1 DEF PollInv, Counted
    <2>3. CASE pollRef = 1
        <3>1. ListInv' /\ active' = NoThread
            BY <1>2, <2>1, <2>3, InterruptLists
            DEF StopPollingAsync, HostInv, PollInv
        <3> QED BY <2>1, <2>2, <2>3, <3>1, MainIsNoThread
                DEF PollInv, ActiveGoesOn, Counted
    <2>4. CASE pollRef # 1
        <3>1. UNCHANGED <<active, inactive, poller>>
            BY <1>2, <2>4 DEF StopPollingAsync
        <3> QED BY <2>1, <2>2, <2>4, <3>1
                DEF PollInv, ListInv, ListedOnce, ListedExist, Listed,
                    InactiveEnd, ActiveGoesOn, Counted
    <2> QED BY <2>3, <2>4
<1>3. CASE Quit \/ DestructorInterrupt
    <2>1. /\ quitting' /\ main'.at \in {"drain", "join"} /\ Interrupt
          /\ UNCHANGED <<pollRef, del>>
        BY <1>3 DEF Quit, DestructorInterrupt, HostInv, Ending
    <2>2. ListInv' /\ active' = NoThread
        BY <2>1, InterruptLists DEF HostInv, PollInv
    <2> QED BY <2>1, <2>2, MainIsNoThread DEF PollInv, ActiveGoesOn, Counted
<1>4. CASE DestructorDelete
    <2>1. /\ quitting' /\ main'.at = "exited" /\ inactive' = {}
          /\ poller' = [t \in Pollers |->
                          IF t \in inactive THEN NoPoller ELSE poller[t]]
          /\ active = NoThread /\ UNCHANGED <<active, pollRef, del>>
        BY <1>4 DEF DestructorDelete, HostInv, Ending
    <2>2. ListedExist'
        BY <2>1, MainIsNoThread
        DEF PollInv, ListInv, ListedOnce, ListedExist, Listed, NoPoller
    <2> QED BY <2>1, <2>2, MainIsNoThread
            DEF PollInv, ListInv, ListedOnce, InactiveEnd, ActiveGoesOn, Counted
<1> QED BY <1>1, <1>2, <1>3, <1>4

\* An add task that makes an object starts its thread when polling is on.
LEMMA PollNewObject ==
    ASSUME HostInv, PollInv, NEW a \in Adders, AddInsert(a), known = NoObject
    PROVE  PollInv'
<1>1. PICK o \in Objects : known' = o /\ StartPollingComputer(o, pollRef)
    BY DEF AddInsert
<1>2. UNCHANGED <<pollRef, main, quitting, del>> /\ o # NoObject
    BY ZeroIsNoObject DEF AddInsert
<1>3. active = NoThread
    BY DEF HostInv, HostType, PollInv, ActiveGoesOn
<1>4. CASE pollRef = 0
    <2>1. UNCHANGED <<active, inactive, poller>>
        BY <1>1, <1>4 DEF StartPollingComputer
    <2> QED BY <1>1, <1>2, <1>3, <1>4, <2>1, MainIsNoThread
            DEF PollInv, ListInv, ListedOnce, ListedExist, Listed, InactiveEnd,
                ActiveGoesOn, Counted
<1>5. CASE pollRef # 0
    <2>1. /\ ListInv' /\ active' \in Pollers
          /\ ~poller'[active'].interrupted /\ poller'[active'].object = o
        BY <1>1, <1>2, <1>3, <1>5, StartLists DEF HostInv, PollInv
    <2>2. ActiveGoesOn' /\ Counted'
        BY <1>1, <1>2, <1>5, <2>1, MainIsNoThread
        DEF PollInv, ActiveGoesOn, Counted
    <2> QED BY <2>1, <2>2 DEF PollInv
<1> QED BY <1>4, <1>5

\* The deletion task takes the entry's threads, asks them to end and frees
\* them when they have.
LEMMA PollDelSteps ==
    ASSUME HostInv, PollInv, DelTakeHost \/ DelInterrupt \/ DelJoin
    PROVE  PollInv'
<1>1. CASE DelTakeHost
    <2>1. /\ known' = NoObject /\ active' = NoThread /\ inactive' = {}
          /\ del'.threads = inactive \cup ({active} \ {NoThread})
          /\ del.threads = {}
          /\ UNCHANGED <<poller, pollRef, main, quitting>>
        BY <1>1 DEF DelTakeHost, HostInv, HostType, DelState, DeletionHolds
    <2>2. ListedExist'
        BY <2>1, MainIsNoThread DEF PollInv, ListInv, ListedExist, Listed
    <2>3. ListedOnce' /\ InactiveEnd'
        BY <2>1, MainIsNoThread DEF HostInv, HostType, ListedOnce, InactiveEnd
    <2> QED BY <2>1, <2>2, <2>3, MainIsNoThread
            DEF PollInv, ListInv, ActiveGoesOn, Counted
<1>2. CASE DelInterrupt
    <2>1. /\ del'.threads = del.threads
          /\ UNCHANGED <<known, active, inactive, pollRef, main, quitting>>
        BY <1>2 DEF DelInterrupt, HostInv, HostType, DelState, hostVars
    <2>2. \A t \in Pollers :
             /\ poller'[t].at = poller[t].at
             /\ poller'[t].object = poller[t].object
             /\ poller[t].interrupted => poller'[t].interrupted
             /\ t \notin del.threads =>
                  poller'[t].interrupted = poller[t].interrupted
        <3> TAKE t \in Pollers
        <3> DEFINE b == poller[t].interrupted \/ t \in del.threads
        <3>1. poller'[t] = [poller[t] EXCEPT !.interrupted = b]
            BY <1>2 DEF DelInterrupt
        <3>2. poller[t] \in PollerState
            BY DEF HostInv, HostType
        <3>3. (poller[t].interrupted => b) /\ b \in BOOLEAN
            BY Zenon
        <3>4. t \notin del.threads => b = poller[t].interrupted
            BY <3>2 DEF PollerState
        <3> HIDE DEF b
        <3> QED BY <3>1, <3>2, <3>3, <3>4 DEF PollerState
    <2>3. ListInv'
        BY <2>1, <2>2 DEF HostInv, HostType, PollInv, ListInv, ListedOnce,
                          ListedExist, Listed, InactiveEnd
    <2>4. ActiveGoesOn' /\ Counted'
        BY <2>1, <2>2 DEF PollInv, ListInv, ListedOnce, ActiveGoesOn, Counted
    <2> QED BY <2>3, <2>4 DEF PollInv
<1>3. CASE DelJoin
    <2>1. /\ del'.threads = {}
          /\ poller' = [t \in Pollers |->
                          IF t \in del.threads THEN NoPoller ELSE poller[t]]
          /\ UNCHANGED <<known, active, inactive, pollRef, main, quitting>>
        BY <1>3 DEF DelJoin, HostInv, HostType, DelState, hostVars
    <2>2. \A t \in Pollers : /\ t = active => poller'[t] = poller[t]
                             /\ t \in inactive => poller'[t] = poller[t]
        BY <2>1 DEF PollInv, ListInv, ListedOnce
    <2>3. ListedExist'
        BY <2>1, MainIsNoThread
        DEF PollInv, ListInv, ListedOnce, ListedExist, Listed, NoPoller
    <2>4. ListedOnce' /\ InactiveEnd'
        BY <2>1, <2>2 DEF HostInv, HostType, PollInv, ListInv, ListedOnce,
                          InactiveEnd
    <2>5. ActiveGoesOn' /\ Counted'
        BY <2>1, <2>2 DEF PollInv, ActiveGoesOn, Counted
    <2> QED BY <2>3, <2>4, <2>5 DEF PollInv, ListInv
<1> QED BY <1>1, <1>2, <1>3

LEMMA PollInvNext ==
    HostInv /\ PollInv /\ [HostManagerNext]_hostManagerVars => PollInv'
<1> SUFFICES ASSUME HostInv, PollInv, [HostManagerNext]_hostManagerVars
             PROVE  PollInv'
    OBVIOUS
<1> USE DEF hostVars, pollVars, At, Idle
<1>1. CASE UserStep
    <2>1. CASE AwaitPolling("start") \/ AwaitPolling("stop") \/ AwaitEdit
        BY <2>1, PollQuiet DEF AwaitPolling, AwaitEdit
    <2>2. CASE DeleteHost
        BY <2>2, PollQuiet DEF DeleteHost, HostInv, DeletionHolds
    <2>3. CASE \E a \in Adders : AddNewHost(a)
        BY <2>3, PollQuiet DEF AddNewHost
    <2> QED BY <1>1, <2>1, <2>2, <2>3, PollMainSteps DEF UserStep
<1>2. CASE MainStep
    <2>1. CASE EditHost \/ TakeEvent \/ NotifyListeners \/ SaveHost
        BY <2>1, PollQuiet DEF EditHost, TakeEvent, NotifyListeners, SaveHost
    <2>2. CASE FlushTimeout \/ FlushLockHosts \/ FlushLockHost \/ FlushRecord
        BY <2>2, PollQuiet
        DEF FlushTimeout, FlushLockHosts, FlushLockHost, FlushRecord
    <2>3. CASE FlushWrite \/ DestructorFlush
        BY <2>3, PollQuiet DEF FlushWrite, DestructorFlush
    <2> QED BY <1>2, <2>1, <2>2, <2>3, PollMainSteps DEF MainStep
<1>3. CASE DelStep
    <2>1. CASE DelSaveHosts \/ DelFree
        BY <2>1, PollQuiet
        DEF DelSaveHosts, DelFree, HostInv, HostType, DelState, PollInv, Counted
    <2> QED BY <1>3, <2>1, PollDelSteps DEF DelStep
<1>4. CASE \E t \in Pollers : PollerStep(t)
    BY <1>4, PollThreadStep
<1>5. ASSUME NEW a \in Adders, AddStep(a) PROVE PollInv'
    <2>1. CASE AddQueryFails(a) \/ AddLookup(a) \/ AddLockForWrite(a)
        BY <2>1, PollQuiet
        DEF AddQueryFails, AddLookup, AddLockForWrite, PollInv, Counted
    <2>2. CASE AddFold(a) \/ AddEmit(a) \/ (AddInsert(a) /\ known # NoObject)
        BY <2>2, PollQuiet DEF AddFold, AddEmit, AddInsert, PollInv, Counted
    <2> QED BY <1>5, <2>1, <2>2, PollNewObject DEF AddStep
<1>6. CASE UNCHANGED hostManagerVars
    BY <1>6, PollQuiet DEF hostManagerVars, PollInv, Counted
<1> QED BY <1>1, <1>2, <1>3, <1>4, <1>5, <1>6 DEF HostManagerNext

\* While someone holds a reference to polling, one thread goes on polling the
\* known Host, and otherwise none does (computermanager.cpp:471-530, :638-646,
\* :864-889).
THEOREM OneThreadPolls == HostManagerSpec => []PolledByOneThread
<1>1. HostInv /\ PollInv => PolledByOneThread
    <2> SUFFICES ASSUME HostInv, PollInv, ~quitting
                 PROVE  PolledByOneThread
        BY DEF PolledByOneThread
    <2> DEFINE going == {t \in Pollers : /\ poller[t].at # "none"
                                         /\ ~poller[t].interrupted
                                         /\ t \notin del.threads}
    <2>1. \A t \in going : t = active
        BY DEF PollInv, ListInv, ListedExist, Listed, InactiveEnd
    <2>2. active \in Pollers => active \in going
        BY DEF PollInv, ListInv, ListedOnce, ListedExist, Listed, ActiveGoesOn
    <2>3. active \in Pollers <=> pollRef > 0 /\ known # NoObject
        BY MainIsNoThread DEF HostInv, HostType, PollInv, Counted
    <2>4. IF pollRef > 0 /\ known # NoObject
          THEN going = {active} /\ poller[active].object = known
          ELSE going = {}
        BY <2>1, <2>2, <2>3 DEF PollInv, ActiveGoesOn
    <2> QED BY <2>4 DEF PolledByOneThread
<1>2. HostManagerSpec => []PollInv
    <2>1. HostInv /\ PollInv /\ [HostManagerNext]_hostManagerVars => PollInv'
        BY PollInvNext
    <2> QED BY <2>1, PollInvInit, InvHolds, PTL DEF HostManagerSpec
<1> QED BY <1>1, <1>2, InvHolds, PTL

(***************************************************************************)
(* No change is forgotten.  While the records are flushed a flush is asked *)
(* for, so what matters is that the snapshot written last is current or    *)
(* that news of a later change is on its way; and the Host a flush reads   *)
(* stays the known one, because the manager is locked to read.             *)
(***************************************************************************)

Queued == Objects \cup {SaveAll}

MainAt == {"loop", "start", "stop", "edit", "notify", "compare", "flush",
           "lockHost", "record", "write", "drain", "destroy", "join", "exited"}
Flushing == {"flush", "lockHost", "record", "write"}

FlushRuns ==
    /\ timer => needsFlush
    /\ main.at \in Flushing => ~timer /\ needsFlush
    /\ main.at \in {"destroy", "join", "exited"} =>
         ~timer /\ (needsFlush => failures > 0)
FlushReads ==
    main.at \in {"lockHost", "record"} =>
        /\ main.object = known /\ known # NoObject
        /\ "main" \in readers[Manager]
SnapshotIsCurrent == main.at = "write" => snapshot = Current \/ InFlight

SaveType ==
    /\ events \in Seq(Queued)
    /\ main \in [at : MainAt, object : MadeOr0]
    /\ main.at \in {"edit", "notify", "compare"} => main.object \in Objects
    /\ readers \in [Locks -> SUBSET Threads]
    /\ {timer, needsFlush} \subseteq BOOLEAN /\ failures \in Nat

SaveInv ==
    /\ SaveType /\ FlushRuns /\ FlushReads /\ SnapshotIsCurrent
    /\ lastSaved = disk
    /\ ChangeIsScheduled

\* What is appended to the queue is queued, and what was stays.
LEMMA AppendQueues ==
    ASSUME NEW q \in Seq(Queued), NEW e \in Queued
    PROVE  /\ Append(q, e) \in Seq(Queued)
           /\ \E i \in DOMAIN Append(q, e) : Append(q, e)[i] = e
           /\ \A i \in DOMAIN q : i \in DOMAIN Append(q, e)
                                  /\ Append(q, e)[i] = q[i]
<1>1. Append(q, e) \in Seq(Queued) /\ Len(Append(q, e)) = Len(q) + 1
    OBVIOUS
<1>2. Append(q, e)[Len(q) + 1] = e /\ Len(q) + 1 \in DOMAIN Append(q, e)
    BY <1>1
<1>3. \A i \in DOMAIN q : i \in DOMAIN Append(q, e) /\ Append(q, e)[i] = q[i]
    BY <1>1
<1> QED BY <1>1, <1>2, <1>3

\* A call taken from the head of the queue leaves the others.
LEMMA TailQueues ==
    ASSUME NEW q \in Seq(Queued), q # <<>>
    PROVE  /\ Head(q) \in Queued /\ Tail(q) \in Seq(Queued)
           /\ \A i \in DOMAIN q :
                q[i] = Head(q) \/ \E j \in DOMAIN Tail(q) : Tail(q)[j] = q[i]
<1>1. Head(q) \in Queued /\ Tail(q) \in Seq(Queued) /\ Len(Tail(q)) = Len(q) - 1
    OBVIOUS
<1>2. ASSUME NEW i \in DOMAIN q, i # 1
      PROVE  \E j \in DOMAIN Tail(q) : Tail(q)[j] = q[i]
    <2>1. i - 1 \in DOMAIN Tail(q) /\ Tail(q)[i - 1] = q[i]
        BY <1>1, <1>2
    <2> QED BY <2>1
<1> QED BY <1>1, <1>2

\* InFlight, part by part.
Waits == \E i \in DOMAIN events : events[i] \in {SaveAll, known}
Handled == main.object = known /\ main.at \in {"notify", "compare"}
PollerTells ==
    \E t \in Pollers : poller[t].object = known /\ poller[t].at = "emit"
AdderTells ==
    \E a \in Adders : add[a].object = known /\ add[a].at = "emit"

LEMMA InFlightParts ==
    InFlight <=> Waits \/ del.at = "save" \/ PollerTells \/ AdderTells \/ Handled
BY DEF InFlight, Waits, PollerTells, AdderTells, Handled

\* A step of another thread that changes nothing the main thread has: what is
\* scheduled stays so, if a change of the records puts its news under way.
LEMMA SaveByOthers ==
    ASSUME SaveInv, SaveType', FlushReads',
           UNCHANGED <<main, timer, needsFlush, snapshot, lastSaved, disk, failures>>,
           Current' = Current /\ InFlight => InFlight',
           Current' # Current => InFlight'
    PROVE  SaveInv'
<1>1. FlushRuns'
    BY DEF SaveInv, FlushRuns
<1>2. SnapshotIsCurrent'
    BY DEF SaveInv, SnapshotIsCurrent
<1>3. ChangeIsScheduled'
    BY DEF SaveInv, ChangeIsScheduled
<1> QED BY <1>1, <1>2, <1>3 DEF SaveInv

LEMMA SaveInvInit == HostManagerInit => SaveInv
<1> SUFFICES ASSUME HostManagerInit PROVE SaveInv
    OBVIOUS
<1>1. SaveType
    <2>1. failures \in Nat /\ timer = FALSE /\ needsFlush = FALSE
        BY HostManagerAssumption DEF HostManagerInit
    <2>2. events \in Seq(Queued) /\ readers \in [Locks -> SUBSET Threads]
        BY DEF HostManagerInit
    <2>3. main \in [at : MainAt, object : MadeOr0] /\ main.at = "loop"
        BY DEF HostManagerInit, MainAt, MadeOr0
    <2> QED BY <2>1, <2>2, <2>3 DEF SaveType
<1>2. Current = known
    BY HostManagerAssumption DEF HostManagerInit, Current, NoObject, Objects
<1>3. FlushRuns /\ FlushReads /\ SnapshotIsCurrent
    BY DEF HostManagerInit, FlushRuns, FlushReads, SnapshotIsCurrent, Flushing
<1> QED BY <1>1, <1>2, <1>3 DEF HostManagerInit, SaveInv, ChangeIsScheduled

\* A step of the main thread that changes no record, and asks for no save.
LEMMA SaveMainMoves ==
    ASSUME SaveInv, SaveType', FlushRuns', FlushReads', SnapshotIsCurrent',
           UNCHANGED <<known, contents, events, needsFlush, lastSaved, disk, del, add>>,
           PollerTells => PollerTells', Handled => Handled'
    PROVE  SaveInv'
<1>1. InFlight => InFlight'
    BY InFlightParts DEF InFlight, Waits, PollerTells, AdderTells, Handled
<1>2. Current' = Current
    BY DEF Current
<1>3. ChangeIsScheduled'
    BY <1>1, <1>2 DEF SaveInv, FlushRuns, ChangeIsScheduled
<1> QED BY <1>3 DEF SaveInv

\* Threads that are started, asked to end or freed leave the one that has news.
LEMMA TellsThroughStart ==
    ASSUME HostType, NEW o, NEW ref, StartPollingComputer(o, ref),
           UNCHANGED known, PollerTells
    PROVE  PollerTells'
<1>1. PICK t \in Pollers : poller[t].object = known /\ poller[t].at = "emit"
    BY DEF PollerTells
<1>2. t \notin Reaped /\ poller[t].at # "none"
    BY <1>1 DEF Reaped, Finished
<1>3. poller'[t] = poller[t]
    <2>1. CASE ref = 0 \/ o = NoObject
        BY <2>1 DEF StartPollingComputer
    <2>2. CASE ~(ref = 0 \/ o = NoObject)
        BY <1>2, <2>2 DEF StartPollingComputer
    <2> QED BY <2>1, <2>2
<1> QED BY <1>1, <1>3 DEF PollerTells

LEMMA TellsThroughInterrupt ==
    ASSUME HostType, Interrupt, UNCHANGED known, PollerTells
    PROVE  PollerTells'
<1>1. PICK t \in Pollers : poller[t].object = known /\ poller[t].at = "emit"
    BY DEF PollerTells
<1>2. t \notin Reaped
    BY <1>1 DEF Reaped, Finished
<1>3. poller'[t].object = poller[t].object /\ poller'[t].at = poller[t].at
    BY <1>2 DEF Interrupt, HostType, PollerState
<1> QED BY <1>1, <1>3 DEF PollerTells

LEMMA SaveMainSteps ==
    ASSUME HostInv, SaveInv,
           \/ AwaitPolling("start") \/ AwaitPolling("stop") \/ AwaitEdit
           \/ StartPolling \/ StopPollingAsync \/ NotifyListeners \/ Quit
           \/ DestructorInterrupt \/ DestructorDelete
    PROVE  SaveInv'
<1> USE DEF hostVars, pollVars, saveVars, lockVars, At, Idle
<1>1. /\ UNCHANGED <<known, contents, events, needsFlush, lastSaved, disk, del,
                     add, timer, snapshot, failures>>
      /\ readers' = readers
    BY DEF AwaitPolling, AwaitEdit, StartPolling, StopPollingAsync, AwaitWrite,
           WriteUnder, ReadUnder, NotifyListeners, Quit, DestructorInterrupt,
           DestructorDelete
<1>2. /\ main' \in [at : MainAt, object : MadeOr0]
      /\ main'.at \in {"edit", "notify", "compare"} => main'.object \in Objects
      /\ main.at \notin Flushing /\ main'.at \notin Flushing
      /\ main'.at \in {"destroy", "join", "exited"} => main.at \in {"destroy", "join"}
      /\ Handled => Handled'
    BY <1>1
    DEF AwaitPolling, AwaitEdit, StartPolling, StopPollingAsync,
        NotifyListeners, Quit, DestructorInterrupt, DestructorDelete,
        SaveInv, SaveType, HostInv, HostType, MadeOr0, MainAt, Handled, Flushing
<1>3. PollerTells => PollerTells'
    <2>1. CASE UNCHANGED poller
        BY <1>1, <2>1 DEF PollerTells
    <2>2. CASE StartPolling
        BY <1>1, <2>1, <2>2, TellsThroughStart DEF StartPolling, HostInv
    <2>3. CASE StopPollingAsync \/ Quit \/ DestructorInterrupt
        BY <1>1, <2>1, <2>3, TellsThroughInterrupt
        DEF StopPollingAsync, Quit, DestructorInterrupt, HostInv
    <2>4. CASE DestructorDelete
        BY <1>1, <2>4 DEF DestructorDelete, PollerTells, Finished
    <2> QED BY <2>1, <2>2, <2>3, <2>4
            DEF AwaitPolling, AwaitEdit, NotifyListeners
<1>4. SaveType'
    BY <1>1, <1>2 DEF SaveInv, SaveType
<1>5. FlushRuns'
    BY <1>1, <1>2 DEF SaveInv, FlushRuns
<1>6. FlushReads' /\ SnapshotIsCurrent'
    BY <1>2 DEF FlushReads, SnapshotIsCurrent, Flushing
<1> QED BY <1>1, <1>2, <1>3, <1>4, <1>5, <1>6, SaveMainMoves

\* The steps of a flush up to its write.
LEMMA SaveFlushSteps ==
    ASSUME HostInv, SaveInv,
           \/ FlushTimeout \/ FlushLockHosts \/ FlushLockHost \/ FlushRecord
           \/ DestructorFlush
    PROVE  SaveInv'
<1> USE DEF hostVars, pollVars, saveVars, lockVars, At, Idle
<1>1. /\ UNCHANGED <<known, contents, events, needsFlush, lastSaved, disk, del,
                     add, failures, poller>>
      /\ PollerTells => PollerTells'
      /\ ~Handled
    BY DEF FlushTimeout, FlushLockHosts, FlushLockHost, FlushRecord,
           DestructorFlush, PollerTells, Handled
<1>2. Current' = Current /\ SaveType
    BY <1>1 DEF Current, SaveInv
<1>3. CASE FlushTimeout \/ DestructorFlush
    <2>1. /\ timer' = FALSE /\ readers' = readers
          /\ main' \in [at : MainAt, object : MadeOr0]
          /\ main'.at \in {"flush", "destroy"}
          /\ main'.at = "flush" => timer \/ needsFlush
          /\ main'.at = "destroy" => ~needsFlush
        BY <1>3 DEF FlushTimeout, DestructorFlush, MainAt, MadeOr0
    <2>2. SaveType'
        BY <1>1, <1>2, <2>1 DEF SaveType
    <2>3. FlushRuns' /\ FlushReads' /\ SnapshotIsCurrent'
        BY <1>1, <2>1 DEF SaveInv, FlushRuns, FlushReads, SnapshotIsCurrent,
                          Flushing
    <2> QED BY <1>1, <2>2, <2>3, SaveMainMoves
<1>4. CASE FlushLockHosts \/ FlushLockHost
    <2>1. /\ timer' = timer /\ main.at \in {"flush", "lockHost"}
          /\ main' \in [at : MainAt, object : MadeOr0]
          /\ main'.at \in {"lockHost", "record", "write"}
        BY <1>4 DEF FlushLockHosts, FlushLockHost, MainAt, MadeOr0, SaveInv,
                    SaveType, HostInv, HostType
    <2>2. readers' \in [Locks -> SUBSET Threads]
        BY <1>2, <1>4 DEF FlushLockHosts, FlushLockHost, SaveType, Threads
    <2>3. SaveType'
        BY <1>1, <1>2, <2>1, <2>2 DEF SaveType
    <2>4. FlushRuns'
        BY <1>1, <2>1 DEF SaveInv, FlushRuns, Flushing
    <2>5. FlushReads' /\ SnapshotIsCurrent'
        <3>1. CASE FlushLockHosts /\ known = NoObject
            BY <1>2, <3>1
            DEF FlushLockHosts, FlushReads, SnapshotIsCurrent, Current
        <3>2. CASE FlushLockHosts /\ known # NoObject
            BY <1>1, <1>2, <3>2
            DEF FlushLockHosts, FlushReads, SnapshotIsCurrent, SaveType, Locks
        <3>3. CASE FlushLockHost
            BY <1>1, <1>2, <3>3
            DEF FlushLockHost, FlushReads, SnapshotIsCurrent, SaveType, SaveInv,
                Locks
        <3> QED BY <1>4, <3>1, <3>2, <3>3
    <2> QED BY <1>1, <2>3, <2>4, <2>5, SaveMainMoves
<1>5. CASE FlushRecord
    <2>1. /\ timer' = timer /\ main.at = "record" /\ main'.at = "write"
          /\ main' \in [at : MainAt, object : MadeOr0]
          /\ snapshot' = contents[main.object]
        BY <1>5 DEF FlushRecord, MainAt, MadeOr0
    <2>2. readers' \in [Locks -> SUBSET Threads]
        BY <1>2, <1>5 DEF FlushRecord, SaveType
    <2>3. SaveType'
        BY <1>1, <1>2, <2>1, <2>2 DEF SaveType
    <2>4. FlushRuns' /\ FlushReads'
        BY <1>1, <2>1 DEF SaveInv, FlushRuns, FlushReads, Flushing
    <2>5. snapshot' = Current'
        BY <1>2, <2>1 DEF SaveInv, FlushReads, Current
    <2> QED BY <1>1, <2>3, <2>4, <2>5, SaveMainMoves DEF SnapshotIsCurrent
<1> QED BY <1>3, <1>4, <1>5

\* The user edits a Host: the main thread goes on to handle the change.
LEMMA SaveEditHost ==
    ASSUME HostInv, SaveInv, EditHost
    PROVE  SaveInv'
<1> USE DEF pollVars, At
<1>1. /\ UNCHANGED <<known, events, lastSaved, disk, del, add, failures,
                     poller, snapshot, readers>>
      /\ main.at = "edit" /\ main.object \in Objects
      /\ main' = [at |-> "notify", object |-> main.object]
      /\ \/ needsFlush' = TRUE /\ timer' = TRUE
         \/ UNCHANGED <<timer, needsFlush>>
    BY DEF EditHost, WriteUnder, SaveHosts, SaveInv, SaveType
<1>2. main.object # known => Current' = Current
    BY DEF EditHost, ChangeContents, Current, HostInv, HostType, MadeOr0
<1>3. InFlight => InFlight'
    BY <1>1, InFlightParts DEF InFlight, Waits, PollerTells, AdderTells, Handled
<1>4. main.object = known => InFlight'
    BY <1>1 DEF InFlight
<1>5. SaveType'
    BY <1>1 DEF SaveInv, SaveType, MainAt, MadeOr0
<1>6. FlushRuns' /\ FlushReads' /\ SnapshotIsCurrent'
    BY <1>1 DEF SaveInv, FlushRuns, FlushReads, SnapshotIsCurrent, Flushing
<1>7. ChangeIsScheduled'
    BY <1>1, <1>2, <1>3, <1>4 DEF SaveInv, ChangeIsScheduled
<1> QED BY <1>1, <1>5, <1>6, <1>7 DEF SaveInv

\* A queued call is taken: it saves, or goes on to handle the change of a Host.
LEMMA SaveTakeEvent ==
    ASSUME HostInv, SaveInv, TakeEvent
    PROVE  SaveInv'
<1> USE DEF hostVars, pollVars, lockVars, At, Idle
<1>1. /\ UNCHANGED <<known, contents, lastSaved, disk, del, add, failures,
                     poller, snapshot, readers>>
      /\ main.at = "loop" /\ events # <<>> /\ events' = Tail(events)
      /\ \/ /\ Head(events) = SaveAll /\ main' = main
            /\ needsFlush' = TRUE /\ timer' = TRUE
         \/ /\ Head(events) # SaveAll
            /\ main' = [at |-> "notify", object |-> Head(events)]
            /\ UNCHANGED <<timer, needsFlush>>
    BY DEF TakeEvent, SaveHosts
<1>2. events \in Seq(Queued)
    BY DEF SaveInv, SaveType
<1>3. /\ Head(events) \in Queued /\ Tail(events) \in Seq(Queued)
      /\ \A i \in DOMAIN events :
           \/ events[i] = Head(events)
           \/ \E j \in DOMAIN Tail(events) : Tail(events)[j] = events[i]
    BY <1>1, <1>2, TailQueues
<1>4. SaveType'
    <2>1. /\ main' \in [at : MainAt, object : MadeOr0]
          /\ main'.at \in {"edit", "notify", "compare"} => main'.object \in Objects
        BY <1>1, <1>3 DEF SaveInv, SaveType, MainAt, MadeOr0, Queued
    <2>2. {timer', needsFlush'} \subseteq BOOLEAN
        BY <1>1 DEF SaveInv, SaveType
    <2> QED BY <1>1, <1>3, <2>1, <2>2 DEF SaveInv, SaveType
<1>5. FlushRuns' /\ FlushReads' /\ SnapshotIsCurrent'
    BY <1>1 DEF SaveInv, FlushRuns, FlushReads, SnapshotIsCurrent, Flushing
<1>6. Current' = Current
    BY <1>1 DEF Current
<1>7. InFlight => needsFlush' \/ InFlight'
    <2>1. ASSUME Waits PROVE needsFlush' \/ InFlight'
        <3>1. PICK i \in DOMAIN events : events[i] \in {SaveAll, known}
            BY <2>1 DEF Waits
        <3>2. CASE events[i] = Head(events)
            BY <1>1, <3>1, <3>2 DEF InFlight
        <3>3. CASE \E j \in DOMAIN Tail(events) : Tail(events)[j] = events[i]
            BY <1>1, <3>1, <3>3 DEF InFlight
        <3> QED BY <1>3, <3>2, <3>3
    <2>2. ~Handled
        BY <1>1 DEF Handled
    <2> QED BY <1>1, <2>1, <2>2, InFlightParts DEF InFlight, PollerTells, AdderTells
<1>8. ChangeIsScheduled'
    BY <1>1, <1>6, <1>7 DEF SaveInv, FlushRuns, ChangeIsScheduled
<1> QED BY <1>1, <1>4, <1>5, <1>8 DEF SaveInv

\* The handler saves the known Host if it differs from what was saved last.
LEMMA SaveSaveHost ==
    ASSUME HostInv, SaveInv, SaveHost
    PROVE  SaveInv'
<1> USE DEF hostVars, pollVars, At
<1>1. /\ UNCHANGED <<known, contents, lastSaved, disk, del, add, failures,
                     poller, snapshot, readers, events>>
      /\ main.at = "compare" /\ main' = [at |-> "loop", object |-> NoObject]
      /\ \/ needsFlush' = TRUE /\ timer' = TRUE
         \/ /\ main.object \in freed \/ contents[main.object] = lastSaved
            /\ UNCHANGED <<timer, needsFlush>>
    BY DEF SaveHost, SaveHosts, ReadUnder, lockVars
<1>2. main.object \in Objects /\ lastSaved = disk
    BY <1>1 DEF SaveInv, SaveType
<1>3. known \notin freed
    BY <1>1 DEF HostInv, Ending
<1>4. SaveType'
    BY <1>1 DEF SaveInv, SaveType, MainAt, MadeOr0
<1>5. FlushRuns' /\ FlushReads' /\ SnapshotIsCurrent'
    BY <1>1 DEF SaveInv, FlushRuns, FlushReads, SnapshotIsCurrent, Flushing
<1>6. Current' = Current
    BY <1>1 DEF Current
<1>7. Handled /\ disk # Current => needsFlush'
    BY <1>1, <1>2, <1>3, ZeroIsNoObject DEF Handled, Current
<1>8. InFlight => Handled \/ InFlight'
    BY <1>1, InFlightParts DEF InFlight, Waits, PollerTells, AdderTells
<1>9. ChangeIsScheduled'
    BY <1>1, <1>6, <1>7, <1>8 DEF SaveInv, FlushRuns, ChangeIsScheduled
<1> QED BY <1>1, <1>4, <1>5, <1>9 DEF SaveInv

\* The snapshot is written, or the flush is still asked for.
LEMMA SaveFlushWrite ==
    ASSUME HostInv, SaveInv, FlushWrite
    PROVE  SaveInv'
<1> USE DEF hostVars, pollVars, lockVars, At
<1>1. /\ UNCHANGED <<known, contents, del, add, poller, readers, events, timer>>
      /\ main.at = "write"
      /\ main' \in [at : {"destroy", "loop"}, object : {NoObject}]
      /\ \/ /\ disk' = snapshot /\ lastSaved' = snapshot
            /\ needsFlush' = FALSE /\ failures' = failures
         \/ /\ failures' = failures + 1 /\ needsFlush' = TRUE
            /\ UNCHANGED <<disk, lastSaved>>
    BY DEF FlushWrite
<1>2. SaveType'
    <2>1. main' \in [at : MainAt, object : MadeOr0] /\ main'.at \in {"destroy", "loop"}
        BY <1>1 DEF MainAt, MadeOr0
    <2>2. {timer', needsFlush'} \subseteq BOOLEAN
        BY <1>1 DEF SaveInv, SaveType
    <2>3. failures' \in Nat
        BY <1>1 DEF SaveInv, SaveType
    <2>4. events' \in Seq(Queued) /\ readers' \in [Locks -> SUBSET Threads]
        BY <1>1 DEF SaveInv, SaveType
    <2>5. main'.at \notin {"edit", "notify", "compare"}
        BY <2>1
    <2> QED BY <2>1, <2>2, <2>3, <2>4, <2>5 DEF SaveType
<1>3. FlushRuns'
    BY <1>1 DEF SaveInv, SaveType, FlushRuns, Flushing
<1>4. FlushReads' /\ SnapshotIsCurrent'
    BY <1>1 DEF FlushReads, SnapshotIsCurrent
<1>5. Current' = Current
    BY <1>1 DEF Current
<1>6. InFlight => InFlight'
    <2>1. ~Handled
        BY <1>1 DEF Handled
    <2> QED BY <1>1, <2>1, InFlightParts
            DEF InFlight, Waits, PollerTells, AdderTells
<1>7. ChangeIsScheduled' /\ lastSaved' = disk'
    BY <1>1, <1>5, <1>6 DEF SaveInv, SnapshotIsCurrent, ChangeIsScheduled
<1> QED BY <1>2, <1>3, <1>4, <1>7 DEF SaveInv

(***************************************************************************)
(* The other threads.                                                      *)
(***************************************************************************)

LEMMA SavePollerSteps ==
    ASSUME HostInv, SaveInv, NEW t \in Pollers, PollerStep(t)
    PROVE  SaveInv'
<1> USE DEF hostVars, saveVars
<1> DEFINE o == poller[t].object
<1>1. /\ UNCHANGED <<known, del, add, main, readers, timer, needsFlush,
                     snapshot, lastSaved, disk, failures>>
    BY DEF PollerStep, PollHost, UpdateHost, EmitChange, lockVars, AwaitWrite,
           WriteUnder
<1>2. o \in Objects /\ poller[t] \in PollerState
    <2>1. Running(t)
        BY DEF PollerStep, PollHost, UpdateHost, EmitChange, Running
    <2> QED BY <2>1 DEF HostInv, HostType, ThreadsPlaced, PollerState, MadeOr0
<1>3. CASE PollHost(t)
    <2>1. /\ UNCHANGED <<contents, events>> /\ poller[t].at = "top"
          /\ \A u \in Pollers \ {t} : poller'[u] = poller[u]
        BY <1>3 DEF PollHost, HostInv, HostType
    <2>2. InFlight => InFlight'
        BY <1>1, <2>1, InFlightParts
        DEF InFlight, Waits, PollerTells, AdderTells, Handled
    <2>3. Current' = Current /\ SaveType' /\ FlushReads'
        BY <1>1, <2>1 DEF Current, SaveInv, SaveType, FlushReads
    <2> QED BY <1>1, <2>2, <2>3, SaveByOthers
<1>4. CASE UpdateHost(t)
    <2>1. /\ events' = events /\ poller[t].at = "update"
          /\ \A u \in Pollers \ {t} : poller'[u] = poller[u]
          /\ \/ contents' = contents
             \/ /\ \A p \in Objects : p # o => contents'[p] = contents[p]
                /\ poller'[t].at = "emit" /\ poller'[t].object = o
        BY <1>2, <1>4
        DEF UpdateHost, ChangeContents, HostInv, HostType, PollerState
    <2>2. InFlight => InFlight'
        BY <1>1, <2>1, InFlightParts
        DEF InFlight, Waits, PollerTells, AdderTells, Handled
    <2>3. Current' = Current \/ InFlight'
        BY <1>1, <2>1 DEF Current, InFlight, HostInv, HostType, MadeOr0
    <2>4. SaveType' /\ FlushReads'
        BY <1>1, <2>1 DEF SaveInv, SaveType, FlushReads
    <2> QED BY <1>1, <2>2, <2>3, <2>4, SaveByOthers
<1>5. CASE EmitChange(t)
    <2>1. /\ contents' = contents /\ events' = Append(events, o)
          /\ \A u \in Pollers \ {t} : poller'[u] = poller[u]
        BY <1>5 DEF EmitChange, HostInv, HostType
    <2>2. events \in Seq(Queued) /\ o \in Queued
        BY <1>2 DEF SaveInv, SaveType, Queued
    <2>3. /\ Append(events, o) \in Seq(Queued)
          /\ \E i \in DOMAIN Append(events, o) : Append(events, o)[i] = o
          /\ \A i \in DOMAIN events : /\ i \in DOMAIN Append(events, o)
                                      /\ Append(events, o)[i] = events[i]
        BY <2>2, AppendQueues
    <2>4. Waits => Waits'
        BY <1>1, <2>1, <2>3 DEF Waits
    <2>5. PollerTells => PollerTells' \/ Waits'
        BY <1>1, <2>1, <2>3 DEF PollerTells, Waits
    <2>6. InFlight => InFlight'
        BY <1>1, <2>1, <2>4, <2>5, InFlightParts
        DEF InFlight, Waits, PollerTells, AdderTells, Handled
    <2>7. Current' = Current /\ FlushReads'
        BY <1>1, <2>1 DEF Current, SaveInv, FlushReads
    <2>8. SaveType'
        BY <1>1, <2>1, <2>3 DEF SaveInv, SaveType
    <2> QED BY <1>1, <2>6, <2>7, <2>8, SaveByOthers
<1> QED BY <1>3, <1>4, <1>5 DEF PollerStep

\* A task that neither had news nor has it: nothing else is touched but locks.
LEMMA SaveQuietAdds ==
    ASSUME HostInv, SaveInv, NEW a \in Adders,
           \/ AddNewHost(a) \/ AddQueryFails(a) \/ AddLookup(a)
           \/ AddLockForWrite(a)
           \/ AddInsert(a) /\ known # NoObject
    PROVE  SaveInv'
<1> USE DEF hostVars, saveVars, pollVars
<1>1. /\ UNCHANGED <<known, contents, del, main, timer, needsFlush, snapshot,
                     lastSaved, disk, failures, events, poller>>
      /\ add[a].at # "emit" /\ \A b \in Adders \ {a} : add'[b] = add[b]
      /\ readers' = readers
         \/ readers' = [readers EXCEPT ![Manager] = @ \cup {a}]
    BY DEF AddNewHost, AddQueryFails, AddLookup, AddLockForWrite, AddInsert,
           AwaitWrite, lockVars, HostInv, HostType
<1>2. readers' \in [Locks -> SUBSET Threads] /\ readers[Manager] \subseteq readers'[Manager]
    BY <1>1 DEF SaveInv, SaveType, Threads, Locks
<1>3. SaveType' /\ FlushReads' /\ Current' = Current
    BY <1>1, <1>2 DEF SaveInv, SaveType, FlushReads, Current
<1>4. InFlight => InFlight'
    BY <1>1, InFlightParts DEF InFlight, Waits, PollerTells, AdderTells, Handled
<1> QED BY <1>1, <1>3, <1>4, SaveByOthers

LEMMA SaveNewObject ==
    ASSUME HostInv, SaveInv, NEW a \in Adders, AddInsert(a), known = NoObject
    PROVE  SaveInv'
<1> USE DEF saveVars
<1>1. /\ UNCHANGED <<del, main, timer, needsFlush, snapshot, lastSaved, disk,
                     failures, events, readers>>
      /\ add'[a].object = known' /\ add'[a].at = "emit" /\ CanWrite(Manager)
    BY DEF AddInsert, HostInv, HostType, AddState
<1>2. InFlight'
    BY <1>1 DEF InFlight
<1>3. SaveType' /\ FlushReads'
    BY <1>1 DEF SaveInv, SaveType, FlushReads, CanWrite
<1> QED BY <1>1, <1>2, <1>3, SaveByOthers

LEMMA SaveAddFold ==
    ASSUME HostInv, SaveInv, NEW a \in Adders, AddFold(a)
    PROVE  SaveInv'
<1> USE DEF saveVars, pollVars
<1>1. /\ UNCHANGED <<known, del, main, timer, needsFlush, snapshot, lastSaved,
                     disk, failures, events, poller>>
      /\ add[a].at = "fold" /\ \A b \in Adders \ {a} : add'[b] = add[b]
      /\ \/ contents' = contents
         \/ /\ \A p \in Objects : p # add[a].object => contents'[p] = contents[p]
            /\ add'[a].at = "emit" /\ add'[a].object = add[a].object
      /\ readers' = [readers EXCEPT ![Manager] = @ \ {a}]
    BY DEF AddFold, ChangeContents, HostInv, HostType, AddState
<1>2. a # "main"
    BY HostManagerAssumption
<1>3. /\ readers' \in [Locks -> SUBSET Threads]
      /\ "main" \in readers[Manager] => "main" \in readers'[Manager]
    BY <1>1, <1>2 DEF SaveInv, SaveType, Locks
<1>4. SaveType' /\ FlushReads'
    BY <1>1, <1>3 DEF SaveInv, SaveType, FlushReads
<1>5. InFlight => InFlight'
    BY <1>1, InFlightParts DEF InFlight, Waits, PollerTells, AdderTells, Handled
<1>6. Current' = Current \/ InFlight'
    BY <1>1 DEF Current, InFlight, HostInv, HostType, MadeOr0
<1> QED BY <1>1, <1>4, <1>5, <1>6, SaveByOthers

LEMMA SaveAddEmit ==
    ASSUME HostInv, SaveInv, NEW a \in Adders, AddEmit(a)
    PROVE  SaveInv'
<1> USE DEF hostVars, saveVars, pollVars, lockVars
<1> DEFINE o == add[a].object
<1>1. /\ UNCHANGED <<known, contents, del, main, timer, needsFlush, snapshot,
                     lastSaved, disk, failures, readers, poller>>
      /\ events' = Append(events, o)
      /\ \A b \in Adders \ {a} : add'[b] = add[b]
    BY DEF AddEmit, HostInv, HostType
<1>2. events \in Seq(Queued) /\ o \in Queued
    BY DEF SaveInv, SaveType, Queued, HostInv, HostType, AddState, MadeOr0,
           NoObject, SaveAll
<1>3. /\ Append(events, o) \in Seq(Queued)
      /\ \E i \in DOMAIN Append(events, o) : Append(events, o)[i] = o
      /\ \A i \in DOMAIN events : /\ i \in DOMAIN Append(events, o)
                                  /\ Append(events, o)[i] = events[i]
    BY <1>2, AppendQueues
<1>4. Waits => Waits'
    BY <1>1, <1>3 DEF Waits
<1>5. AdderTells => AdderTells' \/ Waits'
    BY <1>1, <1>3 DEF AdderTells, Waits
<1>6. InFlight => InFlight'
    BY <1>1, <1>4, <1>5, InFlightParts
    DEF InFlight, Waits, PollerTells, AdderTells, Handled
<1>7. Current' = Current /\ FlushReads'
    BY <1>1 DEF Current, SaveInv, FlushReads
<1>8. SaveType'
    BY <1>1, <1>3 DEF SaveInv, SaveType
<1> QED BY <1>1, <1>6, <1>7, <1>8, SaveByOthers

\* The deletion task: the records lose the Host when it takes it, and the
\* queued save follows.
LEMMA SaveDelSteps ==
    ASSUME HostInv, SaveInv,
           DeleteHost \/ DelTakeHost \/ DelInterrupt \/ DelJoin \/ DelFree
    PROVE  SaveInv'
<1> USE DEF hostVars, saveVars, pollVars, lockVars
<1>1. /\ UNCHANGED <<contents, add, main, timer, needsFlush, snapshot,
                     lastSaved, disk, failures, events, readers>>
      /\ del.at # "save"
    BY DEF DeleteHost, DelTakeHost, DelInterrupt, DelJoin, DelFree, AwaitWrite,
           WriteUnder
<1>2. SaveType'
    BY <1>1 DEF SaveInv, SaveType
<1>3. CASE DelTakeHost
    <2>1. CanWrite(Manager) /\ del'.at = "save"
        BY <1>3 DEF DelTakeHost, WriteUnder, HostInv, HostType, DelState
    <2>2. FlushReads' /\ InFlight'
        BY <1>1, <2>1 DEF SaveInv, FlushReads, CanWrite, InFlight
    <2> QED BY <1>1, <1>2, <2>2, SaveByOthers
<1>4. CASE DeleteHost \/ DelInterrupt \/ DelJoin \/ DelFree
    <2>1. known' = known
        BY <1>4 DEF DeleteHost, DelInterrupt, DelJoin, DelFree
    <2>2. ASSUME NEW t \in Pollers, poller[t].at = "emit"
          PROVE  poller'[t].at = "emit" /\ poller'[t].object = poller[t].object
        <3>1. CASE DeleteHost \/ DelFree
            BY <2>2, <3>1 DEF DeleteHost, DelFree
        <3>2. CASE DelJoin
            BY <2>2, <3>2 DEF DelJoin, Finished
        <3>3. CASE DelInterrupt
            <4> DEFINE b == poller[t].interrupted \/ t \in del.threads
            <4>1. poller'[t] = [poller[t] EXCEPT !.interrupted = b]
                BY <3>3 DEF DelInterrupt
            <4> HIDE DEF b
            <4> QED BY <2>2, <4>1 DEF HostInv, HostType, PollerState
        <3> QED BY <1>4, <3>1, <3>2, <3>3
    <2>3. PollerTells => PollerTells'
        BY <2>1, <2>2 DEF PollerTells
    <2>4. InFlight => InFlight'
        BY <1>1, <2>1, <2>3, InFlightParts
        DEF InFlight, Waits, PollerTells, AdderTells, Handled
    <2>5. Current' = Current /\ FlushReads'
        BY <1>1, <2>1 DEF Current, SaveInv, FlushReads
    <2> QED BY <1>1, <1>2, <2>4, <2>5, SaveByOthers
<1> QED BY <1>3, <1>4

LEMMA SaveDelSaveHosts ==
    ASSUME HostInv, SaveInv, DelSaveHosts
    PROVE  SaveInv'
<1> USE DEF hostVars, saveVars, pollVars, lockVars
<1>1. /\ UNCHANGED <<known, contents, add, main, timer, needsFlush, snapshot,
                     lastSaved, disk, failures, readers>>
      /\ events' = Append(events, SaveAll)
    BY DEF DelSaveHosts
<1>2. /\ Append(events, SaveAll) \in Seq(Queued)
      /\ \E i \in DOMAIN Append(events, SaveAll) :
            Append(events, SaveAll)[i] = SaveAll
    BY AppendQueues DEF SaveInv, SaveType, Queued
<1>3. InFlight'
    BY <1>1, <1>2 DEF InFlight
<1>4. SaveType' /\ FlushReads'
    BY <1>1, <1>2 DEF SaveInv, SaveType, FlushReads
<1> QED BY <1>1, <1>3, <1>4, SaveByOthers

LEMMA SaveInvNext ==
    HostInv /\ SaveInv /\ [HostManagerNext]_hostManagerVars => SaveInv'
<1> SUFFICES ASSUME HostInv, SaveInv, [HostManagerNext]_hostManagerVars
             PROVE  SaveInv'
    OBVIOUS
<1>1. CASE UserStep
    <2>1. CASE \E a \in Adders : AddNewHost(a)
        BY <2>1, SaveQuietAdds
    <2> QED BY <1>1, <2>1, SaveMainSteps, SaveDelSteps DEF UserStep
<1>2. CASE MainStep
    BY <1>2, SaveMainSteps, SaveFlushSteps, SaveEditHost, SaveTakeEvent,
       SaveSaveHost, SaveFlushWrite DEF MainStep
<1>3. CASE DelStep
    BY <1>3, SaveDelSteps, SaveDelSaveHosts DEF DelStep
<1>4. CASE \E t \in Pollers : PollerStep(t)
    BY <1>4, SavePollerSteps
<1>5. ASSUME NEW a \in Adders, AddStep(a) PROVE SaveInv'
    <2>1. CASE \/ AddQueryFails(a) \/ AddLookup(a) \/ AddLockForWrite(a)
               \/ AddInsert(a) /\ known # NoObject
        BY <2>1, SaveQuietAdds
    <2>2. CASE AddInsert(a) /\ known = NoObject
        BY <2>2, SaveNewObject
    <2>3. CASE AddFold(a) \/ AddEmit(a)
        BY <2>3, SaveAddFold, SaveAddEmit
    <2> QED BY <1>5, <2>1, <2>2, <2>3 DEF AddStep
<1>6. CASE UNCHANGED hostManagerVars
    BY <1>6
    DEF hostManagerVars, hostVars, saveVars, pollVars, lockVars, SaveInv,
        SaveType, FlushRuns, FlushReads, SnapshotIsCurrent, ChangeIsScheduled,
        Current, InFlight
<1> QED BY <1>1, <1>2, <1>3, <1>4, <1>5, <1>6 DEF HostManagerNext

LEMMA SaveInvHolds == HostManagerSpec => []SaveInv
<1>1. HostInv /\ SaveInv /\ [HostManagerNext]_hostManagerVars => SaveInv'
    BY SaveInvNext
<1> QED BY <1>1, SaveInvInit, InvHolds, PTL DEF HostManagerSpec

\* A change of a Host is in the database, or a flush is due, or its news is on
\* the way to the main thread (computermanager.cpp:389-433, 572-600).
THEOREM NoChangeForgotten == HostManagerSpec => []ChangeIsScheduled
<1>1. SaveInv => ChangeIsScheduled
    BY DEF SaveInv
<1> QED BY <1>1, SaveInvHolds, PTL

\* At the end of the program the database has what the main thread knew,
\* unless the last transaction was refused (computermanager.cpp:352-357).
THEOREM ExitSaves == HostManagerSpec => []ExitSavesHosts
<1>1. SaveInv => ExitSavesHosts
    BY DEF SaveInv, FlushRuns, ChangeIsScheduled, ExitSavesHosts
<1> QED BY <1>1, SaveInvHolds, PTL

(***************************************************************************)
(* The type invariant.  What bounds the versions is that an object not yet *)
(* made still has its own to use.                                          *)
(***************************************************************************)

LockType ==
    /\ writer \in [Locks -> Threads \cup {NoThread}]
    /\ waiting \in [Locks -> SUBSET Threads]

VersionType ==
    /\ version \in Versions /\ contents \in [Objects -> Versions]
    /\ \A o \in Objects : contents[o] = 0 => version <= MaxVersion + o - 1

WrittenType ==
    /\ {snapshot, lastSaved, disk} \subseteq Versions
    /\ failures \in 0..MaxFailures
    /\ quitting \in BOOLEAN /\ starts \in Nat

LEMMA BoundsAreNat ==
    /\ MaxVersion \in Nat /\ MaxVersion > 0
    /\ MaxObjects \in Nat /\ MaxFailures \in Nat /\ MaxStarts \in Nat
BY HostManagerAssumption

LEMMA RestTypeInit ==
    HostManagerInit => LockType /\ VersionType /\ WrittenType
<1> SUFFICES ASSUME HostManagerInit PROVE LockType /\ VersionType /\ WrittenType
    OBVIOUS
<1>1. LockType
    BY DEF HostManagerInit, LockType
<1>2. 0 \in Versions /\ 1 \in Versions /\ known \in Versions
    BY BoundsAreNat DEF HostManagerInit, Versions, NoObject
<1>3. version \in Nat /\ version <= MaxVersion
    BY BoundsAreNat DEF HostManagerInit
<1>4. version \in Versions
    BY <1>3, BoundsAreNat DEF Versions
<1>5. \A o \in Objects : version <= MaxVersion + o - 1
    BY <1>3, BoundsAreNat DEF Objects
<1>6. contents \in [Objects -> Versions]
    BY <1>2 DEF HostManagerInit
<1>7. VersionType
    BY <1>4, <1>5, <1>6 DEF VersionType
<1>8. failures \in 0..MaxFailures /\ starts \in Nat /\ quitting = FALSE
    BY BoundsAreNat DEF HostManagerInit
<1>9. {snapshot, lastSaved, disk} \subseteq Versions
    BY <1>2 DEF HostManagerInit
<1> QED BY <1>1, <1>7, <1>8, <1>9 DEF WrittenType

LEMMA LockTypeNext ==
    HostInv /\ LockType /\ [HostManagerNext]_hostManagerVars => LockType'
<1> SUFFICES ASSUME HostInv, LockType, [HostManagerNext]_hostManagerVars
             PROVE  LockType'
    OBVIOUS
<1> USE DEF LockType, lockVars
<1>1. {"main", "del"} \subseteq Threads /\ Pollers \subseteq Threads
      /\ Adders \subseteq Threads /\ Manager \in Locks
    BY DEF Threads, Locks
<1>2. ASSUME NEW t \in Threads, NEW l, AwaitWrite(t, l)
      PROVE  LockType'
    BY <1>2 DEF AwaitWrite
<1>3. ASSUME NEW t, NEW l, WriteUnder(t, l) PROVE LockType'
    BY <1>3 DEF WriteUnder
<1>4. UNCHANGED <<writer, waiting>> => LockType'
    OBVIOUS
<1>5. CASE UserStep
    BY <1>1, <1>2, <1>4, <1>5
    DEF UserStep, AwaitPolling, AwaitEdit, DeleteHost, Quit, ReadUnder, AddNewHost
<1>6. CASE MainStep
    <2>1. CASE StartPolling \/ StopPollingAsync \/ EditHost
        BY <2>1, <1>3 DEF StartPolling, StopPollingAsync, EditHost
    <2>2. CASE ~(StartPolling \/ StopPollingAsync \/ EditHost)
        BY <1>4, <1>6, <2>2
        DEF MainStep, TakeEvent, NotifyListeners, SaveHost, ReadUnder,
            FlushTimeout, FlushLockHosts, FlushLockHost, FlushRecord,
            FlushWrite, DestructorFlush, DestructorInterrupt, DestructorDelete
    <2> QED BY <2>1, <2>2
<1>7. CASE DelStep
    BY <1>3, <1>4, <1>7
    DEF DelStep, DelTakeHost, DelSaveHosts, DelInterrupt, DelJoin, DelFree
<1>8. ASSUME NEW t \in Pollers, PollerStep(t) PROVE LockType'
    BY <1>1, <1>2, <1>3, <1>4, <1>8
    DEF PollerStep, PollHost, UpdateHost, EmitChange
<1>9. ASSUME NEW a \in Adders, AddStep(a) PROVE LockType'
    <2>1. CASE AddQueryFails(a) \/ AddLockForWrite(a) \/ AddEmit(a)
        BY <1>1, <1>2, <1>4, <2>1 DEF AddQueryFails, AddLockForWrite, AddEmit
    <2>2. CASE AddLookup(a) \/ AddFold(a)
        BY <1>1, <2>2 DEF AddLookup, AddFold
    <2>3. CASE AddInsert(a)
        BY <1>1, <2>3 DEF AddInsert
    <2> QED BY <1>9, <2>1, <2>2, <2>3 DEF AddStep
<1>10. CASE UNCHANGED hostManagerVars
    BY <1>10 DEF hostManagerVars
<1> QED BY <1>5, <1>6, <1>7, <1>8, <1>9, <1>10 DEF HostManagerNext

LEMMA VersionTypeNext ==
    HostInv /\ VersionType /\ [HostManagerNext]_hostManagerVars => VersionType'
<1> SUFFICES ASSUME HostInv, VersionType, [HostManagerNext]_hostManagerVars
             PROVE  VersionType'
    OBVIOUS
<1>1. ASSUME NEW o, ChangeContents(o) PROVE VersionType'
    <2>1. version \in Nat /\ version < MaxVersion /\ version' = version + 1
        BY <1>1 DEF ChangeContents, VersionType, Versions
    <2>2. version' \in Versions /\ version' # 0
        BY <2>1, BoundsAreNat DEF Versions
    <2>3. contents' \in [Objects -> Versions]
        BY <1>1, <2>2 DEF ChangeContents, VersionType
    <2>4. \A p \in Objects : version' <= MaxVersion + p - 1
        BY <2>1, BoundsAreNat DEF Objects
    <2> QED BY <2>2, <2>3, <2>4 DEF VersionType
<1>2. UNCHANGED <<version, contents>> => VersionType'
    BY DEF VersionType
<1>3. ASSUME NEW a \in Adders, AddInsert(a), known = NoObject PROVE VersionType'
    <2>1. PICK o \in Objects :
            /\ contents[o] = 0 /\ \A p \in 1..(o - 1) : contents[p] # 0
            /\ version' = version + 1
            /\ contents' = [contents EXCEPT ![o] = version']
        BY <1>3 DEF AddInsert
    <2>2. o \in Nat /\ o >= 1 /\ o <= MaxObjects /\ version \in Nat
        BY BoundsAreNat DEF Objects, VersionType, Versions
    <2>3. version <= MaxVersion + o - 1
        BY <2>1 DEF VersionType
    <2>4. version' \in Versions /\ version' # 0 /\ version' <= MaxVersion + o
        BY <2>1, <2>2, <2>3, BoundsAreNat DEF Versions
    <2>5. contents' \in [Objects -> Versions]
        BY <2>1, <2>4 DEF VersionType
    <2>6. ASSUME NEW p \in Objects, contents'[p] = 0
          PROVE  version' <= MaxVersion + p - 1
        <3>1. p # o /\ contents[p] = 0
            BY <2>1, <2>4, <2>6 DEF VersionType
        <3>2. p \in Nat /\ p >= 1
            BY BoundsAreNat DEF Objects
        <3>3. p > o
            <4>1. ~(p < o)
                BY <2>1, <2>2, <3>1, <3>2
            <4> QED BY <2>2, <3>1, <3>2, <4>1
        <3> QED BY <2>2, <2>3, <2>1, <3>2, <3>3, BoundsAreNat
    <2> QED BY <2>4, <2>5, <2>6 DEF VersionType
<1> USE DEF hostVars
<1>4. CASE UserStep
    BY <1>2, <1>4
    DEF UserStep, AwaitPolling, AwaitEdit, DeleteHost, Quit, AddNewHost
<1>5. CASE MainStep
    <2>1. CASE EditHost
        BY <1>1, <1>2, <2>1 DEF EditHost
    <2>2. CASE ~EditHost
        BY <1>2, <1>5, <2>2
        DEF MainStep, StartPolling, StopPollingAsync, TakeEvent, SaveHost,
            NotifyListeners, FlushTimeout, FlushLockHosts, FlushLockHost,
            FlushRecord, FlushWrite, DestructorFlush, DestructorInterrupt,
            DestructorDelete
    <2> QED BY <2>1, <2>2
<1>6. CASE DelStep
    BY <1>2, <1>6
    DEF DelStep, DelTakeHost, DelSaveHosts, DelInterrupt, DelJoin, DelFree
<1>7. ASSUME NEW t \in Pollers, PollerStep(t) PROVE VersionType'
    BY <1>1, <1>2, <1>7 DEF PollerStep, PollHost, UpdateHost, EmitChange
<1>8. ASSUME NEW a \in Adders, AddStep(a) PROVE VersionType'
    <2>1. CASE AddInsert(a)
        BY <1>2, <1>3, <2>1 DEF AddInsert
    <2>2. CASE ~AddInsert(a)
        BY <1>1, <1>2, <1>8, <2>2
        DEF AddStep, AddQueryFails, AddLookup, AddLockForWrite, AddFold, AddEmit
    <2> QED BY <2>1, <2>2
<1>9. CASE UNCHANGED hostManagerVars
    BY <1>2, <1>9 DEF hostManagerVars
<1> QED BY <1>4, <1>5, <1>6, <1>7, <1>8, <1>9 DEF HostManagerNext

LEMMA WrittenTypeNext ==
    HostInv /\ SaveInv /\ VersionType /\ WrittenType
        /\ [HostManagerNext]_hostManagerVars => WrittenType'
<1> SUFFICES ASSUME HostInv, SaveInv, VersionType, WrittenType,
                    [HostManagerNext]_hostManagerVars
             PROVE  WrittenType'
    OBVIOUS
<1> USE DEF saveVars, pollVars
<1>1. UNCHANGED <<snapshot, lastSaved, disk, failures, starts>>
        /\ quitting' \in {quitting, TRUE} => WrittenType'
    BY DEF WrittenType
<1>2. CASE UserStep
    BY <1>1, <1>2
    DEF UserStep, AwaitPolling, AwaitEdit, DeleteHost, Quit, AddNewHost
<1>3. CASE MainStep
    <2>1. CASE StartPolling
        BY <2>1 DEF StartPolling, WrittenType
    <2>2. CASE FlushLockHosts
        BY <2>2, BoundsAreNat DEF FlushLockHosts, WrittenType, Versions
    <2>3. CASE FlushRecord
        <3>1. main.object \in Objects
            BY <2>3 DEF FlushRecord, SaveInv, FlushReads, HostInv, HostType, MadeOr0
        <3>2. snapshot' \in Versions
            BY <2>3, <3>1 DEF FlushRecord, VersionType
        <3> QED BY <2>3, <3>2 DEF FlushRecord, WrittenType
    <2>4. CASE FlushWrite
        <3>1. /\ snapshot' = 0 /\ {lastSaved', disk'} \subseteq Versions
              /\ UNCHANGED <<quitting, starts>>
            BY <2>4 DEF FlushWrite, WrittenType
        <3>2. failures' \in 0..MaxFailures
            BY <2>4, BoundsAreNat DEF FlushWrite, WrittenType
        <3>3. 0 \in Versions
            BY BoundsAreNat DEF Versions
        <3> QED BY <3>1, <3>2, <3>3 DEF WrittenType
    <2>5. CASE ~(StartPolling \/ FlushLockHosts \/ FlushRecord \/ FlushWrite)
        BY <1>1, <1>3, <2>5
        DEF MainStep, StopPollingAsync, EditHost, TakeEvent, NotifyListeners,
            SaveHost, FlushTimeout, FlushLockHost, DestructorFlush,
            DestructorInterrupt, DestructorDelete
    <2> QED BY <2>1, <2>2, <2>3, <2>4, <2>5
<1>4. CASE DelStep
    BY <1>1, <1>4
    DEF DelStep, DelTakeHost, DelSaveHosts, DelInterrupt, DelJoin, DelFree
<1>5. ASSUME NEW t \in Pollers, PollerStep(t) PROVE WrittenType'
    BY <1>1, <1>5 DEF PollerStep, PollHost, UpdateHost, EmitChange
<1>6. ASSUME NEW a \in Adders, AddStep(a) PROVE WrittenType'
    BY <1>1, <1>6
    DEF AddStep, AddQueryFails, AddLookup, AddLockForWrite, AddInsert, AddFold,
        AddEmit
<1>7. CASE UNCHANGED hostManagerVars
    BY <1>1, <1>7 DEF hostManagerVars
<1> QED BY <1>2, <1>3, <1>4, <1>5, <1>6, <1>7 DEF HostManagerNext

\* The invariant of the manager: all that is proved of it is a part.
ManagerInv ==
    HostInv /\ PollInv /\ SaveInv /\ LockType /\ VersionType /\ WrittenType

LEMMA ManagerInit == HostManagerInit => ManagerInv
BY InvInit, PollInvInit, SaveInvInit, RestTypeInit DEF ManagerInv

LEMMA ManagerNext ==
    ManagerInv /\ [HostManagerNext]_hostManagerVars => ManagerInv'
BY InvStep, PollInvNext, SaveInvNext, LockTypeNext, VersionTypeNext,
   WrittenTypeNext DEF ManagerInv

LEMMA ManagerTypes == ManagerInv => HostManagerTypeOK
<1> SUFFICES ASSUME ManagerInv PROVE HostManagerTypeOK
    OBVIOUS
<1> USE DEF ManagerInv
<1>1. /\ known \in Objects \cup {NoObject} /\ freed \subseteq Objects
      /\ active \in Pollers \cup {NoThread} /\ inactive \subseteq Pollers
      /\ poller \in [Pollers -> PollerState]
      /\ add \in [Adders -> AddState] /\ del \in DelState
    BY DEF HostInv, HostType, MadeOr0
<1>2. pollRef \in Nat
    BY DEF PollInv, Counted
<1>3. /\ events \in Seq(Queued) /\ main \in [at : MainAt, object : MadeOr0]
      /\ readers \in [Locks -> SUBSET Threads]
      /\ {timer, needsFlush} \subseteq BOOLEAN
    BY DEF SaveInv, SaveType
<1>4. {timer, needsFlush, quitting} \subseteq BOOLEAN
    BY <1>3 DEF WrittenType
<1> QED BY <1>1, <1>2, <1>3, <1>4
        DEF LockType, VersionType, WrittenType, HostManagerTypeOK, PollerState,
            AddState, DelState, MainAt, MadeOr0, Queued

\* Every variable of the host manager keeps its type, whatever the bounds.
THEOREM HostTypes == HostManagerSpec => []HostManagerTypeOK
<1>1. ManagerInv /\ [HostManagerNext]_hostManagerVars => ManagerInv'
    BY ManagerNext
<1> QED BY <1>1, ManagerInit, ManagerTypes, PTL DEF HostManagerSpec
=============================================================================
