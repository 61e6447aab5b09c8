------------------------- MODULE DecoderRecreation -------------------------
(***************************************************************************)
(* How exec() replaces the video decoder (app/streaming/session.cpp).      *)
(*                                                                         *)
(* The main thread takes SDL events in order.  A window event, or a reset  *)
(* event pushed by a thread of the decoder, makes it recreate the decoder  *)
(* under m_DecoderLock; a barrier event it then pushes makes it drop the   *)
(* window events the recreation has already taken into account.  A thread  *)
(* of the connection library reports changes of the host's HDR mode.       *)
(*                                                                         *)
(* A window's size and display are one number, which a change increases.   *)
(* The event queue is a function from places to events: an event is pushed *)
(* at the next place, and the one at the first place is taken.             *)
(***************************************************************************)
EXTENDS Integers, FiniteSets, Functions

CONSTANTS
    TogglesDestroy, \* toggleFullscreen() destroys the decoder: Windows, macOS
    MaxGeometry,    \* bound: changes of the window, the first one included
    MaxResets,      \* bound: reset events pushed by decoders
    MaxToggles,     \* bound: full-screen keys pressed
    MaxHdrChanges   \* bound: changes of the host's HDR mode

ASSUME RecreationAssumption ==
    /\ TogglesDestroy \in BOOLEAN
    /\ MaxGeometry \in Nat \ {0}
    /\ {MaxResets, MaxToggles, MaxHdrChanges} \subseteq Nat
    /\ MaxToggles < MaxGeometry

VARIABLES
    events,         \* the SDL event queue: the event at each place
    place,          \* the next place of the queue
    flushRef,       \* m_FlushingWindowEventsRef
    decoder,        \* m_VideoDecoder: none, or a record
    serial,         \* how many decoders have been created
    geometry,       \* the window's, as SDL knows it
    main,           \* where the main thread is
    readHdr,        \* what LiGetCurrentHostDisplayHdrMode() returned
    hostHdr,        \* the HDR mode of the host's display
    callback,       \* a clSetHdrMode() call to come, or none
    hdrMissed,      \* history: a call was dropped after the mode was read
    resets,         \* used bounds
    toggles,
    hdrChanges

hdrVars == <<readHdr, hostHdr, callback, hdrMissed, hdrChanges>>
recreationVars ==
    <<events, place, flushRef, decoder, serial, geometry, main, hdrVars, resets,
      toggles>>

NoDecoder == [serial |-> 0, geometry |-> 0, hdr |-> FALSE]
NoCallback == <<>>

Decoder == [serial : Nat \ {0}, geometry : 1..MaxGeometry, hdr : BOOLEAN]

WindowEvent(g) == [kind |-> "window", geometry |-> g]
ResetEvent(n) == [kind |-> "reset", serial |-> n]
Barrier == [kind |-> "barrier"]
ToggleKey == [kind |-> "toggle"]

Event ==
    [kind : {"window"}, geometry : 1..MaxGeometry]
        \cup [kind : {"reset"}, serial : Nat \ {0}]
        \cup {Barrier, ToggleKey}

\* Queues with an event pushed, taken, or with others pushed behind.
With(queue, e) ==
    [i \in DOMAIN queue \cup {place} |-> IF i = place THEN e ELSE queue[i]]
Without(i) == Restrict(events, DOMAIN events \ {i})
Join(queue, others) ==
    [i \in DOMAIN queue \cup DOMAIN others |->
        IF i \in DOMAIN queue THEN queue[i] ELSE others[i]]

Push(queue, e) ==
    /\ events' = With(queue, e)
    /\ place' = place + 1

\* How far the window may change by itself: toggles change it too.
MaxResized == MaxGeometry - MaxToggles

\* The lock is free outside a recreation: the callback holds it for one step.
LockFree == main \in {"idle", "ended"}

\* exec() enters its loop with a window just shown and no decoder.
RecreationInit ==
    /\ events = [i \in {1} |-> WindowEvent(1)]
    /\ place = 2
    /\ flushRef = 0
    /\ decoder = NoDecoder
    /\ serial = 0
    /\ geometry = 1
    /\ main = "idle"
    /\ readHdr = FALSE
    /\ hostHdr \in BOOLEAN
    /\ callback = NoCallback
    /\ hdrMissed = FALSE
    /\ resets = 0 /\ toggles = 0 /\ hdrChanges = 0

-----------------------------------------------------------------------------
(* Events of the window system and of the decoder's threads. *)

Resize ==
    /\ main = "idle"
    /\ geometry < MaxResized
    /\ geometry' = geometry + 1
    /\ Push(events, WindowEvent(geometry + 1))
    /\ UNCHANGED <<flushRef, decoder, serial, main, resets, toggles, hdrVars>>

PressToggle ==
    /\ main = "idle"
    /\ toggles < MaxToggles
    /\ toggles' = toggles + 1
    /\ Push(events, ToggleKey)
    /\ UNCHANGED <<flushRef, decoder, serial, geometry, main, resets, hdrVars>>

\* A renderer loses its device, or decoding fails for good.
RequestReset ==
    /\ decoder # NoDecoder
    /\ resets < MaxResets
    /\ resets' = resets + 1
    /\ Push(events, ResetEvent(decoder.serial))
    /\ UNCHANGED <<flushRef, decoder, serial, geometry, main, toggles,
                   hdrVars>>

-----------------------------------------------------------------------------
(* The main thread. *)

\* The event at place i is the next, and of this kind.
IsNext(i, kind) ==
    /\ main = "idle"
    /\ i \in DOMAIN events
    /\ \A j \in DOMAIN events : i <= j
    /\ events[i].kind = kind

\* It is taken, and nothing pushed.
Taken(i, kind) ==
    /\ IsNext(i, kind)
    /\ events' = Without(i)
    /\ UNCHANGED place

\* X_Mistake, here and below, is the definition X with a plausible mistake in it.
\* No specification uses it: it shows that a property would catch the mistake.
HandleBarrier_Forgets ==
    /\ \E i \in DOMAIN events : Taken(i, "barrier")
    /\ UNCHANGED <<flushRef, decoder, serial, geometry, main, resets, toggles,
                   hdrVars>>

\* SDL_CODE_FLUSH_WINDOW_EVENT_BARRIER.
HandleBarrier ==
    /\ \E i \in DOMAIN events : Taken(i, "barrier")
    /\ flushRef' = flushRef - 1
    /\ UNCHANGED <<decoder, serial, geometry, main, resets, toggles, hdrVars>>

\* toggleFullscreen().  The model takes it that SDL then reports the window's new
\* size, as the code does: nothing else brings a decoder that was destroyed here.
HandleToggle ==
    /\ \E i \in DOMAIN events :
          /\ IsNext(i, "toggle")
          /\ Push(Without(i), WindowEvent(geometry + 1))
    /\ geometry' = geometry + 1
    /\ decoder' = IF TogglesDestroy THEN NoDecoder ELSE decoder
    /\ UNCHANGED <<flushRef, serial, main, resets, toggles, hdrVars>>

\* Window events are ignored for renderer reset while flushing.
DropWindowEvent ==
    /\ \E i \in DOMAIN events : Taken(i, "window")
    /\ flushRef > 0
    /\ UNCHANGED <<flushRef, decoder, serial, geometry, main, resets, toggles,
                   hdrVars>>

NotifyWindowChanged_Ignored ==
    /\ \E i \in DOMAIN events : Taken(i, "window")
    /\ flushRef = 0
    /\ decoder # NoDecoder
    /\ UNCHANGED <<flushRef, decoder, serial, geometry, main, resets, toggles,
                   hdrVars>>

\* notifyWindowChanged() lets the renderer adapt without being recreated.
NotifyWindowChanged ==
    /\ flushRef = 0
    /\ decoder # NoDecoder
    /\ \E i \in DOMAIN events :
          /\ Taken(i, "window")
          /\ decoder' = [decoder EXCEPT !.geometry = events[i].geometry]
    /\ UNCHANGED <<flushRef, serial, geometry, main, resets, toggles, hdrVars>>

\* What flushWindowEvents() adds, given the window changes it finds when it
\* pumps and those SDL_PumpEvents() finds after it.
Flush(before, after) ==
    [n \in place..(place + before + after) |->
        IF n = place + before THEN Barrier
        ELSE WindowEvent(geometry + n - place
                            + (IF n < place + before THEN 1 ELSE 0))]

Flushed_KeepsResets(queue, before, after) == Join(queue, Flush(before, after))

\* Then the reset events of the dead decoder are flushed.
Flushed(queue, before, after) ==
    LET all == Join(queue, Flush(before, after))
    IN  Restrict(all, {i \in DOMAIN all : all[i].kind # "reset"})

\* The old decoder is destroyed.
BeginRecreation ==
    /\ decoder' = NoDecoder
    /\ \E i \in DOMAIN events, before, after \in 0..1 :
          /\ IsNext(i, "reset") \/ (IsNext(i, "window") /\ flushRef = 0)
          /\ before + after > 0 => geometry + before + after <= MaxResized
          /\ geometry' = geometry + before + after
          /\ events' = Flushed(Without(i), before, after)
          /\ place' = place + before + after + 1
    /\ flushRef' = flushRef + 1
    /\ main' = "choosing"
    /\ UNCHANGED <<serial, resets, toggles, hdrVars>>

ChooseDecoder ==
    /\ main = "choosing"
    /\ serial' = serial + 1
    /\ decoder' = [serial |-> serial + 1, geometry |-> geometry, hdr |-> FALSE]
    /\ main' = "chosen"
    /\ UNCHANGED <<events, place, flushRef, geometry, resets, toggles,
                   hdrVars>>

\* The stream ends with "Unable to initialize video decoder".
ChooseFails ==
    /\ main = "choosing"
    /\ main' = "ended"
    /\ UNCHANGED <<events, place, flushRef, decoder, serial, geometry, resets,
                   toggles, hdrVars>>

\* The argument of setHdrMode() is evaluated,
ReadHostHdr ==
    /\ main = "chosen"
    /\ readHdr' = hostHdr
    /\ main' = "hdrRead"
    /\ UNCHANGED <<events, place, flushRef, decoder, serial, geometry, hostHdr,
                   callback, resets, toggles, hdrChanges, hdrMissed>>

EndRecreation_ForgetsHdr ==
    /\ main = "hdrRead"
    /\ main' = "idle"
    /\ UNCHANGED <<events, place, flushRef, decoder, serial, geometry, resets,
                   toggles, hdrVars>>

\* and the decoder told, before the lock is released.
EndRecreation ==
    /\ main = "hdrRead"
    /\ decoder' = [decoder EXCEPT !.hdr = readHdr]
    /\ main' = "idle"
    /\ UNCHANGED <<events, place, flushRef, serial, geometry, resets, toggles,
                   hdrVars>>

-----------------------------------------------------------------------------
(* The connection library. *)

HostChangesHdr ==
    /\ callback = NoCallback
    /\ hdrChanges < MaxHdrChanges
    /\ hdrChanges' = hdrChanges + 1
    /\ hostHdr' = ~hostHdr
    /\ callback' = <<~hostHdr>>
    /\ UNCHANGED <<events, place, flushRef, decoder, serial, geometry, main,
                   readHdr, hdrMissed, resets, toggles>>

\* clSetHdrMode(): dropped if the lock is taken or there is no decoder.
ClSetHdrMode ==
    /\ callback # NoCallback
    /\ callback' = NoCallback
    /\ decoder' = IF LockFree /\ decoder # NoDecoder
                  THEN [decoder EXCEPT !.hdr = callback[1]] ELSE decoder
    /\ hdrMissed' = (hdrMissed \/ main = "hdrRead")
    /\ UNCHANGED <<events, place, flushRef, serial, geometry, main, readHdr,
                   hostHdr, resets, toggles, hdrChanges>>

-----------------------------------------------------------------------------

HandleEvent ==
    HandleBarrier \/ HandleToggle \/ DropWindowEvent \/ NotifyWindowChanged
        \/ BeginRecreation

Recreate == ChooseDecoder \/ ChooseFails \/ ReadHostHdr \/ EndRecreation

RecreationNext ==
    \/ Resize \/ PressToggle \/ RequestReset
    \/ HandleEvent \/ Recreate
    \/ HostChangesHdr \/ ClSetHdrMode

RecreationSpec == RecreationInit /\ [][RecreationNext]_recreationVars

\* The main thread takes the next event, and carries a recreation through.
RecreationFairness ==
    WF_recreationVars(HandleEvent) /\ WF_recreationVars(Recreate)

RecreationFairSpec == RecreationSpec /\ RecreationFairness

-----------------------------------------------------------------------------

\* The types of the recreation's state.
RecreationTypeOK ==
    /\ place \in Nat \ {0}
    /\ DOMAIN events \subseteq 1..(place - 1)
    /\ events \in [DOMAIN events -> Event]
    /\ flushRef \in Nat
    /\ decoder \in Decoder \cup {NoDecoder}
    /\ serial \in Nat
    /\ geometry \in 1..MaxGeometry
    /\ main \in {"idle", "choosing", "chosen", "hdrRead", "ended"}
    /\ readHdr \in BOOLEAN /\ hostHdr \in BOOLEAN
    /\ callback \in {NoCallback, <<TRUE>>, <<FALSE>>}
    /\ hdrMissed \in BOOLEAN
    /\ resets \in 0..MaxResets
    /\ toggles \in 0..MaxToggles
    /\ hdrChanges \in 0..MaxHdrChanges

\* The window event at position i will be taken after every barrier that is
\* queued now, so it will not be dropped on their account.
AfterBarriers(i) ==
    /\ events[i].kind = "window"
    /\ \A j \in DOMAIN events : events[j].kind = "barrier" => j < i

\* The flush ends exactly when its barriers have been taken.
FlushRefCountsBarriers ==
    flushRef = Cardinality({i \in DOMAIN events : events[i].kind = "barrier"})

\* Between recreations a missing decoder will be created by an event that is
\* queued already: the one that exec() waits for after toggleFullscreen(), or
\* at the start, is never among those dropped in a flush.
RecreationPending ==
    main = "idle" /\ decoder = NoDecoder
        => \E i \in DOMAIN events :
              events[i].kind = "reset" \/ AfterBarriers(i)

\* A decoder that works with a geometry the window no longer has will hear of
\* the new one: what a flush drops was known when the decoder was created.
RendererLearnsGeometry ==
    decoder # NoDecoder /\ decoder.geometry # geometry
        => \E i \in DOMAIN events :
              AfterBarriers(i) /\ events[i].geometry = geometry

\* A reset request outlives its decoder only while there is no other: a new
\* decoder is never torn down for the fault of an old one.
ResetIsForThisDecoder ==
    decoder # NoDecoder
        => \A i \in DOMAIN events :
              events[i].kind = "reset" => events[i].serial = decoder.serial

\* Every loss of the decoder is repaired, or ends the stream.
DecoderReturns ==
    decoder = NoDecoder ~> decoder # NoDecoder \/ main = "ended"

\* "If we're in the process of recreating our decoder when we get this
\* callback, we'll drop it.  The main thread will make the callback when it
\* finishes creating the new decoder": with nothing under way the decoder has
\* the host's mode, unless the call was dropped after the main thread had
\* already read the old one.
HdrModeSettles ==
    main = "idle" /\ callback = NoCallback /\ decoder # NoDecoder
        => decoder.hdr = hostHdr \/ hdrMissed
=============================================================================
