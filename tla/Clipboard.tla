----------------------------- MODULE Clipboard -----------------------------
(***************************************************************************)
(* The Wayland clipboard and clippo's watcher thread, as clippod sees them *)
(* (clippo-wayland): who owns the selection, the data-control events on    *)
(* their way to the watcher, the selection it is reading, and the two      *)
(* bounded channels between it and the daemon.  The compositor and the     *)
(* other applications are external.  The actions are steps of Daemon.      *)
(*                                                                         *)
(* A request reaches the compositor at once and its events take time: that *)
(* gives every order a delayed request could, because all that matters is  *)
(* which of two owners came first and when the watcher hears of it.        *)
(***************************************************************************)
EXTENDS Flavors, Sequences

CONSTANTS
  Droppable,    \* contents of which a read may fail: over the cap, stalled, no pipe
  Cut,          \* what a flavor reads as when its pipe is closed early
  Primary,      \* capture_primary
  EventCap,     \* capacity of the watcher's event channel (64 in the code)
  CommandCap,   \* capacity of its command channel (16 in the code)
  WireBound,    \* bound: the most events waiting in the connection
  Lossy         \* whether the event channel may be full when the watcher emits

ASSUME ClipboardAssumption ==
  /\ Droppable \subseteq Data
  /\ Cut \subseteq Data /\ Cut # {}
  /\ Primary \in BOOLEAN /\ Lossy \in BOOLEAN
  /\ EventCap \in Nat \ {0} /\ CommandCap \in Nat \ {0} /\ WireBound \in Nat \ {0}

VARIABLES
  clipboard,    \* what the compositor's clipboard holds: none or one clip
  wire,         \* events sent to the watcher and not yet dispatched
  reading,      \* WatchState::pending: none or one clip
  events,       \* the channel of WatchEvents to the daemon
  commands      \* the channel of Offer commands to the watcher

clipboardVars == <<clipboard, wire, reading, events, commands>>

(* The identity a selection has when it is captured, as a set of none or   *)
(* one.                                                                    *)
HashOf(sel) == {new.hash : new \in NewEntries(sel, 0)}

(* A clip is a selection and own, the identity of what clippo offered if    *)
(* clippo is its source and {} if an application is.  The code reads a clip *)
(* without knowing whose it is; what it captured does not carry own.        *)
Clip(own, sel) == [own |-> own, sel |-> sel]
IsClip(c) == c.own \subseteq Hashes /\ IsSelection(c.sel)
IsOwn(c) == c.own # {}

Selected(clips) == [type |-> "selection", clips |-> clips]
Cancelled       == [type |-> "cancelled"]
Superseded      == [type |-> "superseded"]   \* of a source clippo has replaced itself
Captured(clip)  == [type |-> "captured", clip |-> clip]
SelectionLost   == [type |-> "lost"]

ClipboardTypeOK ==
  /\ \A c \in clipboard \cup reading : IsClip(c)
  /\ Cardinality(clipboard) <= 1 /\ Cardinality(reading) <= 1
  /\ \A k \in DOMAIN wire : wire[k].type = "selection" => \A c \in wire[k].clips : IsClip(c)
  /\ \A k \in DOMAIN events : events[k].type = "captured" => IsClip(events[k].clip)
  /\ \A k \in DOMAIN commands : IsPartial(commands[k], Slots, Flavor)
  /\ Len(wire) <= WireBound /\ Len(events) <= EventCap /\ Len(commands) <= CommandCap

ClipboardInit ==
  /\ clipboard = {}
  /\ wire = << >> /\ reading = {} /\ events = << >> /\ commands = << >>

-----------------------------------------------------------------------------
(* The compositor and the other applications.                              *)

Owned == \E c \in clipboard : IsOwn(c)

(* The clipboard changes hands: clippo's source, if it was the owner, is   *)
(* told it was cancelled, and then every device is told of the selection.  *)
(* A clippo that is not watching is told nothing.                          *)
OthersTake(clips, watched) ==
  /\ Len(wire) + 2 <= WireBound
  /\ clipboard' = clips
  /\ wire' = IF watched
             THEN wire \o (IF Owned THEN <<Cancelled>> ELSE << >>) \o <<Selected(clips)>>
             ELSE wire
  /\ UNCHANGED <<reading, events, commands>>

(* The primary selection reaches the watcher only when it asked for it, and *)
(* is then handled like the clipboard.                                      *)
PrimaryChanges(clips) ==
  /\ Primary
  /\ Len(wire) < WireBound
  /\ wire' = Append(wire, Selected(clips))
  /\ UNCHANGED <<clipboard, reading, events, commands>>

-----------------------------------------------------------------------------
(* The watcher's loop.                                                     *)

(* emit: try_send, and an event that does not fit is dropped.              *)
Emit(event) ==
  IF Len(events) < EventCap
  THEN events' = Append(events, event)
  ELSE Lossy /\ UNCHANGED events

(* A pipe closed early is the end of a flavor like any other (read_flavor), *)
(* so its content is whatever had been written.                             *)
CutShort(sel) ==
  {[sel EXCEPT !.flavors = [i \in DOMAIN sel.flavors |-> [sel.flavors[i] EXCEPT !.data = d]]] :
     d \in Cut}

(* source_send closes the pipe of a source of clippo's that no longer owns  *)
(* the clipboard.                                                           *)
Served(clip) ==
  IF IsOwn(clip) /\ clip \notin clipboard
  THEN {Clip(clip.own, got) : got \in CutShort(clip.sel)}
  ELSE {clip}

(* selection_changed: a read under way is abandoned without an event,      *)
(* whichever clipboard it was of, and the new selection, if any, is read.  *)
OnSelection ==
  /\ wire # << >> /\ Head(wire).type = "selection"
  /\ \/ Head(wire).clips = {} /\ reading' = {}
     \/ \E clip \in Head(wire).clips : \E served \in Served(clip) : reading' = {served}
  /\ wire' = Tail(wire)
  /\ UNCHANGED <<clipboard, events, commands>>

(* source_cancelled: that of a source clippo no longer offers is ignored.  *)
OnCancelled ==
  /\ wire # << >>
  /\ \/ Head(wire).type = "cancelled" /\ Emit(SelectionLost)
     \/ Head(wire).type = "superseded" /\ UNCHANGED events
  /\ wire' = Tail(wire)
  /\ UNCHANGED <<clipboard, reading, commands>>

(* What reading a clip can yield: a droppable flavor may be lost, and the  *)
(* pipes may close early when the source has been replaced or is clippo,   *)
(* which gives up on a paste when it has too many to write.                *)
Reads(clip) ==
  LET whole == clip.sel
      cut   == IF IsOwn(clip) \/ clip \notin clipboard THEN CutShort(whole) ELSE {}
      lossy == {i \in DOMAIN whole.flavors : whole.flavors[i].data \in Droppable}
  IN  cut \cup {[whole EXCEPT !.flavors = Restrict(@, DOMAIN @ \ lost)] : lost \in SUBSET lossy}

(* emit_if_complete: every flavor has ended, failed or timed out.          *)
ReadDone ==
  \E clip \in reading : \E got \in Reads(clip) :
    /\ Emit(Captured(Clip(clip.own, got)))
    /\ reading' = {}
    /\ UNCHANGED <<clipboard, wire, commands>>

(* take_selection.  A cancellation still on its way is then that of a      *)
(* superseded source.                                                      *)
TakeSelection ==
  /\ commands # << >> /\ Len(wire) < WireBound
  /\ LET fs     == Head(commands)
         hinted == \E i \in DOMAIN fs : fs[i].mime = HintMime
         sel    == [flavors |-> fs, hinted |-> hinted]
         clip   == Clip(HashOf(sel), sel)
         late == [k \in DOMAIN wire |->
                    IF wire[k].type = "cancelled" THEN Superseded ELSE wire[k]]
     IN  /\ clipboard' = {clip}
         /\ wire' = Append(late, Selected({clip}))
  /\ commands' = Tail(commands)
  /\ UNCHANGED <<reading, events>>

WatcherStep == OnSelection \/ OnCancelled \/ ReadDone

-----------------------------------------------------------------------------
(* The daemon's ends of the two channels, and the watcher's start and end. *)

CanOffer == Len(commands) < CommandCap

Offer(fs) ==
  /\ CanOffer
  /\ commands' = Append(commands, fs)
  /\ UNCHANGED <<clipboard, wire, reading, events>>

IsNext(type) == events # << >> /\ Head(events).type = type

Receive ==
  /\ events' = Tail(events)
  /\ UNCHANGED <<clipboard, wire, reading, commands>>

(* Binding a device announces the selection that is already there.         *)
StartWatching ==
  /\ wire' = <<Selected(clipboard)>>
  /\ UNCHANGED <<clipboard, reading, events, commands>>

(* A clipboard clippo owns empties with the process.                       *)
WatcherDies ==
  /\ clipboard' = {c \in clipboard : ~IsOwn(c)}
  /\ wire' = << >> /\ reading' = {} /\ events' = << >> /\ commands' = << >>
=============================================================================
