------------------------------ MODULE Watcher ------------------------------
(***************************************************************************)
(* How the watcher thread reads a selection (clippo-wayland, watch.rs and  *)
(* flavor.rs): a pipe and a source in the event loop per flavor, one timer *)
(* for them all, and a bookkeeping that turns them back into one event.    *)
(*                                                                         *)
(* Every callback of the loop is one step.  The compositor and the source  *)
(* applications, which write a flavor chunk by chunk and may never close   *)
(* its pipe, are external.  An offer and its MIME types come right before  *)
(* the selection that names it, so a selection is announced with the       *)
(* flavors of it that are to be read.                                      *)
(***************************************************************************)
EXTENDS Naturals, Sequences, FiniteSets

CONSTANTS
  Mimes,        \* the flavors a selection can have; a mime names its slot
  Selections,   \* bound: how many selections are announced
  Chunks,       \* bound: the chunks a source writes of a flavor
  Cap,          \* max_flavor_bytes, in chunks
  Capacity,     \* channel_capacity
  Fallible      \* whether a pipe, a registration or a read may fail

ASSUME WatcherAssumption ==
  /\ IsFiniteSet(Mimes)
  /\ Selections \in Nat /\ Chunks \in Nat /\ Cap \in Nat
  /\ Capacity \in Nat \ {0}
  /\ Fallible \in BOOLEAN

VARIABLES
  generation,
  pending,        \* generation of the pending selection, 0 if there is none
  slots,          \* its slots, by mime
  open,           \* how many of them are still being read
  read_tokens,    \* those whose source the selection has in the loop
  timeout_token,  \* whether it has a timer in the loop
  reads,          \* the sources in the loop: generation and mime
  timers,         \* the timers in the loop, by generation
  events,         \* the channel to the daemon
  written,        \* how far each source has written each flavor
  closed          \* the pipes whose source closed its end

pendingVars == <<pending, slots, open, read_tokens, timeout_token>>
loopVars == <<reads, timers>>
sourceVars == <<written, closed>>
vars == <<generation, pendingVars, loopVars, events, sourceVars>>

Generations == 1 .. Selections
Pipes == Generations \X Mimes

(* What is written into a pipe.                                            *)
Content(pipe) == [k \in 1 .. written[pipe] |-> <<pipe, k>>]

Reading(data) == [state |-> "reading", data |-> data]
Done(data)    == [state |-> "done", data |-> data]
Dropped       == [state |-> "dropped", data |-> << >>]

Captured(selection, content) == [of |-> selection, slots |-> content]

Flavor == [state : {"reading", "done", "dropped"}, data : Seq(Pipes \X Nat)]

AreSlots(content) == DOMAIN content \subseteq Mimes /\ content \in [DOMAIN content -> Flavor]

TypeOK ==
  /\ generation \in 0 .. Selections /\ pending \in 0 .. generation
  /\ AreSlots(slots)
  /\ open \in Nat
  /\ read_tokens \subseteq DOMAIN slots /\ timeout_token \in BOOLEAN
  /\ reads \subseteq Pipes /\ timers \subseteq Generations
  /\ \A k \in DOMAIN events : events[k].of \in Generations /\ AreSlots(events[k].slots)
  /\ DOMAIN events = 1 .. Len(events) /\ Len(events) <= Capacity
  /\ written \in [Pipes -> 0 .. Chunks] /\ closed \subseteq Pipes

NothingPending ==
  /\ pending' = 0 /\ slots' = << >> /\ open' = 0
  /\ read_tokens' = {} /\ timeout_token' = FALSE

Init ==
  /\ generation = 0
  /\ pending = 0 /\ slots = << >> /\ open = 0 /\ read_tokens = {} /\ timeout_token = FALSE
  /\ reads = {} /\ timers = {} /\ events = << >>
  /\ written = [p \in Pipes |-> 0] /\ closed = {}

-----------------------------------------------------------------------------
(* Mutant: only the reads are taken out of the loop.                       *)
ReadsAlone ==
  [reads |-> reads \ {<<pending, m>> : m \in read_tokens}, timers |-> timers]

(* clear_sources: what is in the loop once those of the pending selection  *)
(* are out of it.                                                          *)
Cleared ==
  [reads  |-> reads \ {<<pending, m>> : m \in read_tokens},
   timers |-> timers \ {g \in {pending} : timeout_token}]

(* emit: an event that does not fit is lost.                               *)
Emit(event) == events' = IF Len(events) < Capacity THEN Append(events, event) ELSE events

IsOpen(content, m) == content[m].state = "reading"

-----------------------------------------------------------------------------
(* start_reads: each flavor wanted gets a pipe, or is dropped when that    *)
(* fails; a timer is armed unless nothing is left to wait for, and then    *)
(* the selection is emitted at once.                                       *)
StartReads(wanted, failed, armed) ==
  LET new     == generation + 1
      content == [m \in wanted |-> IF m \in failed THEN Dropped ELSE Reading(<< >>)]
      begun   == wanted \ failed
  IN  /\ generation' = new
      /\ reads' = Cleared.reads \cup {<<new, m>> : m \in begun}
      /\ IF begun = {}
         THEN NothingPending /\ timers' = Cleared.timers /\ Emit(Captured(new, content))
         ELSE /\ pending' = new /\ slots' = content /\ open' = Cardinality(begun)
              /\ read_tokens' = begun /\ timeout_token' = armed
              /\ timers' = Cleared.timers \cup {g \in {new} : armed}
              /\ UNCHANGED events

(* selection_changed, of a clipboard that is watched: a selection that is  *)
(* still being read is abandoned.  One of the primary selection, when it   *)
(* is not watched, touches nothing here.                                   *)
SelectionChanged ==
  /\ generation < Selections
  /\ \E wanted \in SUBSET Mimes :
       \E failed \in IF Fallible THEN SUBSET wanted ELSE {{}} :
         \E armed \in IF Fallible THEN BOOLEAN ELSE {TRUE} : StartReads(wanted, failed, armed)
  /\ UNCHANGED sourceVars

(* selection_changed without an offer.                                     *)
SelectionCleared ==
  /\ reads' = Cleared.reads /\ timers' = Cleared.timers
  /\ NothingPending
  /\ UNCHANGED <<generation, events, sourceVars>>

-----------------------------------------------------------------------------
(* A flavor is resolved: its source leaves the loop with its callback, and *)
(* with the last of them the selection is emitted (emit_if_complete).      *)
Resolve(m, flavor) ==
  LET content == [slots EXCEPT ![m] = flavor]
  IN  IF open = 1
      THEN /\ Emit(Captured(pending, content))
           /\ reads' = Cleared.reads \ {<<pending, m>>} /\ timers' = Cleared.timers
           /\ NothingPending
      ELSE /\ slots' = content /\ open' = open - 1
           /\ read_tokens' = read_tokens \ {m}
           /\ reads' = reads \ {<<pending, m>>}
           /\ UNCHANGED <<pending, timeout_token, timers, events>>

(* Mutant: an empty pipe is taken for its end.                             *)
ReadUntilEmpty(m) ==
  LET pipe == <<pending, m>>
      data == slots[m].data \o SubSeq(Content(pipe), Len(slots[m].data) + 1, written[pipe])
  IN  Resolve(m, IF Len(data) > Cap THEN Dropped ELSE Done(data))

(* read_flavor: what the pipe holds is read until it is empty, at its end, *)
(* broken, or more than the cap.                                           *)
ReadFlavor(m) ==
  LET pipe == <<pending, m>>
      data == slots[m].data \o SubSeq(Content(pipe), Len(slots[m].data) + 1, written[pipe])
  IN  \/ Len(data) > Cap /\ Resolve(m, Dropped)
      \/ /\ Len(data) <= Cap /\ pipe \in closed
         /\ Resolve(m, Done(data))
      \/ /\ Len(data) <= Cap /\ pipe \notin closed
         /\ slots' = [slots EXCEPT ![m] = Reading(data)]
         /\ UNCHANGED <<pending, open, read_tokens, timeout_token, loopVars, events>>
      \/ Fallible /\ Resolve(m, Dropped)

Readable(pipe) ==
  \/ pipe \in closed \/ Fallible
  \/ pending = pipe[1] /\ written[pipe] > Len(slots[pipe[2]].data)

(* on_flavor_readable, of a source in the loop.  One of an older selection *)
(* is only removed: what is pending is never complete (PendingIsOpen), so  *)
(* there is nothing to emit.                                               *)
OnFlavorReadable(pipe) ==
  /\ pipe \in reads
  /\ Readable(pipe)
  /\ IF pending = pipe[1]
     THEN ReadFlavor(pipe[2])
     ELSE reads' = reads \ {pipe} /\ UNCHANGED <<pendingVars, timers, events>>
  /\ UNCHANGED <<generation, sourceVars>>

(* Mutant: the stragglers are dropped and nothing is emitted.              *)
TimeoutWithoutEmit(g) ==
  /\ g \in timers /\ pending = g
  /\ timers' = timers \ {g}
  /\ slots' = [m \in DOMAIN slots |-> IF IsOpen(slots, m) THEN Dropped ELSE slots[m]]
  /\ open' = 0 /\ read_tokens' = {} /\ timeout_token' = FALSE
  /\ reads' = Cleared.reads
  /\ UNCHANGED <<generation, pending, events, sourceVars>>

(* Mutant: the selection is emitted and left pending.                      *)
TimeoutKeepsPending(g) ==
  /\ g \in timers /\ pending = g
  /\ Emit(Captured(g, [m \in DOMAIN slots |-> IF IsOpen(slots, m) THEN Dropped ELSE slots[m]]))
  /\ UNCHANGED <<generation, pendingVars, loopVars, sourceVars>>

(* on_read_timeout: the flavors still open are dropped as stalled and the  *)
(* rest is emitted.                                                        *)
OnReadTimeout(g) ==
  /\ g \in timers
  /\ timers' = timers \ {g}
  /\ IF pending = g
     THEN /\ Emit(Captured(g, [m \in DOMAIN slots |-> IF IsOpen(slots, m) THEN Dropped ELSE slots[m]]))
          /\ reads' = Cleared.reads
          /\ NothingPending
     ELSE UNCHANGED <<pendingVars, reads, events>>
  /\ UNCHANGED <<generation, sourceVars>>

-----------------------------------------------------------------------------
(* The source applications and the daemon.                                 *)

SourceWrites(pipe) ==
  /\ pipe \in reads \ closed
  /\ written[pipe] < Chunks
  /\ written' = [written EXCEPT ![pipe] = @ + 1]
  /\ UNCHANGED <<generation, pendingVars, loopVars, events, closed>>

SourceCloses(pipe) ==
  /\ pipe \in reads \ closed
  /\ closed' = closed \cup {pipe}
  /\ UNCHANGED <<generation, pendingVars, loopVars, events, written>>

DaemonReceives ==
  /\ events # << >>
  /\ events' = Tail(events)
  /\ UNCHANGED <<generation, pendingVars, loopVars, sourceVars>>

Next ==
  \/ SelectionChanged \/ SelectionCleared \/ DaemonReceives
  \/ \E p \in Pipes : OnFlavorReadable(p) \/ SourceWrites(p) \/ SourceCloses(p)
  \/ \E g \in Generations : OnReadTimeout(g)

Spec == Init /\ [][Next]_vars

(* The loop dispatches what is readable and what has expired until it is   *)
(* stopped.                                                                *)
FairSpec ==
  /\ Spec
  /\ \A p \in Pipes : WF_vars(OnFlavorReadable(p))
  /\ \A g \in Generations : WF_vars(OnReadTimeout(g))

-----------------------------------------------------------------------------
(* Nothing of an abandoned or emitted selection is left in the loop: what  *)
(* is there is the pending selection's, and a callback that fires is never *)
(* of an older one (clear_sources).                                        *)
NothingStale ==
  /\ reads = {<<pending, m>> : m \in read_tokens}
  /\ timers = {g \in {pending} : timeout_token}
  /\ pending = 0 => read_tokens = {} /\ ~timeout_token

(* A selection is pending just as long as something of it is left to read, *)
(* and each flavor left to read has its source in the loop: the counter,   *)
(* the slots and the tokens agree.                                         *)
PendingIsOpen ==
  /\ read_tokens = {m \in DOMAIN slots : IsOpen(slots, m)}
  /\ open = Cardinality(read_tokens)
  /\ pending # 0 <=> open > 0

LoopIsPending == NothingStale /\ PendingIsOpen

(* A flavor of this selection that was read to its end.                    *)
IsWhole(flavor, pipe) ==
  pipe \in closed /\ flavor.data = Content(pipe) /\ Len(flavor.data) <= Cap

(* No half flavor and no half selection reaches the daemon: in an event    *)
(* every flavor is either dropped or all that its own source wrote.        *)
WholeOrDropped ==
  /\ \A k \in DOMAIN events : \A m \in DOMAIN events[k].slots :
       LET flavor == events[k].slots[m]
       IN  \/ flavor.state = "done" /\ IsWhole(flavor, <<events[k].of, m>>)
          \/ flavor = Dropped
  /\ \A m \in DOMAIN slots : slots[m].state = "done" => IsWhole(slots[m], <<pending, m>>)

(* The daemon hears of a selection once, and of the newer one last.        *)
OneEventEachInOrder ==
  /\ \A j, k \in DOMAIN events : j < k => events[j].of < events[k].of
  /\ \A k \in DOMAIN events : events[k].of <= generation
  /\ pending # 0 => pending = generation /\ \A k \in DOMAIN events : events[k].of < pending

(* What clippod may rely on.                                               *)
Promise == INSTANCE Capture WITH
  last <- generation, reading <- pending, told <- [k \in DOMAIN events |-> events[k].of]

(* The slots, timers and retries of the watcher keep that promise.         *)
KeepsPromise == Promise!CaptureSpec

(* A source that never closes its pipe does not hold up the selection for  *)
(* good, when its timer could be armed.                                    *)
TimersSuffice == \A g \in Generations : pending = g /\ timeout_token ~> pending # g

(* A selection whose sources closed their pipes is emitted even if its     *)
(* timer could not be armed.                                               *)
ClosedPipesSuffice ==
  \A g \in Generations :
    pending = g /\ (\A m \in DOMAIN slots : <<g, m>> \in closed) ~> pending # g

(* No selection is pending for ever for want of one of the two.            *)
EveryReadEnds == TimersSuffice /\ ClosedPipesSuffice
=============================================================================
