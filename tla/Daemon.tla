------------------------------- MODULE Daemon -------------------------------
(***************************************************************************)
(* clippod: the D-Bus methods, the capture task, the self-echo guard, the  *)
(* preview cache, the pause flag and the HistoryChanged signal, over the   *)
(* history and the clipboard, from start to crash to restart.              *)
(*                                                                         *)
(* The lock makes a method, or the capture task's use of an entry, one     *)
(* step.  What is not under it is a step of its own: the capture task      *)
(* reads the clock before it has the lock, and a change is announced after *)
(* the lock is gone.                                                       *)
(***************************************************************************)
EXTENDS History, Clipboard

CONSTANTS
  Frontends,    \* whether a frontend is there to be told of changes; without
                \* one an announcement is a delay of its task and is left out
  Calls,        \* bound: the D-Bus calls that can be in progress at once
  PinArgs       \* bound: the arguments Pin is called with

Capturer == "capture"     \* the task that drains the watcher's events
Main     == "main"        \* the task that starts the daemon
Tasks    == Calls \cup {Capturer, Main}

ASSUME DaemonAssumption == Frontends \in BOOLEAN /\ PinArgs \subseteq BOOLEAN

VARIABLES
  phase,        \* how far main's run has come, or "down"
  cache,        \* State::cache, the rows List and Search answer from
  armed,        \* EchoGuard::armed, NoHash when there is none
  paused,
  taken,        \* the copy the capture task holds before it has the lock
  announcing,   \* tasks that committed a change and have yet to signal it
  signalled,    \* HistoryChanged has been sent and a frontend not yet reacted
  stale,        \* the frontend's list is not the cache's
  wanted        \* hash of the last copy an application made, while it is one
                \* clippo ought to keep: none or one, kept to state properties

daemonVars == <<phase, cache, armed, paused, taken, announcing, signalled, stale, wanted>>
allVars == <<vars, clipboardVars, daemonVars>>

NoHash == << >>
Phases == {"down", "serving", "swept", "up"}

DaemonTypeOK ==
  /\ TypeOK /\ ClipboardTypeOK
  /\ phase \in Phases
  /\ IsPartial(cache, EntryIds, Row)
  /\ armed \in Hashes \cup {NoHash}
  /\ {paused, signalled, stale} \subseteq BOOLEAN
  /\ Cardinality(taken) <= 1
  /\ announcing \subseteq Tasks
  /\ wanted \subseteq Hashes

DaemonInit ==
  /\ Init /\ ClipboardInit
  /\ phase = "down" /\ cache = << >> /\ armed = NoHash /\ paused = FALSE
  /\ taken = {} /\ announcing = {} /\ signalled = FALSE /\ stale = FALSE /\ wanted = {}

-----------------------------------------------------------------------------
(* The store is not called.                                                *)
NoStore == UNCHANGED <<entries, flavors>> /\ answered' = 0

(* reload, under the lock.                                                 *)
Reload ==
  /\ cache' = entries'
  /\ stale' = (stale \/ (Frontends /\ cache' # cache))

(* Mutant: a change nobody is told of.                                     *)
CommitQuietly(task) == Reload /\ UNCHANGED announcing

(* commit: reload, release the lock, and only then announce.               *)
Commit(task) ==
  /\ Reload
  /\ announcing' = announcing \cup {t \in {task} : Frontends}

(* A copy stops being one to keep when its row is removed.                 *)
Forget == wanted' = wanted \ {entries[i].hash : i \in DOMAIN entries \ DOMAIN entries'}

(* history_changed: emission, outside the lock.                            *)
Announce(task) ==
  /\ task \in announcing
  /\ announcing' = announcing \ {task}
  /\ signalled' = TRUE
  /\ NoStore /\ UNCHANGED <<clipboardVars, phase, cache, armed, paused, taken, stale, wanted>>

(* A frontend answers the signal with List, which reads the cache.         *)
List ==
  /\ phase # "down" /\ signalled
  /\ signalled' = FALSE /\ stale' = FALSE
  /\ NoStore /\ UNCHANGED <<clipboardVars, phase, cache, armed, paused, taken, announcing, wanted>>

-----------------------------------------------------------------------------
(* The capture task.                                                       *)

CapturerIsFree == phase = "up" /\ taken = {} /\ Capturer \notin announcing

(* capture: the time is read, the entry built, the lock not yet held.  A   *)
(* selection nothing could be stored of ends here.                         *)
Capture ==
  /\ CapturerIsFree /\ IsNext("captured") /\ Receive
  /\ \E at \in Stamps :
       /\ ClockReads(at)
       /\ LET clip == Head(events).clip
          IN  taken' = {[own |-> clip.own, new |-> new] : new \in NewEntries(clip.sel, at)}
  /\ NoStore /\ UNCHANGED <<phase, cache, armed, paused, announcing, signalled, stale, wanted>>

(* is_echo spends the guard whether it matches or not, before the pause    *)
(* is looked at.                                                           *)
IsEcho(new) == armed = new.hash

IgnoreCopy ==
  \E copy \in taken :
    /\ IsEcho(copy.new) \/ paused
    /\ armed' = NoHash /\ taken' = {}
    /\ NoStore /\ UNCHANGED <<clipboardVars, phase, cache, paused, announcing, signalled, stale, wanted>>

RecordCopy ==
  \E copy \in taken :
    /\ ~IsEcho(copy.new) /\ ~paused
    /\ armed' = NoHash /\ taken' = {}
    /\ Insert(copy.new)
    /\ IF answered' = 0 THEN UNCHANGED <<cache, stale, announcing>> ELSE Commit(Capturer)
    /\ wanted' = IF IsOwn(copy) THEN wanted ELSE wanted \ {copy.new.hash}
    /\ UNCHANGED <<clipboardVars, phase, paused, signalled>>

(* Mutant: losing the clipboard leaves the guard armed.                    *)
LoseKeepingGuard ==
  /\ CapturerIsFree /\ IsNext("lost") /\ Receive
  /\ NoStore /\ UNCHANGED <<phase, cache, armed, paused, taken, announcing, signalled, stale, wanted>>

(* selection_lost.                                                         *)
LoseSelection ==
  /\ CapturerIsFree /\ IsNext("lost") /\ Receive
  /\ armed' = NoHash
  /\ NoStore /\ UNCHANGED <<phase, cache, paused, taken, announcing, signalled, stale, wanted>>

-----------------------------------------------------------------------------
(* The D-Bus methods that change something.                                *)

CanCall(call) == phase # "down" /\ call \notin announcing

(* copy_at: arm, offer, touch, under one lock.                             *)
Copy(call, id, at) ==
  /\ CanCall(call) /\ phase = "up" /\ Touch(id, at)
  /\ armed' = entries[id].hash
  /\ Offer(Offerable(flavors[id]))
  /\ Commit(call)
  /\ UNCHANGED <<phase, paused, taken, signalled, wanted>>

(* Mutant: a refused offer leaves the guard armed.                         *)
CopyRefusedArmed(call, id) ==
  /\ CanCall(call) /\ phase = "up" /\ id \in DOMAIN entries /\ ~CanOffer
  /\ armed' = entries[id].hash
  /\ NoStore /\ UNCHANGED <<clipboardVars, phase, cache, paused, taken, announcing, signalled, stale, wanted>>

(* The watcher's command channel is full: the guard is disarmed.           *)
CopyRefused(call, id) ==
  /\ CanCall(call) /\ phase = "up" /\ id \in DOMAIN entries /\ ~CanOffer
  /\ armed' = NoHash
  /\ NoStore /\ UNCHANGED <<clipboardVars, phase, cache, paused, taken, announcing, signalled, stale, wanted>>

(* delete, pin and clear, which announce only what changed something.      *)
Mutate(call) ==
  /\ CanCall(call)
  /\ \/ \E id \in EntryIds : Delete(id)
     \/ \E id \in EntryIds, pinned \in PinArgs : SetPinned(id, pinned)
     \/ \E includePinned \in BOOLEAN : Clear(includePinned) /\ entries' # entries
  /\ Commit(call)
  /\ Forget
  /\ UNCHANGED <<clipboardVars, phase, armed, paused, taken, signalled>>

SetPaused(to) ==
  /\ phase # "down" /\ paused # to
  /\ paused' = to
  /\ wanted' = {}
  /\ NoStore /\ UNCHANGED <<clipboardVars, phase, cache, armed, taken, announcing, signalled, stale>>

-----------------------------------------------------------------------------
(* main's run: load the cache, serve, sweep, announce, watch.              *)

Start ==
  /\ phase = "down" /\ phase' = "serving"
  /\ cache' = entries /\ stale' = Frontends /\ signalled' = Frontends
  /\ NoStore /\ UNCHANGED <<clipboardVars, armed, paused, taken, announcing, wanted>>

(* Mutant: what the sweep removed stays in the cache that was loaded.      *)
SweepQuietly(at) ==
  /\ phase = "serving" /\ phase' = "swept"
  /\ EnforceRetention(at)
  /\ UNCHANGED <<clipboardVars, cache, armed, paused, taken, announcing, signalled, stale, wanted>>

(* The sweep, while calls are served already, told of if it removed any.   *)
SweepRetention(at) ==
  /\ phase = "serving" /\ phase' = "swept"
  /\ EnforceRetention(at)
  /\ IF entries' = entries THEN UNCHANGED <<cache, stale, announcing>> ELSE Commit(Main)
  /\ UNCHANGED <<clipboardVars, armed, paused, taken, signalled, wanted>>

Watch ==
  /\ phase = "swept" /\ Main \notin announcing /\ phase' = "up"
  /\ StartWatching
  /\ NoStore /\ UNCHANGED <<cache, armed, paused, taken, announcing, signalled, stale, wanted>>

(* Everything but the database dies with the process.                      *)
Die ==
  /\ phase # "down" /\ phase' = "down"
  /\ WatcherDies
  /\ cache' = << >> /\ armed' = NoHash /\ paused' = FALSE /\ taken' = {} /\ announcing' = {}
  /\ signalled' = FALSE /\ stale' = FALSE /\ wanted' = {}

Crash == Die /\ NoStore

(* A sweep that fails half way ends the run.                               *)
SweepFails(at) == phase = "serving" /\ EnforceRetentionFails(at) /\ Die

-----------------------------------------------------------------------------
(* The clipboard's steps.                                                  *)

(* An application copies sel; the copy is one to keep when clippo watches, *)
(* is not paused, and would store it.                                      *)
AppCopies(sel) ==
  /\ OthersTake({Clip({}, sel)}, phase = "up")
  /\ wanted' = {new.hash : new \in {n \in NewEntries(sel, 0) :
                  phase = "up" /\ ~paused /\ ~IsRefused(n.kind, n.flavors)}}
  /\ NoStore /\ UNCHANGED <<phase, cache, armed, paused, taken, announcing, signalled, stale>>

AppClears ==
  /\ clipboard # {} /\ OthersTake({}, phase = "up")
  /\ wanted' = {}
  /\ NoStore /\ UNCHANGED <<phase, cache, armed, paused, taken, announcing, signalled, stale>>

AppSelects(clips) ==
  /\ phase = "up" /\ PrimaryChanges(clips)
  /\ NoStore /\ UNCHANGED daemonVars

Watcher ==
  /\ WatcherStep
  /\ NoStore /\ UNCHANGED daemonVars

(* clippo takes the clipboard: whatever was being read is superseded.      *)
TakeClipboard ==
  /\ TakeSelection
  /\ wanted' = {}
  /\ NoStore /\ UNCHANGED <<phase, cache, armed, paused, taken, announcing, signalled, stale>>

-----------------------------------------------------------------------------
DaemonNext ==
  \/ \E sel \in Captures : AppCopies(sel) \/ AppSelects({Clip({}, sel)})
  \/ AppClears \/ AppSelects({})
  \/ Watcher \/ TakeClipboard
  \/ Capture \/ IgnoreCopy \/ RecordCopy \/ LoseSelection
  \/ \E call \in Calls :
       \/ \E id \in EntryIds, at \in Stamps : ClockReads(at) /\ Copy(call, id, at)
       \/ \E id \in EntryIds : CopyRefused(call, id)
       \/ Mutate(call)
  \/ \E to \in BOOLEAN : SetPaused(to)
  \/ \E task \in Tasks : Announce(task)
  \/ List
  \/ Start \/ Watch \/ Crash
  \/ \E at \in Stamps : ClockReads(at) /\ (SweepRetention(at) \/ SweepFails(at))

DaemonSpec == DaemonInit /\ [][DaemonNext]_allVars

(* The watcher's loop never blocks and gives up on a read that stalls; the *)
(* capture task and an announcement are tasks of a runtime that runs every *)
(* ready task; a frontend that is told of a change asks for the list.  The *)
(* daemon is not promised to stay up, nor a user to do anything.           *)
Fairness ==
  /\ WF_allVars(Watcher) /\ WF_allVars(TakeClipboard)
  /\ WF_allVars(Capture) /\ WF_allVars(IgnoreCopy \/ RecordCopy) /\ WF_allVars(LoseSelection)
  /\ \A task \in Tasks : WF_allVars(Announce(task))
  /\ WF_allVars(List)

FairDaemonSpec == DaemonSpec /\ Fairness

-----------------------------------------------------------------------------
(* Properties.                                                             *)

(* The clips that have yet to reach the end of the capture task.           *)
Travelling ==
  (UNION {wire[k].clips : k \in {n \in DOMAIN wire : wire[n].type = "selection"}})
    \cup reading
    \cup {events[k].clip : k \in {n \in DOMAIN events : events[n].type = "captured"}}
    \cup {Clip(copy.own, [flavors |-> copy.new.flavors, hinted |-> FALSE]) : copy \in taken}

CopyBackComes(h) == \E c \in Travelling : h \in c.own
AppCopyComes(h)  == \E c \in Travelling : ~IsOwn(c) /\ h \in HashOf(c.sel)

Offered(h) == \E k \in DOMAIN commands : h \in HashOf([flavors |-> commands[k], hinted |-> FALSE])

LossOnItsWay ==
  \/ \E k \in DOMAIN wire : wire[k].type = "cancelled"
  \/ \E k \in DOMAIN events : events[k].type = "lost"

(* List and Search answer from the history as it is: every path through a  *)
(* mutation, the evictions of an insert and the startup sweep included,    *)
(* reloads the cache before it lets go of the lock.                        *)
CacheIsHistory == phase # "down" => cache = entries

DaemonIsSound == DaemonTypeOK /\ CacheIsHistory

(* A frontend whose list is out of date has been told, or is about to be:  *)
(* no change is left unannounced, whoever made it and whatever overtook it *)
(* between the lock and the signal.                                        *)
StaleListIsAnnounced == stale => signalled \/ announcing # {}

(* "A guard armed for an echo that never arrived cannot outlive the        *)
(* copy-back it belongs to and swallow a real copy later"                  *)
(* (clippo-wayland/src/lib.rs): while the guard is armed, the copy-back it *)
(* is for, or the news that there will be none, is still to come.          *)
GuardAwaitsEcho ==
  armed # NoHash => Offered(armed) \/ CopyBackComes(armed) \/ LossOnItsWay

(* The last copy an application made while clippo watched, was not paused  *)
(* and could store it is in the history or still on its way there, itself  *)
(* or as a copy-back of the same content, until the clipboard is taken     *)
(* again or its row is removed: no guard and no interleaving of copy-backs *)
(* makes it vanish.                                                        *)
LastCopyIsKept == \A h \in wanted : HoldsHash(h) \/ AppCopyComes(h) \/ Offered(h)

(* A copy-back the guard did not catch "deduplicates onto that same entry   *)
(* ... No duplicate row, no loop" (clippod/src/echo.rs): one that came      *)
(* round whole never adds a row.                                            *)
CopyBackAddsNoRow ==
  [][\A copy \in taken :
       copy.own = {copy.new.hash} /\ taken' = {} => DOMAIN entries' \subseteq DOMAIN entries]_allVars

(* The guard cannot stay armed for ever, unless Copy is called for ever    *)
(* and each copy-back is superseded while it is read: it is spent, or      *)
(* cleared, or dies with the process.                                      *)
Copies == \E call \in Calls, id \in EntryIds, at \in Stamps : Copy(call, id, at)

GuardIsSpent == []<><<Copies>>_allVars \/ []<>(armed = NoHash)

(* A frontend's list catches up with every change.                         *)
FrontendsCatchUp == stale ~> ~stale
=============================================================================
