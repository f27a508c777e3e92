# clippo in TLA+

clippo is a clipboard history for Wayland desktops: a daemon (`clippod`) that
watches the clipboard, keeps an encrypted history and puts entries back on the
clipboard, a panel applet and a command line that talk to it over D-Bus.  This
directory holds TLA+ models of it, the TLC configurations that check them on
small instances, and theorems about them that TLAPS proves for every instance.
`PROJECT.json` is the index: components, runs, mutants, the map from every
definition to the lines it models, findings, hazards, theorems.

To repeat the checks: `tlc -config <run>.cfg <MC module>.tla` for a run (one row
of the table below), `tlapm <module>.tla` for the proofs of one of the eight `*Proofs` modules.

## The system

| Part | State it keeps | Operations | How it meets the others |
|---|---|---|---|
| Flavors and identity (`clippo-core/entry.rs`, `clippo-store/dedup.rs`, `images.rs`, `clippod/preview.rs`) | none | kind, canonical flavor, hash, what is storable, thumbnail, sensitivity, preview | used by the daemon to build an entry and by the store to write it |
| History store (`clippo-store`) | `entries`, `flavors` (SQLCipher) | insert with its retention sweep, touch, set_pinned, delete, clear, enforce_retention, list/get | called only by the daemon, under its lock |
| Daemon (`clippod/daemon.rs`, `main.rs`) | store, preview cache and echo guard under one lock; pause flag | capture, selection_lost; Copy, Paste, Delete, Pin, Clear, SetPaused, List, Search, Reveal, Thumbnail; startup | receives `WatchEvent`s on a channel, sends `Offer` on another, emits `HistoryChanged` |
| Watcher (`clippo-wayland`) | offers, the one pending read, the owned source, the pending paste writes | compositor events, pipes and timers in one calloop thread; `Offer` commands | two bounded channels (64 events, 16 commands), each filled with `try_send` |
| Compositor, applications | the selection and its owner | external | data-control events and pipes |
| Applet (`clippo-applet`) | UI thread: rows, selection by id, revealed value, thumbnails, status; worker: trust in the name's owner | keys, answers; D-Bus calls one at a time | request queue (64, never waited for), event stream (32, waited for); `HistoryChanged`, `NameOwnerChanged` |
| Command line (`clippo-cli`) | none | list, search, show, copy, paste, rm, pin, clear, pause | one D-Bus call after another |
| Opening (`key.rs`, `schema.rs`, `paths.rs`, `main.rs`) | keyring item or `key` file, data directory, database file, bus name | acquire_in, prepare, open, check, ensure, acquire_name | each step of a start, on a disk it shares with the last run and maybe with another |
| Keystrokes (`clippo-wayland/keys.rs`) | requests queued, keys held in the compositor | send, under a lock | second half of Paste |
| Peer checks (`clippo-ipc/peer.rs`) | none | judge a bus peer by pid and executable | before privileged members, and by the applet |
| Rules (`secrets/*`, `masking.rs`, `display.rs`, `config.rs`, `chord.rs`, `ids.rs`, `Timestamp`) | none | detect, mask, flatten, check ranges, resolve references, subtract times | called by all of the above |

What is hard in it, in one paragraph: a `Copy` makes clippo the owner of the
clipboard, and what it puts there comes round again as a capture, which a guard
of one slot must recognise.  Between arming the guard and seeing the echo lie
a command channel, the compositor, the reading of every flavor through a pipe,
an event channel, and the capture task's wait for the lock; applications, other
`Copy` calls, deletes, the pause switch, crashes and a second selection can
take a turn at every one of these points.  Beside that: identity by hash across
lossy reads, masking that must survive any sequence of re-copies, retention
whose limits depend on pins and on a clock read outside the lock, and a cache
and its frontends that must follow every path to a change.

What makes each part correct:

- identity and description: the canonical flavor of what is stored is the one
  that was hashed; every flavor that could be pasted was scanned;
- store: one row per content; flavors belong to live rows; pins survive
  everything but being named; flags and masks are never lost; the limits hold
  after every insert;
- daemon: the cache is the history whenever the lock is free; every change is
  announced; the guard is armed only while its echo is to come, and never makes
  a copy vanish;
- watcher: a selection is emitted once and whole or not at all; parked pastes
  stay within their bound; no stale timer or pipe touches a newer read;
- applet: acts on the row the user sees; draws only current answers; asks again
  for what was dropped; comes to show the status the name's owner deserves;
- opening: the key that opened a database is the one the next start finds; one
  process serves; a start that stopped anywhere can be continued by the next;
- keystrokes: pressed only over the entry they are to paste, whole, and released;
- command line: `rm` deletes what its references meant, once, or nothing.

## The modules

    Flavors <- History <- Daemon -> Clipboard -> Flavors     MCHistory, MCDaemon
    HistoryProofs                                            of History
    HistoryProofs <- DaemonProofs                            of Daemon and Clipboard
    Watcher implements Capture;  Offers                      MCWatcher, WatcherProofs
    PasteWrites                                              MCPasteWrites, PasteProofs
    ListView <- Picker <- Applet -> Peers;  Rendering        MCApplet, AppletProofs
    Startup                                                  MCStartup, StartupProofs
    Ids <- Session -> VirtualKeyboard;  Settings             MCSession, SessionProofs
    Subsequence                                              of Picker, Applet, Ids and Session
    Detection, Rendering, Settings, Ids, Peers, Offers, Times, ListView       RulesProofs

**Flavors** has no state.  A MIME type is one of eleven tokens, chosen so that
every distinction the code makes has two tokens on each side of it (two spellings of
UTF-8 plain text, images of equal rank, the derived thumbnail, the hint).  A list
of flavors is a function from positions to `[mime, data]`, so leaving a flavor out is
`Restrict` and the order of the rest is untouched.  `Data` is opaque.  The
constants `OverCap`, `Undecodable` and `Secrets` say which contents are over
`max_image_bytes`, cannot be decoded, or make a detection rule fire.  BLAKE3
is taken to be injective: a hash is the pair `<<essence, data>>` that is hashed.

**History** is `clippo-store`: `entries` is the table (a function from id to row),
`flavors` the table that cascades from it.  One action per `Store` operation;
each is one step because each is one transaction or statement and the daemon
calls them under its lock.  `Insert` is `InsertRefused` (the canonical image is
over the cap), `InsertCreates` or `InsertBumps` (the `hash UNIQUE` violation), the
last two with the sweep of the same transaction.  `EnforceRetention` runs its two
DELETEs outside a transaction, so `EnforceRetentionFails` is the first without
the second.  `answered` is the id that `insert` returned, and 0 after
anything else.  Ids are SQLite rowids without AUTOINCREMENT: one more than the
largest, so that the id of a deleted newest row comes back.  A clock reading is a
parameter of the operation, as in the code; `ClockSteps` says whether it may read
no later than a stored time.

**Clipboard** is the compositor's clipboard and the watcher.  A `clip` is a
selection, and in `own` the identity clippo offered it under if clippo is
its source; code never looks at `own`, properties do.  `wire` holds the events the
compositor has sent and the watcher has not dispatched, `reading` the pending
selection, `events` and `commands` the two channels.  `OnSelection` abandons a
read without an event, `ReadDone` emits what was read: whole, without some of the
flavors that may fail (`Droppable`), or cut short where the source may have closed
its pipe early (`Cut`).  A cancellation the compositor has sent and that the next
`TakeSelection` overtakes stays on the wire as `Superseded`: the watcher sees that
it is of a source it no longer has, and tells nobody.  `Emit` drops an event that does not fit; with `Lossy`
FALSE the channel is never found full.

**Daemon** extends both and adds `clippod`.  A D-Bus method is one step,
because it holds the lock throughout; `Capture` (time and entry, before the lock)
and `IgnoreCopy`/`RecordCopy` (under it) are two; `Announce` is its own step
because the signal is sent after the lock is released.  `phase` is how far
`main` has come: serving calls, swept, watching.  `Crash`
may happen at any time, and keeps only the database and the
applications' clipboard.  `wanted` is a history variable: the hash of the last
copy an application made, while clippo watches, is not paused and would store it.

**Watcher** is one read of the watcher thread at a time, in full: where Clipboard
has one `reading`, it has a slot, a pipe and an event-loop source per flavor
(`reads`), one timer (`timers`), and the fields of `Pending` and
`PendingSelection` that turn them back into one event.  A callback of the loop is a
step, because calloop runs them one after the other in one thread.  What a source
writes is a sequence of chunks, each known by its pipe and its place, so that a
mixed-up or truncated flavor shows; `max_flavor_bytes` is a number of chunks.  A
selection is announced with the flavors of it that are to be read.  `Fallible`
lets a pipe, its registration, the timer's, or a read fail.  The event carries
the selection's `generation`, which the code drops, to tell events apart.

**Capture** is what clippod may rely on: each selection is told of at most once and
in order, one that was replaced is not told of at all, and one that does not fit in
the channel is lost.  Watcher implements it with `last <- generation`,
`reading <- pending` and `told` the selections of the events in the channel.

**PasteWrites** is the other half of the thread: pastes that applications ask
for.  A pipe holds `Room` chunks; `Pumped` is how far `BlobWriter::pump` gets
before it blocks.  `Park` is the end of `begin_write`: the oldest are evicted
(`Popped` is the number of ids `make_room_for_a_write` takes off the queue,
ids without a write included), an id is spent, and the pipe and its timer
are registered or refused.  `ForgetWrite` is `forget_write` with the removal
from the map that precedes each of its calls.

**Picker** is the UI thread of the applet: the model (query, rows, selection by id,
revealed value, status, where a fresh ranking lands), the popup, the cache of thumbnails
with what was asked for, and one action per message.  The request queue
is filled with `try_send`, so each action that asks for something has the case where the
queue is full; `missed` is a history variable that says the last refresh was dropped.
A row is an id with the time of capture, as in `EntryKey`, because ids are given
out again; the time also stands for the entry's value and picture.  **Applet** adds the
bus worker, one stage per await of `bus.rs`, with the signals it has not read, the owner of the
name (a clippod, its successor, an impostor, nobody) and a history that other clients
change.  When its event channel is full the worker stands waiting with the
event in its hand.  **ListView** is the arithmetic of `view.rs` and of scrolling, **Peers** the decision of
`peer.rs`, with what /proc and the bus answer as inputs.

**Startup** is a start of `clippod` in sixteen steps, each a `place` of a process: read the
key file, search the Secret Service, mint and store or fall back, create and then write
the file, prepare the directory, open, narrow, check the key, check the version, create the
tables, load, take the name, sweep.  `Stop` ends a process before any step, which is
both a crash and every error the steps return.  Several processes share the disk, the
Secret Service and the name.

**VirtualKeyboard** is `keys.rs`: a lock, a queue of requests, flushes that write all or part of
it, a compositor that handles what was written in its own time, and a sender that fails
anywhere in its script.  **Session** is the command line against `clippod` and, for Paste, on to
those keys: a process per command, one call a step, with applications that copy, evictions,
`clippod` stopping and starting, and `Paste`'s wait of 120 ms between the copy and the keys
(`Settle`).  **Ids** says which entry a typed reference names.

**Settings**, **Detection**, **Rendering**, **Offers** and **Times** have no state.  They are the
ranges and defaults of a configuration, which rule flags a copy, what masking and one-line previews
write, which MIME types of an offer are remembered and read, and saturating time.

**Subsequence** is `Iterator::filter` and `Vec::retain` by the places they keep.  `SelectSeq` would do for TLC,
but it is defined by recursion, about which nothing can be proved (see below); the modules that filter a list and have
theorems use `Keep`, of which `FilterKeepsPlaces` says all that the proofs need.  `MCInit` in MCSession hands each *pair* of commands
to the two processes once: they are alike, so the other way round adds nothing.

**MCHistory**, **MCDaemon**, **MCWatcher**, **MCPasteWrites**, **MCApplet**, **MCStartup** and
**MCSession** give values to constants.  Three of them also hold `ASSUME`s that check pure operators on
every small input: `RowsAreSafe` and `RevealIsBounded` (MCApplet: one-line previews and revealed values
stay within their bounds and hold nothing unprintable), `CeilingCostsNothing` (MCWatcher: the ceiling on
advertised types costs no flavor that is read) and `EachIsNamedOnce` (MCSession: `resolve_all`).  The operators
marked "Mutant" are altered forms of the definition that follows them; each
property is shown to fail when one of them replaces its original.

## The runs

| Run | What it checks | Result |
|---|---|---|
| `history` | all of History over six kinds of copy, two unpinned entries, a clock of five ticks that only goes forward: identity, masks, pins, eviction order, limits, and that an insert answers with a row that is there | holds |
| `daemon` | the guard and the last copy, two contents, one entry kept, in every interleaving with crashes | holds |
| `daemon_front` | the cache and its announcements: two concurrent calls, pins, primary selection, a full event channel, crashes, and a startup sweep that evicts what has expired, or fails half way | holds |
| `daemon_live` | with fairness: frontends catch up, and the guard is always spent, with a full event channel | holds |
| `daemon_echo` | a copy-back read whole never adds a row | violated |
| `paste_writes` | three pastes, two parked at most, two blobs offered in turn, refused registrations, timers, readers that stall or leave; with fairness, every paste that has a timer ends | holds |
| `watcher` | stale callbacks, the counter, half flavors, the promise of Capture: two selections, two flavors, two chunks, cap 1, channel of one, everything that can fail; with fairness, every read ends that has a timer or whose pipes are closed | holds |
| `applet` | the highlight, the list, pictures, revealed values, trust and scrolling, over queues that fill and in every order of keys, answers, copies, deletions and owners of the name; with fairness, the status settles | holds |
| `applet_reveal` | a closed popup holds no revealed value | violated |
| `startup` | first and later runs, two at a time, stopped at every step, a Secret Service that comes and goes; with fairness, some clippod comes to serve | holds |
| `startup_race` | the key of the database is the one the next start finds, two first runs included | violated |
| `session` | two commands against one clippod, with copies, evictions, restarts, a broken keyboard; with fairness, every command ends | holds |

### What the violations say

- `daemon_echo`: one copy-back.  clippo takes the clipboard for a `Copy` and the watcher begins to
  read it back; an application takes the clipboard; the loss overtakes the end of the read, and clears
  the guard ("that echo is never coming", `echo.rs`); then the read ends, whole, and the echo comes.
  With the entry deleted before the capture task has the lock, it is recorded as a new row.
  `echo.rs` says "No duplicate row", which is so, and also that the copy-back "deduplicates onto that
  same entry", which is gone.
- `applet_reveal`: `model.rs` says a revealed value "is dropped when the row loses focus or
  the popup closes".  A `Reveal` that is answered after the popup closed is stored, kept
  while it is closed, and drawn when it opens again on the same row.
- `startup_race`: two first runs each search the keyring before either has stored a key;
  each mints one, the second replaces the first, and the database was created with the
  first.  `main.rs` calls a second `clippod` harmless before it sweeps; the bus name that would have stopped it is
  taken later.  `KeyIsFoundAlone` (checked and proved) says that this is the only way.

Other places where the code does something its comments do not say.  Each is one change
of a run away, and is written down here and not kept as a run:

- *An insert that answers with a row that is gone.*  The capture time is read before the lock, so a
  `Copy`, or a wall clock set back, can leave the stored row newer than the row
  being inserted, and at the limit the sweep evicts the row just written; the doc comment of
  `Insertion::id` says it "now holds this copy".  `history` with `ClockSteps = TRUE` and
  `MaxEntries = 1` violates `InsertAnswersWithHolder`.
- *A history over its limit.*  `retention.rs` says it never is.  Pin, copy, unpin, and it
  is, until the next insert or restart: `history` with the invariant
  `Cardinality(Unpinned(entries)) <= MaxEntries`.  `OnlyUnpinningOverfills` (checked and proved) says this is the only way.
- *A guard that is never spent, with `capture_primary`.*  A primary selection abandons the read of a
  copy-back, and is then cleared; nothing spends the guard while clippo keeps the
  clipboard.  `daemon_live` with `Primary = TRUE` violates `GuardIsSpent`.
- *A copy-back that loses its identity.*  When the canonical flavor of a picture with two flavors
  fails to be read back (`Droppable`), the capture has the hash of the other flavor, and the guard does not know
  it; when all fail, nothing spends the guard.  `GuardAwaitsEcho` is checked and proved where no flavor is dropped, and no run of
  Daemon drops one: what holds with dropped flavors (`DaemonIsSound`, `StaleListIsAnnounced`) is proved for them too.
- *A key held after a failed flush.*  `keys.rs` queues the releases; they reach the compositor with the next send that succeeds
  (`SentLeavesNothingHeld`), and until then the keys are down.
- *Without the keyboard's lock* two pastes' keys interleave: `KeyIsWhole` needs it.
- *120 ms.*  `Paste` waits that long after the copy for focus and for the watcher.  With `Punctual = FALSE`,
  a watcher that is later, `session` violates `PastesItsEntry`.
- *Ids given out again.*  A `Delete`, `Pin`, `Paste` or `Reveal` on its way, or an id in a list `rm` resolved,
  acts on the entry that has the id by then; `Chose` of a row that left the list pastes the highlighted one
  instead; a reference that was an exact id and is gone may resolve to a longer one.
- *A list that stays stale.*  A refresh dropped by a full queue is not asked again until the next change
  (`missed`); the same holds for a status when the name could not be watched (`watching`).  `clear` asks with a count of
  a list that may have changed.
- *Comments only.*  `app.rs` says `on_bus` refreshes pictures on every reply, and it returns early for `Revealed`
  and `Failed`; `view.rs`, that nothing has been sent to an untrusted peer, but a
  call may be under way when the owner changes; `service.rs`, that `paste` fails only where `Copy` does, but it is also
  refused to peers that are not privileged.

### Bounds, and why they are enough

- History: with `MaxEntries` 2 and four ids there are evictions with one survivor,
  pins outside the budget, and ids given out again.  The clock of five ticks
  with `MaxAge` 2 lets rows expire between any two operations.  The captures are
  one for each branch: plain, the same content hinted under the other spelling, a
  secret in the markup only, a repeated and an oversized flavor beside a good
  one, an oversized canonical flavor, and no kind at all.
- Daemon: two contents are what it takes to confuse one echo with another; three
  events on the wire hold a cancellation, its selection and one more; channels of
  one make "full" and "busy" reachable.  The code's 64 and 16 only put
  more steps between the same events.  `daemon_echo` has a command channel of four: in a smaller one the
  shortest way to such a row is another, that needs no application: as many `Copy` calls as fill the channel before the watcher takes one, and
  one more, which is refused and disarms the guard of those accepted before it (`daemon.rs:333-335`).
  `daemon_front` has two clock readings, further apart than `MaxAge`, and a clock that goes forward: what was copied or used at the
  first has expired at the second, so the sweep of a restart evicts it, or fails between its two DELETEs, while
  calls, pins and a listening frontend go on; after a reading
  of the second nothing is timed until that row is deleted.  One id is enough for that.  That an insert which evicts
  *another* row reloads the cache rests on the theorem `DaemonSound`.  Elsewhere
  one clock reading with `ClockSteps` TRUE makes every pair of stamps a tie, which
  the id breaks: list order is History's subject, not Daemon's.  `Captures` of
  single-flavor texts keep identity trivial where interleaving is the subject.  Of the
  runs' invariants every one is also proved for every bound.
- `DataSymmetry` is used only in `daemon`, which checks invariants: no
  definition tells the two contents apart, and `Captures` and `Cut` hold both.
- PasteWrites: a pipe of one chunk and blobs of three and one make pastes that are
  written at once and in several pushes; with two places a third paste evicts
  one, while `Sizes` offers two sources, so that parked pastes of a replaced source
  exist.  `Requests` bounds how many ids are ever given out.
- Watcher: two selections are what it takes for a callback of one to meet the
  other, and a channel of one is full after the first.  Two chunks over a cap of
  one are within, at and over it.  Two events in the channel at once, behind
  each other, are `InOrder`'s, which is proved for every capacity.
- Applet: three captures with two rows listed make a row that leaves the list by the limit and an id that is
  given out again; two lives of clippod make a successor of one that was asked; two unread changes of owner are
  what it takes for news of one to hide the other.  `Moves` bounds what users and desktop do: five hold opening,
  typing, a reveal or a deletion, closing and opening again.  Queues of one and two are full after a
  key or two, and a cache of one picture evicts.  The two heights of the list are below and above a tall row;
  its scale is 1, and every other one is the theorem's.
- Startup: two processes are all that a race for a key, a file or a name takes.  `Stops` is two, so that a run can stop, its
  successor stop elsewhere, and a third find what both left.  Of five keys, those of
  the file, the keyring, the database and the other process leave one that nobody holds, so a fresh key can always be made.
- Session: two commands, one copy by an application and one stop of the daemon between any two steps.
  `MaxEntries` 1 with a pinned row makes the copy evict the other row and take an id; the references include
  one that is a prefix of another id, one that repeats and one that names nothing until the copy.
- `CHECK_DEADLOCK FALSE` is said where the system may stop: the user and the desktop have done all that
  `Moves` allows, every process has exited and none needs starting, every command has ended.
- Deadlock is checked in all other runs.

### Fairness

`Fairness` is on the system's own steps: the watcher's loop (calloop never blocks,
and its timeout ends a read that stalls), the capture task and the announcements
(tasks of a tokio runtime that runs every ready task, and the lock is
fair), and a frontend that asks for the list when told of a change.  There is
none on applications, users, D-Bus callers, crashes or restarts.  Accordingly
`GuardIsSpent` allows for a user who calls `Copy` for ever, and a crash
satisfies it.

In PasteWrites only the timers are fair: a registered timer fires, since calloop
polls with the next deadline.  `EveryPasteEnds` therefore rests on nothing an
application does, and says nothing of a paste whose timer could not be armed: that
one is left to its reader, or to eviction.  In Watcher the timers and the readable
pipes are fair; the sources are not.

In Applet the UI's handling of events is fair, the worker's start (it awaits nothing that
does not answer), and its hearing of a change of owner: tokio picks among the ready arms of its
`select!` at random.  Users, desktops, clippod and impostors are not, nor is any single request.
`StatusSettles` is said of a worker that runs and watches the name; in a behaviour the desktop acts
finitely often, so "the last owner" is there.  In Startup every step of a process is fair, the start of one
included (`res/clippod.service` restarts it on failure; its limit of 20 starts in 300 seconds is
not modelled), and the Secret Service is not: `ServesAgain` asks for one that stays.  In Session the commands,
the watcher, the compositor and the restart are fair; users who are asked, and applications, are not.

## The proofs

`HistoryProofs` proves, for every set of contents and
captures, every limit and every clock (`history` has one that only goes forward):

| Theorem | Says of `Spec` |
|---|---|
| `TypeCorrect` | `[]TypeOK` |
| `IdentityIsStored` | `[]IdentityHolds` |
| `Masked` | `[]SecretsAreMasked` |
| `PinnedIsKept` | `PinnedLeavesOnlyByName` |
| `SensitiveIsKept` | `SensitiveStays` |
| `InsertsKeepLimits` | `[]InsertLeavesWithinLimits` |
| `OnlyUnpinning` | `OnlyUnpinningOverfills` |
| `InsertIsKept` | `[](~ClockSteps => InsertAnswersWithHolder)` |
| `OldestGoFirst` | `EvictsOldestFirst`, if `~ClockSteps` |

`DaemonProofs`, for every history, set of calls, wire and channels, and any of
the faults the constants allow:

| Theorem | Says of `DaemonSpec` |
|---|---|
| `DaemonSound` | `[]DaemonIsSound` |
| `DaemonKeepsStore` | `[](IdentityHolds /\ SecretsAreMasked)` |
| `StaleAnnounced` | `[]StaleListIsAnnounced` |
| `GuardIsAwaited` | `[](Faultless => GuardAwaitsEcho)` |
| `LastCopyKept` | `[](Faultless => LastCopyIsKept)` |

`PasteProofs`, for every set of pastes, list of blobs, pipe size and limit:

| Theorem | Says of `Spec` |
|---|---|
| `TypeCorrect` | `[]TypeOK` |
| `AlwaysAccounted` | `[]PastesAreAccounted` |
| `AlwaysTheBlobs` | `[]BytesAreTheBlobs` |
| `NoneIsDroppedEarly` | `EndsForAReason` |

`WatcherProofs`, for every finite set of flavors, cap and channel:

| Theorem | Says of `Spec` |
|---|---|
| `TypeCorrect` | `[]TypeOK` |
| `AlwaysPending` | `[]LoopIsPending` |
| `InOrder` | `[]OneEventEachInOrder` |
| `NoneIsTorn` | `[]WholeOrDropped` |
| `ImplementsCapture` | `KeepsPromise`, which is `Capture`'s specification |

`StartupProofs`, for every number of processes, keys and stops:

| Theorem | Says of `Spec` |
|---|---|
| `TypeCorrect` | `[]TypeOK` |
| `KeyAlwaysFoundAlone` | `[]KeyIsFoundAlone` |
| `AlwaysOneAtATime` | `[]OneAtATime` |
| `AlwaysVersioned` | `[]NeverUnversioned` |
| `AlwaysWrittenInPrivate` | `WrittenInPrivate` |

`AppletProofs`, for every queue, cache, history, list and number of owners of the name:

| Theorem | Says of `Spec` |
|---|---|
| `AppletIsTyped` | `[]AppletTypeOK` |
| `TrustAlwaysChecked` | `[]TrustIsChecked` |
| `HighlightIsAlwaysRight` | `[]HighlightIsRight` |
| `PictureIsAlwaysItsOwn` | `[]PictureIsItsOwn` |
| `PictureIsAlwaysOnItsWay` | `[]PictureIsOnItsWay` |
| `ListIsAlwaysCurrent` | `[]ListIsCurrent` |
| `DrawnIsAlwaysTheRows` | `[]DrawnIsTheRows` |
| `ScrollAlwaysShowsTheRow` | `ScrollShowsRow` |

and of the operators of Picker that a new list's highlight is on a row of it (`HighlightLands`) and
that the arrow keys stay on the list (`StepStaysOnTheList`).

`SessionProofs`, for every history, set of commands, shortcut and number of processes:

| Theorem | Says of `Spec` |
|---|---|
| `SessionSound` | `[]SessionIsSound` |
| `SentLeavesNothing` | `SentLeavesNothingHeld` |
| `RmDeletesWhatItWasTold` | `[]RmKeepsItsWord` |
| `PasteIsOfItsEntry` | `[]PastesItsEntry`, if `Punctual` |

`RulesProofs` proves twelve facts of the stateless modules:
`MaskIsBounded` and `MaskHidesTheMiddle` (masking), `LoadedIsInRange` and `SaidIsKept` (configuration),
`EveryFlavorIsSearched` (detection), `AnExactIdIsItself` and `EachIsNamedOnce` (references), `OnlyInstalledIsTrusted` (peers),
`InterestingIsRemembered` (offers), `NoneIsDroppedYoung` and `AgeIsNatural` (time) and
`ScrollShowsTheRow` (scrolling, at every scale and offset).

The assumptions are the named ones of the modules (`FlavorsAssumption`,
`HistoryAssumption`, `ClipboardAssumption`, `DaemonAssumption`, `PasteAssumption`, `WatcherAssumption`,
`StartupAssumption`, `PickerAssumption`, `AppletAssumption`, `SessionAssumption`); TLC evaluates each in a run.
They ask for no more than the code has: that queues have room for one at least (`RequestCap`, `EventCap`, `CommandCap`: tokio
panics on an empty channel), that there is at least one clippod (`Lives`), that a viewport's height is a number (`Viewports`), that a command which names entries is given a reference
(`clap` refuses it otherwise), and that ids differ (a primary key).  Two hypotheses go further and are said in the theorems they are needed for.
`~ClockSteps` is a clock that goes forward: with one set back a re-copied row may sink below others that were used less lately, and
`EvictsOldestFirst` and `InsertAnswersWithHolder` fail, as above.  `Punctual` is a watcher that takes a copy-back within `FOCUS_SETTLE`: `Paste` has no other way to know, and
`PastesItsEntry` fails without it.

For the history, the inductive invariant `IInv` is the conjunction of the
state properties, stated of any pair of tables (`AreSound`): the sweep and the
cascade work on intermediate tables that are no state of the system, so each
DELETE, UPDATE and INSERT is shown to keep tables sound and `Leave` to
restore the invariant (`LeaveRestoresIInv`).  None of the properties is
inductive alone.  `MaskFollowsFlag` needs that a bumped row has the kind of
the capture that bumps it, so that "an image is not masked" is about the same
kind: `IdentityDecidesKind`, from the hash covering the essence.  `HashNamesStoredBytes` needs that none of
the four ways a flavor list changes on its way to the table loses the
canonical flavor: `DistinctKeepsCanonical`, `CanonicalSurvives`,
`StorableFlavorsKeepCanonical`.  `SecretsAreFlagged` needs that the only text in
the table was captured.

For retention, `KeptFits` is a counting argument: rank every surviving row by how
many unpinned rows are newer; ranks are below `MaxEntries` and, `IsNewer`
being a strict total order, distinct; so the survivors fit in `MaxEntries`
(`FS_PigeonHole`).  `InsertIsKept` says of the row just written that, when the clock
goes forward, no row is newer: it has rank 0 and is too young to expire (`NewestIsKept`).  `OldestGoFirst` is the same order the other
way round: were the row that went newer than one that stayed, every row above it would be above that one too, and that one would
have had no room either (`SweepTakesTheOldest`).

For the daemon, `DaemonIInv` is the history's invariant (`StoreOK`) with what holds of everything on
its way into it: what the clipboard, the wire, the channels and a read hold are well-formed selections, and a copy-back
whole where no flavor can be dropped (`ClipboardSound`); the copy the capture task holds is one that
the store can take (`TakenOK`).  So each daemon action is a History operation whose arguments History allows,
the cache follows it (`CacheOK`), and the rest keeps its types (`FlagsOK`).  `GuardAwaitsEcho` needs more (`Guarded`): nothing is
under way unless the daemon is up; the last selection on the wire is what the clipboard holds, and when none is there, what is
being read is (`IsCurrent`); and when the guard is armed it awaits the *last* command or, when there is none, the clipboard's own
selection on its way, its copy in the channel or in the task's hands, or its loss (`Awaited`).  The property alone is not
inductive: with several copy-backs on their way an earlier one may satisfy it and be gone in the next
step.  `Faultless` (no flavor dropped, no event lost, no primary selection) is what it needs: each of the
three, as said above, leaves a guard that nothing is on its way for.

`LastCopyIsKept` rests on both and on where the copy is (`Kept`): the clipboard still holds it, and it is announced last, or being
read, or the last event, or in the task's hands with nothing behind it (`OnItsWay`).  A cancellation cannot slip in behind it, because
what took the clipboard from clippo follows every one (`CancelFollowed`).  So when the guard meets the copy in the task's hands and
matches it, each thing `Awaited` allows but one is ruled out by the places being empty, and the one that is left is a command for the
same content that has yet to be carried out: the copy is swallowed, and the content comes round again.

For the pastes, `PipesBounded` is not inductive: evicting makes room only if the
queue names every parked paste, and only once (`Accounted`, whose
`Increasing` makes the front of the queue the oldest).  From it follows that at
most one id is popped, that it is the smallest, and only at the limit, which is what
`EndsForAReason` says.

For the watcher, `NothingStale` says that the loop holds exactly the pending
selection's sources; then a callback that fires is the pending selection's, and
`PendingIsOpen` that the slot it resolves was still counted.  Each step is then
proved, once, to keep the invariant and to be a step of `Capture`
(`EmittedStep` for those that tell the daemon, `QuietStep` for those the
promise does not see).  `WholeOrDropped` is not inductive either: a flavor that is done is whole only if what was read before its pipe was
closed was the start of that pipe and no other's (`Untorn`); that what is read next continues it is `DataIsContent`.

For a start, `KeyIsFoundAlone` needs to know where every process is: before there are tables nobody
else is up and the key in the process's hand is where the next start looks (`FirstRun`); afterwards no process mints or writes a key at all
(`LaterRuns`).  `Placed` says what of the disk each place can count on.  
For the applet, trust is earned from the answer about an owner whose change is then read or still to be read (`TrustInv`).  The
rest is about what lies in two queues, so its invariants speak of every place in them: of what the worker has said (`events`) and the
UI has yet to hear, and of what the UI has asked.

- `TypedInv` types the queues by the rows there have been (`Known`), which only grow: a key in a queue is of a row that was captured, and
  the `+ 2` of `AppletTypeOK` is what one handler may say beyond the room there is.
- `Begun` says what there can be before the worker runs: nothing is asked before `ready` is heard, and nothing of
  the daemon is held before the first judgement.  `NewsIsInOrder` says that the last unread change names the owner, and that with none unread
  the worker trusts exactly clippod.
- `HighlightIsRight` is inductive beside `TypedInv`: a list carries the query it answers, and one for another query moves no highlight to the top.
- `QuietInv`: while the owner is not trusted, whatever is still to be heard drops what the UI holds before any list is drawn.  Without it a
  picture of an impostor could be thought to survive the change of owner.
- `PictureInv` says of a decoded picture (`PicturesKept`), of one in the events (`PicturesSaid`) and of a mark (`PicturesComing`) the same
  thing: it is its entry's, or, for a mark, asked for or answered, or it is `Doomed`: a `down` or `untrusted` is behind it in the queue, or
  will be said for an unread owner that is no clippod.  `Doomed` is relative to the *place* in the queue: that a drop is somewhere on its way is not
  inductive, since one that is ahead of the picture does not remove it.
- `UpFollows`: behind each drop there is an `up`, which makes the UI ask again.
- `ShownInv`: when a watched clippod has no unread signal, a refresh is on its way or the list `IsRight`: the *last* list for what is typed that will
  be drawn is clippod's answer (`EndsWith`), and a value that was revealed for an id that is another entry's by now is followed by a list (`IsTruthful`), on which the
  UI forgets it.  "Some list on its way is the answer" is not enough: an older one may be behind it.

For the keyboard, `KeyIsWhole` speaks of the moment the key is handled, long after it was queued, and perhaps by the flush of another send.
`KeyboardInv` therefore says of every press of the key in the queue that each request of the first half of its chord stands in its place before it, or was handled and nothing has
undone it (`ChordsAreWhole`); of the sender inside the lock that what it has queued is the end of the queue (`ChordIsBegun`); and of the releases, which undo all that
is held by the time they have been handled, whoever queued it (`ReleasesUndo`).  With `FlushedBeforeSync` a send that is answered has nothing left in the queue, which is
`SentLeavesNothing`.  The shortcut's length is a parameter: places in the script are counted from `M`, its number of modifiers.

For the commands, `RmOf` says how far an `rm` has come: nothing deleted before its references are resolved, then all that is deleted and all that is still to do are
what they meant (`Meant`) in the list it read, each once (`EachIsNamedOnce`), so an id it is refused for is never one it deleted.  `PasteOf` says where the copy-back of a
paste is: in the watcher's queue under its own id, or on the clipboard, from the moment the copy was accepted until the key is handled; that it is no longer in the
queue when the keys are sent is what `Punctual` gives, and that it was there at all rests on a `Paste` whose copy failed never reaching the keys.

For the list, where a row begins is a sum over the rows above it, and what a sum is for every list asks for induction.  The library's induction
theorems take a predicate, which no installed prover can instantiate; `ReachesAll` says it of a *set* of numbers, and follows from every such set having a
least member.  With it the sums exist (`SumsExist`), are those of `SumOf` (`SumsAreSums`) and only rise (`SumsRise`), so a row ends within the list
(`RowsFit`); the rest of `ScrollShowsTheRow` is arithmetic.

Only model-checked:

- liveness (`FrontendsCatchUp`, `GuardIsSpent`, `EveryPasteEnds`, `EveryReadEnds`, `StatusSettles`, `ServesAgain`, `EveryCommandEnds`), which is
  beyond the prover;
- the pure `ASSUME`s of MCApplet and MCWatcher, for small inputs.

Every other property of a passing run is a theorem.  `DaemonSpec` is checked with symmetry in one run only, and no proof rests on it.

## What is not modelled

- *Characters and bytes*: regular expressions, a text's entropy, fuzzy ranking, TOML, the layout of tables and
  messages.  Detection takes what a text matches as its input, `Matches` is a constant relation in Applet.
- *SQLCipher and SQLite inside a transaction*: a statement or transaction is one step, a committed one is
  there after a crash; giving freed pages back, and converting an old file's vacuum mode, change no entry.
- *The bus and the lookups behind it*: who owns a name and what /proc answers are inputs; the generated
  proxies and a reply that is lost after its effect are left out.  So is a bus that fails to say who owns
  the name when the worker first asks (`bus.rs:457-460`): the applet then says the daemon is down, which may be up, until the next change of owner.
- *A `Copy` before the watcher is there* (`daemon.rs:298-304`): it is refused and changes nothing.  In Daemon no `Copy` is
  made before `up`, in Session a daemon that runs is one that watches.
- *A reload or a touch that fails* in Daemon: the code logs it and serves the older list until the next change.
- *Where a copy was made* with respect to the pause switch: the flag is read when a copy is
  processed.  It would take the provenance of copies in Daemon.
- *Binding of globals*, the choice between the two data-control protocols, a closed event
  channel that stops the loop, building a keymap, widgets and icons.
- *The diagnostic watcher binary*, which prints the events that Watcher models and keeps no state.
- *A file's permissions set by somebody else*, and systemd's limit of restarts.
- A read that is cut short is assumed to be of a superseded or own source: an application that
  truncates its own data is not clippo's to detect.

`PROJECT.json` gives every component's status.

## The plan

Done: every component but the diagnostic binary, in the modules above, and their proofs.  Left, in this order:

1. The pure `ASSUME`s of MCApplet and MCWatcher as theorems, by `ReachesAll`: that a one-line preview and a revealed value stay within their
   bounds (`RowsAreSafe`, `RevealIsBounded`), and that the ceiling on an offer's types costs no flavor that is read (`CeilingCostsNothing`).
2. What `StaleAnnounced` promises followed past the signal: a frontend with no signal unread has asked for the list since the last change.
3. Clipboard's `OnSelection` and `ReadDone` shown to keep the promise of Capture, as Watcher is, so that the daemon's proofs rest on what
   the watcher's say.  Clipboard does not number its selections as Capture does; a history variable would.
4. Daemon: a failing reload or touch; where a copy made while paused goes.
