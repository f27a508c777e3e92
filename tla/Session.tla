------------------------------ MODULE Session ------------------------------
(***************************************************************************)
(* clippo's commands against a running clippod: each is a process of a few *)
(* bus calls (clippo-cli's run.rs and client.rs), clippod answers them one *)
(* at a time, and between them applications copy, other commands run, and  *)
(* the daemon stops and is started again.  Paste is followed to the keys   *)
(* that reach the window; what the watcher does in between is one queue.   *)
(* The commands that only print (list, search) and show are left out.      *)
(***************************************************************************)
EXTENDS Ids, SequencesExt

CONSTANTS
  Processes,     \* the commands that run, each of which is a Sender of keys
  ModifierKeys,  \* of the configured paste_shortcut
  Commands,      \* what a command may be: a record of do, refs and its switches
  Older,         \* the entries there are at first, most recently used first
  MaxEntries,    \* max_entries
  CommandCap,    \* room for copy-backs in the watcher's queue (16 in the code)
  Punctual,      \* whether the watcher takes a copy-back within FOCUS_SETTLE
  Copies,        \* bound: how many copies applications make
  Stops          \* bound: how often the daemon stops

VARIABLES
  alive, holder, place, outbox, wire, held, mask,   \* of VirtualKeyboard
  config,        \* allow_privileged_members, and whether Paste can press at all
  running,       \* whether clippod serves calls, and watches
  stops,         \* how often it has stopped
  paused,
  rows,          \* the history, most recently used first
  made,          \* the number of copies so far: each is a content of its own
  clipboard,     \* what the clipboard holds: none or one [what, ours]
  offers,        \* copy-backs on their way to the watcher: [what, by]
  does,          \* the command of each process
  stage,         \* how far each has come
  todo,          \* the ids it has still to call about
  deleted,       \* the ids an rm has deleted
  failedAt,      \* the ids a call was refused for, as not being there
  seen,          \* what a command's list or prompt showed it: ids
  wants,         \* what a Copy or Paste has put on its way to the clipboard
  taken          \* whether something else took the clipboard after that

keyboard == <<alive, holder, place, outbox, wire, held, mask>>
daemon   == <<config, running, stops, paused, rows, made, clipboard, offers>>
process  == <<does, stage, todo, deleted, failedAt, seen, wants, taken>>
vars     == <<keyboard, daemon, process>>

Keys == INSTANCE VirtualKeyboard WITH Senders <- Processes

Row == [id : Nat \ {0}, made : Nat \ {0}, pinned : BOOLEAN]

Distinct(list) == \A i, j \in DOMAIN list : list[i].id = list[j].id => i = j

(* The commands that name entries, of which they are given at least one.   *)
Referring == {"copy", "paste", "pin", "reveal", "rm"}

ASSUME SessionAssumption ==
  /\ MaxEntries \in Nat \ {0} /\ CommandCap \in Nat \ {0}
  /\ Copies \in Nat /\ Stops \in Nat /\ Punctual \in BOOLEAN
  /\ Older \in Seq(Row) /\ Distinct(Older)
  /\ \A i \in DOMAIN Older : Older[i].made <= Len(Older)
  /\ ModifierKeys \in Seq(Keys!Mask) /\ Keys!Key \notin Keys!Mask
  /\ \A command \in Commands :
       /\ command.refs \in Seq(Nat) /\ (command.do \in Referring => command.refs # << >>)
       /\ command.on \in BOOLEAN

RowIds == {rows[i].id : i \in DOMAIN rows}
RowOf(id) == CHOOSE i \in DOMAIN rows : rows[i].id = id

Nothing == 0
Stages  == {"idle", "resolve", "asking", "call", "settle", "press", "done", "failed"}

TypeOK ==
  /\ Keys!KeyboardTypeOK
  /\ config \in [privileged : BOOLEAN, presses : BOOLEAN]
  /\ running \in BOOLEAN /\ paused \in BOOLEAN
  /\ rows \in Seq(Row) /\ Distinct(rows) /\ Len(offers) <= CommandCap
  /\ stage \in [Processes -> Stages]

Init ==
  /\ Keys!KeyboardIsNew
  /\ config \in [privileged : BOOLEAN, presses : BOOLEAN]
  /\ running = TRUE /\ stops = 0 /\ paused = FALSE
  /\ rows = Older /\ made = Len(Older) /\ clipboard = {} /\ offers = << >>
  /\ does \in [Processes -> Commands]
  /\ stage = [p \in Processes |-> "idle"]
  /\ todo = [p \in Processes |-> << >>]
  /\ deleted = [p \in Processes |-> {}] /\ failedAt = [p \in Processes |-> {}]
  /\ seen = [p \in Processes |-> {}]
  /\ wants = [p \in Processes |-> Nothing] /\ taken = [p \in Processes |-> FALSE]

-----------------------------------------------------------------------------
(* What a command does before its calls.                                   *)

Goto(p, there) == stage' = [stage EXCEPT ![p] = there]
Set(f, p, x)   == [f EXCEPT ![p] = x]

Refers(p) == does[p].do \in Referring

(* Client::connect; a call without a daemon is an error wherever it is     *)
(* made, so it is made here.                                               *)
Launch(p) ==
  /\ stage[p] = "idle"
  /\ \/ ~running /\ Goto(p, "failed")
     \/ running /\ Refers(p) /\ Goto(p, "resolve")
     \/ running /\ does[p].do = "clear" /\ ~does[p].yes /\ Goto(p, "asking")
     \/ /\ running /\ ~Refers(p) /\ (does[p].do = "clear" => does[p].yes)
        /\ Goto(p, "call")
  /\ UNCHANGED <<keyboard, daemon, todo, deleted, failedAt, seen, wants, taken, does>>

(* Mutant: references that name nothing are skipped.                       *)
ResolveSome(p) ==
  /\ stage[p] = "resolve" /\ running
  /\ seen' = Set(seen, p, RowIds)
  /\ LET refs == Keep(does[p].refs, LAMBDA ref : Resolves(ref, RowIds))
     IN  IF refs # << >>
         THEN todo' = Set(todo, p, ResolveAll(refs, RowIds)) /\ Goto(p, "call")
         ELSE UNCHANGED todo /\ Goto(p, "failed")
  /\ UNCHANGED <<keyboard, daemon, deleted, failedAt, wants, taken, does>>

(* List(0, 0), and every reference against that one list.                  *)
ResolveRefs(p) ==
  /\ stage[p] = "resolve" /\ running
  /\ seen' = Set(seen, p, RowIds)
  /\ LET refs == does[p].refs
     IN  IF \A i \in DOMAIN refs : Resolves(refs[i], RowIds)
         THEN todo' = Set(todo, p, ResolveAll(refs, RowIds)) /\ Goto(p, "call")
         ELSE UNCHANGED todo /\ Goto(p, "failed")
  /\ UNCHANGED <<keyboard, daemon, deleted, failedAt, wants, taken, does>>

(* clear without --yes: the list is counted, and if there is anything to   *)
(* clear the user is asked (no terminal to ask on is an error).            *)
Doomed(p) == {rows[i].id : i \in {j \in DOMAIN rows : does[p].all \/ ~rows[j].pinned}}

CountRows(p) ==
  /\ stage[p] = "asking" /\ seen[p] = {} /\ running
  /\ seen' = Set(seen, p, Doomed(p))
  /\ IF Doomed(p) = {} THEN Goto(p, "done") ELSE UNCHANGED stage
  /\ UNCHANGED <<keyboard, daemon, todo, deleted, failedAt, wants, taken, does>>

UserAnswers(p) ==
  /\ stage[p] = "asking" /\ seen[p] # {}
  /\ Goto(p, "call") \/ Goto(p, "failed")
  /\ UNCHANGED <<keyboard, daemon, todo, deleted, failedAt, seen, wants, taken, does>>

-----------------------------------------------------------------------------
(* The calls, which clippod answers under its one lock.                    *)

Calls(p, member) == stage[p] = "call" /\ running /\ does[p].do = member
Id(p)            == Head(todo[p])

(* no_such_entry.                                                          *)
IsGone(p) == Id(p) \notin RowIds

(* check_privileged: Reveal and Paste are switched off together.           *)
IsPrivileged == config.privileged

Refused(p) ==
  /\ failedAt' = Set(failedAt, p, {Id(p)})
  /\ Goto(p, "failed")

Delete(p) ==
  /\ Calls(p, "rm")
  /\ IF IsGone(p)
     THEN Refused(p) /\ UNCHANGED <<rows, todo, deleted>>
     ELSE /\ rows' = Keep(rows, LAMBDA row : row.id # Id(p))
          /\ deleted' = [deleted EXCEPT ![p] = @ \cup {Id(p)}]
          /\ todo' = [todo EXCEPT ![p] = Tail(@)]
          /\ IF Len(todo[p]) = 1 THEN Goto(p, "done") ELSE UNCHANGED stage
          /\ UNCHANGED failedAt
  /\ UNCHANGED <<keyboard, config, running, stops, paused, made, clipboard, offers>>
  /\ UNCHANGED <<seen, wants, taken, does>>

Pin(p) ==
  /\ Calls(p, "pin")
  /\ IF IsGone(p)
     THEN Refused(p) /\ UNCHANGED rows
     ELSE /\ rows' = [rows EXCEPT ![RowOf(Id(p))].pinned = does[p].on]
          /\ Goto(p, "done") /\ UNCHANGED failedAt
  /\ UNCHANGED <<keyboard, config, running, stops, paused, made, clipboard, offers>>
  /\ UNCHANGED <<seen, todo, deleted, wants, taken, does>>

Reveal(p) ==
  /\ Calls(p, "reveal")
  /\ IF IsPrivileged /\ ~IsGone(p) THEN Goto(p, "done") ELSE Goto(p, "failed")
  /\ UNCHANGED <<keyboard, daemon, seen, todo, deleted, failedAt, wants, taken, does>>

Clear(p) ==
  /\ Calls(p, "clear")
  /\ rows' = Keep(rows, LAMBDA row : row.pinned /\ ~does[p].all)
  /\ Goto(p, "done")
  /\ UNCHANGED <<keyboard, config, running, stops, paused, made, clipboard, offers>>
  /\ UNCHANGED <<seen, todo, deleted, failedAt, wants, taken, does>>

SetPaused(p) ==
  /\ Calls(p, "pause")
  /\ paused' = does[p].on
  /\ Goto(p, "done")
  /\ UNCHANGED <<keyboard, config, running, stops, rows, made, clipboard, offers>>
  /\ UNCHANGED <<seen, todo, deleted, failedAt, wants, taken, does>>

-----------------------------------------------------------------------------
(* Copy and Paste.                                                         *)

(* copy_at: the entry goes on its way to the watcher and to the front.     *)
CopyAt(p) ==
  /\ ~IsGone(p) /\ Len(offers) < CommandCap
  /\ LET row == rows[RowOf(Id(p))]
     IN  /\ offers' = Append(offers, [what |-> row.made, by |-> p])
         /\ rows' = <<row>> \o Keep(rows, LAMBDA other : other # row)
         /\ wants' = Set(wants, p, row.made)
  /\ UNCHANGED failedAt

(* Its failure leaves everything alone: the entry is gone, or the queue is *)
(* full.  A third one, before the watcher is there, is left out: running   *)
(* here is a daemon that watches.                                          *)
CopyFails(p) ==
  /\ \/ IsGone(p) /\ failedAt' = Set(failedAt, p, {Id(p)})
     \/ ~IsGone(p) /\ Len(offers) = CommandCap /\ UNCHANGED failedAt
  /\ UNCHANGED <<offers, rows, wants>>

Copy(p) ==
  /\ Calls(p, "copy")
  /\ \/ CopyAt(p) /\ Goto(p, "done")
     \/ CopyFails(p) /\ Goto(p, "failed")
  /\ UNCHANGED <<keyboard, config, running, stops, paused, made, clipboard>>
  /\ UNCHANGED <<seen, todo, deleted, taken, does>>

(* Mutant: the shortcut is pressed whatever became of the copy.            *)
PasteAnyway(p) ==
  /\ Calls(p, "paste") /\ IsPrivileged
  /\ CopyAt(p) \/ CopyFails(p)
  /\ Goto(p, IF config.presses THEN "settle" ELSE "done")
  /\ UNCHANGED <<keyboard, config, running, stops, paused, made, clipboard>>
  /\ UNCHANGED <<seen, todo, deleted, taken, does>>

(* paste, to its sleep: refused before the copy, or failed with it, or     *)
(* answered false when there is no pressing of keys (auto_paste is off, or *)
(* the compositor has no virtual keyboards).                               *)
Paste(p) ==
  /\ Calls(p, "paste")
  /\ \/ /\ ~IsPrivileged /\ Goto(p, "failed")
        /\ UNCHANGED <<offers, rows, wants, failedAt>>
     \/ IsPrivileged /\ CopyAt(p) /\ Goto(p, IF config.presses THEN "settle" ELSE "done")
     \/ IsPrivileged /\ CopyFails(p) /\ Goto(p, "failed")
  /\ UNCHANGED <<keyboard, config, running, stops, paused, made, clipboard>>
  /\ UNCHANGED <<seen, todo, deleted, taken, does>>

(* FOCUS_SETTLE, 120 ms, outside every lock.                               *)
Settle(p) ==
  /\ stage[p] = "settle"
  /\ Punctual => \A i \in DOMAIN offers : offers[i].by # p
  /\ Goto(p, "press")
  /\ UNCHANGED <<keyboard, daemon, todo, deleted, failedAt, seen, wants, taken, does>>

(* send on a thread of its own, and Paste's answer when it returns: a send *)
(* that fails is an answer too.                                            *)
Sends(p) ==
  /\ stage[p] = "press"
  /\ \/ Keys!Lock(p) /\ UNCHANGED stage
     \/ Keys!Queue(p) /\ UNCHANGED stage
     \/ Keys!Write(p) /\ UNCHANGED stage
     \/ Keys!Sent(p) /\ Goto(p, "done")
     \/ Keys!SendFails(p) /\ Goto(p, "done")
  /\ UNCHANGED <<daemon, todo, deleted, failedAt, seen, wants, taken, does>>

-----------------------------------------------------------------------------
(* Around the commands.                                                    *)

(* The watcher takes the selection for a copy-back.                        *)
TakeSelection ==
  /\ running /\ offers # << >>
  /\ clipboard' = {[what |-> Head(offers).what, ours |-> TRUE]}
  /\ taken' = [p \in Processes |-> p # Head(offers).by]
  /\ offers' = Tail(offers)
  /\ UNCHANGED <<keyboard, config, running, stops, paused, rows, made>>
  /\ UNCHANGED <<seen, todo, deleted, failedAt, wants, stage, does>>

(* Retention: of the unpinned, the MaxEntries most recently used are kept. *)
Evict(recorded) ==
  LET unpinned == Keep(recorded, LAMBDA row : ~row.pinned)
  IN  Keep(recorded, LAMBDA row :
        row.pinned \/ \E i \in DOMAIN unpinned : i <= MaxEntries /\ unpinned[i] = row)

(* An application copies something new, and it is recorded under the least *)
(* id above all others.                                                    *)
NextId == 1 + (IF rows = << >> THEN 0 ELSE CHOOSE id \in RowIds : \A other \in RowIds : other <= id)

ApplicationCopies ==
  /\ made < Len(Older) + Copies /\ made' = made + 1
  /\ clipboard' = {[what |-> made', ours |-> FALSE]}
  /\ taken' = [p \in Processes |-> TRUE]
  /\ rows' = IF running /\ ~paused
             THEN Evict(<<[id |-> NextId, made |-> made', pinned |-> FALSE]>> \o rows)
             ELSE rows
  /\ UNCHANGED <<keyboard, config, running, stops, paused, offers>>
  /\ UNCHANGED <<seen, todo, deleted, failedAt, wants, stage, does>>

(* clippod stops: a Paste under way fails, and so may a call that had not  *)
(* been handled; what it offered is gone from the clipboard, and so are    *)
(* its pause and its keyboard.                                             *)
Pasting(p) == stage[p] \in {"settle", "press"}
Calling    == {p \in Processes : stage[p] \in {"resolve", "call"}}

DaemonStops ==
  /\ running /\ running' = FALSE
  /\ stops < Stops /\ stops' = stops + 1
  /\ paused' = FALSE /\ offers' = << >>
  /\ clipboard' = {c \in clipboard : ~c.ours}
  /\ \E lost \in SUBSET Calling :
       stage' = [p \in Processes |-> IF Pasting(p) \/ p \in lost THEN "failed" ELSE stage[p]]
  /\ Keys!KeyboardReplaced
  /\ UNCHANGED <<config, rows, made, seen, todo, deleted, failedAt, wants, taken, does>>

DaemonStarts ==
  /\ ~running /\ running' = TRUE
  /\ UNCHANGED <<keyboard, config, stops, paused, rows, made, clipboard, offers, process>>

(* A call is made to a daemon that is not there.                           *)
CallFails(p) ==
  /\ ~running /\ (stage[p] \in {"resolve", "call"} \/ (stage[p] = "asking" /\ seen[p] = {}))
  /\ Goto(p, "failed")
  /\ UNCHANGED <<keyboard, daemon, todo, deleted, failedAt, seen, wants, taken, does>>

CompositorStep ==
  /\ Keys!Arrives
  /\ UNCHANGED <<daemon, process>>

ConnectionBreaks ==
  /\ config.presses /\ running /\ Keys!Breaks
  /\ UNCHANGED <<daemon, process>>

-----------------------------------------------------------------------------
CommandStep(p) ==
  \/ Launch(p) \/ ResolveRefs(p) \/ CountRows(p) \/ CallFails(p)
  \/ Delete(p) \/ Pin(p) \/ Reveal(p) \/ Clear(p) \/ SetPaused(p)
  \/ Copy(p) \/ Paste(p) \/ Settle(p) \/ Sends(p)

Next ==
  \/ \E p \in Processes : CommandStep(p) \/ UserAnswers(p)
  \/ TakeSelection \/ ApplicationCopies \/ DaemonStops \/ DaemonStarts
  \/ CompositorStep \/ ConnectionBreaks

Spec == Init /\ [][Next]_vars

(* A process and a thread go on, the watcher and the compositor serve what *)
(* is waiting, and systemd starts clippod again.  A user need not answer a *)
(* prompt, and applications need not copy.                                 *)
Fairness ==
  /\ \A p \in Processes : WF_vars(CommandStep(p))
  /\ WF_vars(TakeSelection) /\ WF_vars(CompositorStep) /\ WF_vars(DaemonStarts)

FairSpec == Spec /\ Fairness

-----------------------------------------------------------------------------
(* Properties.                                                             *)

KeyIsWhole == Keys!KeyIsWhole

SessionIsSound == TypeOK /\ KeyIsWhole

(* When the shortcut of a paste reaches the window, the clipboard holds    *)
(* the entry the paste was of, unless something took the clipboard after   *)
(* the watcher had put it there: a copy that failed is never followed by a *)
(* key, which would paste what was there before (paste's comment).         *)
PastesItsEntry ==
  \A p \in Processes : Keys!Struck(p) =>
    /\ wants[p] # Nothing
    /\ taken[p] \/ \E c \in clipboard : c.what = wants[p]

(* A send that succeeds leaves no key down and no modifier on, whatever an *)
(* earlier one that failed left behind.                                    *)
SentLeavesNothingHeld ==
  [][\A p \in Processes : (stage[p] = "press" /\ Keys!Sent(p)) => held' = {} /\ mask' = {}]_vars

(* rm deletes only what its references meant, all against one list, and    *)
(* nothing if one of them meant nothing; and it is never refused for an    *)
(* entry that it deleted itself, however often it was named.               *)
RmKeepsItsWord ==
  \A p \in Processes :
    /\ deleted[p] \subseteq {Resolve(does[p].refs[i], seen[p]) :
                               i \in {j \in DOMAIN does[p].refs : Resolves(does[p].refs[j], seen[p])}}
    /\ deleted[p] # {} => \A i \in DOMAIN does[p].refs : Resolves(does[p].refs[i], seen[p])
    /\ failedAt[p] \cap deleted[p] = {}

(* Every command ends, or waits for an answer the user has not given.      *)
EveryCommandEnds ==
  \A p \in Processes : <>[](stage[p] \in {"done", "failed"} \/ (stage[p] = "asking" /\ seen[p] # {}))
=============================================================================
