------------------------------- MODULE Applet -------------------------------
(***************************************************************************)
(* clippo-applet: the picker of Picker, the bus worker of bus.rs that      *)
(* serves it, and what the worker deals with: a clippod that comes and     *)
(* goes, a peer that takes its name, and a history other clients change.   *)
(*                                                                         *)
(* The worker does one thing at a time.  When the UI has not taken the     *)
(* last EventCap events it stands waiting with one more: that one is the   *)
(* last of events.                                                         *)
(***************************************************************************)
EXTENDS Picker, Peers

CONSTANTS
  EventCap,     \* how many events the worker's channel holds
  RowLimit,     \* bus::ROW_LIMIT
  Captures,     \* bound: how many copies are made
  Viewports,    \* bound: how tall the list is
  Lives,        \* bound: how many times clippod is started
  Unread,       \* bound: how many changes of owner wait to be read
  Moves,        \* bound: how much the user, the compositor and the desktop do
  Matches(_, _) \* does a query match the entry captured at a time

ASSUME AppletAssumption ==
  /\ {EventCap, RowLimit, Captures, Lives, Unread, Moves} \subseteq Nat
  /\ EventCap > 0 /\ Lives > 0
  /\ Viewports \subseteq Nat

VARIABLES
  worker,    \* where bus::worker is
  watching,  \* watch_name succeeded
  trusted,   \* the worker's flag of that name
  changed,   \* HistoryChanged it has not read: one stands for several
  owners,    \* NameOwnerChanged it has not read: the new owners
  history,   \* what clippod holds, last used first
  captures,  \* how many copies have been made
  owner,     \* who has clippod's name
  lives,     \* how many times clippod has been started
  moves      \* how much has been done

workerVars == <<worker, watching, trusted>>
signalVars == <<changed, owners>>
daemonVars == <<history, captures, owner, lives>>
system     == <<pickerVars, workerVars, signalVars, daemonVars>>
vars       == <<system, moves>>

(* Somebody's hold on the name: nobody's, an incarnation of clippod's, or  *)
(* that of a peer that is none.                                            *)
Absent       == [who |-> "nobody", life |-> 0]
Impostor     == [who |-> "peer", life |-> 0]
Clippod(n)   == [who |-> "clippod", life |-> n]
IsClippod(o) == o.who = "clippod"

Stages == {"starting", "connecting", "subscribed", "asking", "running", "gone"}

AppletTypeOK ==
  /\ PickerTypeOK
  /\ worker \in Stages /\ watching \in BOOLEAN /\ trusted \in BOOLEAN
  /\ changed \in BOOLEAN
  /\ history \in Seq(Row) /\ captures \in 0..Captures /\ lives \in 0..Lives
  /\ moves \in 0..Moves
  /\ Len(events) <= EventCap + 2

(* The panel starts the applet before, after or without the daemon.        *)
Init ==
  /\ PickerInit
  /\ worker = "starting" /\ watching = FALSE /\ trusted = FALSE
  /\ changed = FALSE /\ owners = << >>
  /\ history = << >> /\ captures = 0
  /\ \/ owner = Absent /\ lives = 0
     \/ owner = Impostor /\ lives = 0
     \/ owner = Clippod(1) /\ lives = 1
  /\ moves = 0

-----------------------------------------------------------------------------
(* The worker starts.                                                      *)

Emit(list) == Len(events) <= EventCap /\ events' = events \o list

Says(type) == << [type |-> type] >>

StartWorker ==
  /\ worker = "starting"
  /\ Emit(Says("ready")) /\ worker' = "connecting"
  /\ UNCHANGED <<modelVars, open, thumbVars, link, inbox, queueVars,
                 watching, trusted, signalVars, daemonVars>>

(* No bus, no proxy or no subscription: the worker says so and returns,    *)
(* and its end of the queue goes with it.                                  *)
FailToConnect ==
  /\ worker = "connecting"
  /\ \/ Emit(Says("failed") \o Says("down"))
     \/ Emit(Says("down"))
  /\ worker' = "gone" /\ inbox' = FALSE /\ requests' = << >>
  /\ UNCHANGED <<modelVars, open, thumbVars, link, missed,
                 watching, trusted, changed, owners, daemonVars>>

(* receive_history_changed.                                                *)
Subscribe ==
  /\ worker = "connecting" /\ Len(events) <= EventCap
  /\ worker' = "subscribed"
  /\ UNCHANGED <<pickerVars, watching, trusted, signalVars, daemonVars>>

(* watch_name, which may fail: the worker goes on without it.              *)
WatchName ==
  /\ worker = "subscribed"
  /\ worker' = "asking" /\ watching' \in BOOLEAN
  /\ UNCHANGED <<pickerVars, trusted, signalVars, daemonVars>>

(* What can be found out about an owner of the name: one that has gone     *)
(* since has no credentials to show.                                       *)
Evidence(o) ==
  [pid       |-> IF o = owner THEN {o.life} ELSE {},
   sandboxed |-> FALSE,
   exe       |-> {[dir |-> "/usr/bin", name |-> IF IsClippod(o) THEN "clippod" ELSE "another"]}]

Allowed == Policy(Installed({}, {}), << >>)

(* judged.                                                                 *)
Judged(o) ==
  LET verdict == OwnerOf(IF o = Absent THEN {} ELSE {Evidence(o)}, Allowed)
  IN  CASE verdict = "absent"  -> "down"
        [] verdict = "trusted" -> "up"
        [] OTHER               -> "untrusted"

(* daemon_owner, of a question the bus answers.  When the bus fails to, the *)
(* code says down whoever owns the name; that arm is left out.              *)
AskOwner ==
  /\ worker = "asking"
  /\ Emit(Says(Judged(owner)))
  /\ worker' = "running" /\ trusted' = (Judged(owner) = "up")
  /\ UNCHANGED <<modelVars, open, thumbVars, link, inbox, queueVars,
                 watching, signalVars, daemonVars>>

-----------------------------------------------------------------------------
(* serve_request: the call, what clippod does for it, and what is said.    *)

Answer(text) ==
  LET found == Keep(history, LAMBDA row : text = NoQuery \/ Matches(text, row.at))
  IN  SubSeq(found, 1, Smaller(RowLimit, Len(found)))

Entry(id) == {i \in DOMAIN history : history[i].id = id}

Entries(text, list)   == << [type |-> "entries", query |-> text, rows |-> list] >>
Revealed(id, value)   == << [type |-> "revealed", id |-> id, value |-> value] >>
Picture(key, picture) == << [type |-> "thumbnail", key |-> key, picture |-> picture] >>

(* Heard: a change is announced to a worker that has subscribed.           *)
Heard == worker \in {"subscribed", "asking", "running"}

(* What a member that changes entry i leaves of the history.               *)
After(request, i) ==
  CASE request.type = "delete" -> RemoveAt(history, i)
    [] request.type = "pin"    -> history
    [] request.type = "paste"  -> <<history[i]>> \o RemoveAt(history, i)

Acts == {"paste", "delete", "pin"}

(* A refused Paste becomes a Copy, which leaves the same history.          *)
ClippodActs(request) ==
  IF Entry(request.id) = {}
  THEN Emit(Says("failed")) /\ UNCHANGED <<history, changed>>
  ELSE /\ Emit(Says("up")) /\ changed' = TRUE
       /\ \E i \in Entry(request.id) : history' = After(request, i)

(* List and Search.                                                        *)
ClippodLists(request) ==
  request.type = "refresh" /\ Emit(Entries(request.query, Answer(request.query)))

(* Reveal: the value itself, of an entry that is there and is text; or     *)
(* allow_privileged_members is off, and none.                              *)
ClippodReveals(request) ==
  /\ request.type = "reveal"
  /\ \/ Emit(Says("failed"))
     \/ \E i \in Entry(request.id) :
          history[i].at \notin Images /\ Emit(Revealed(request.id, history[i].at))

(* Thumbnail: no picture is an answer like any other.                      *)
ClippodPictures(request) ==
  /\ request.type = "thumbnail"
  /\ Emit(Picture(request.key, {history[i].at : i \in Entry(request.key.id)} \cap Images))

ClippodReads(request) ==
  /\ ClippodLists(request) \/ ClippodReveals(request) \/ ClippodPictures(request)
  /\ UNCHANGED <<history, changed>>

ClippodAnswers(request) ==
  IF request.type \in Acts THEN ClippodActs(request) ELSE ClippodReads(request)

(* Whoever else has the name answers what it likes.                        *)
Forged == [id |-> 1, at |-> 0]

ImpostorAnswers(request) ==
  /\ CASE request.type = "refresh"   -> Emit(Entries(request.query, <<Forged>>))
       [] request.type = "reveal"    -> Emit(Revealed(request.id, 0))
       [] request.type = "thumbnail" -> Emit(Picture(request.key, {0}))
       [] OTHER                      -> Emit(Says("up"))
  /\ UNCHANGED <<history, changed>>

NobodyAnswers(request) ==
  /\ Emit(IF request.type = "thumbnail" THEN Picture(request.key, {}) ELSE Says("down"))
  /\ UNCHANGED <<history, changed>>

Answers(request) ==
  CASE owner = Absent   -> NobodyAnswers(request)
    [] owner = Impostor -> ImpostorAnswers(request)
    [] OTHER            -> ClippodAnswers(request)

Serve ==
  /\ worker = "running" /\ requests # << >> /\ Len(events) <= EventCap
  /\ requests' = Tail(requests)
  /\ IF trusted THEN Answers(Head(requests)) ELSE UNCHANGED <<events, history, changed>>
  /\ UNCHANGED <<modelVars, open, thumbVars, link, inbox, missed, workerVars,
                 owners, captures, owner, lives>>

(* Mutant: an announcement is believed whoever makes it.                   *)
HearAnyChange ==
  /\ worker = "running" /\ changed
  /\ Emit(Says("up"))
  /\ changed' = FALSE
  /\ UNCHANGED <<modelVars, open, thumbVars, link, inbox, queueVars, workerVars,
                 owners, daemonVars>>

(* The other arms of the worker's select.                                  *)
HearHistoryChanged ==
  /\ worker = "running" /\ changed
  /\ IF trusted THEN Emit(Says("up")) ELSE Len(events) <= EventCap /\ UNCHANGED events
  /\ changed' = FALSE
  /\ UNCHANGED <<modelVars, open, thumbVars, link, inbox, queueVars, workerVars,
                 owners, daemonVars>>

(* Mutant: a new owner is taken for clippod come back.                     *)
WelcomeOwner ==
  /\ worker = "running" /\ owners # << >>
  /\ LET verdict == IF Head(owners) = Absent THEN "down" ELSE "up"
     IN  Emit(Says(verdict)) /\ trusted' = (verdict = "up")
  /\ owners' = Tail(owners)
  /\ UNCHANGED <<modelVars, open, thumbVars, link, inbox, queueVars, worker, watching,
                 changed, daemonVars>>

HearOwner ==
  /\ worker = "running" /\ owners # << >>
  /\ Emit(Says(Judged(Head(owners)))) /\ trusted' = (Judged(Head(owners)) = "up")
  /\ owners' = Tail(owners)
  /\ UNCHANGED <<modelVars, open, thumbVars, link, inbox, queueVars, worker, watching,
                 changed, daemonVars>>

(* A Toggle call waits for the worker to read it.                          *)
HearToggle ==
  /\ worker = "running"
  /\ Emit(Says("toggle"))
  /\ UNCHANGED <<modelVars, open, thumbVars, link, inbox, queueVars, workerVars,
                 signalVars, daemonVars>>

-----------------------------------------------------------------------------
(* The desktop.                                                            *)

UnchangedApplet == UNCHANGED <<pickerVars, workerVars>>

FreeId == IF history = << >> THEN 1 ELSE 1 + Max(IdsOf(history))

(* A copy is captured and kept.                                            *)
Copied ==
  /\ IsClippod(owner) /\ captures < Captures
  /\ captures' = captures + 1
  /\ history' = <<[id |-> FreeId, at |-> captures + 1]>> \o history
  /\ changed' = Heard
  /\ UnchangedApplet /\ UNCHANGED <<owners, owner, lives>>

(* clippo rm, or the sweep.                                                *)
Removed ==
  /\ IsClippod(owner)
  /\ \E i \in DOMAIN history : history' = RemoveAt(history, i)
  /\ changed' = Heard
  /\ UnchangedApplet /\ UNCHANGED <<owners, captures, owner, lives>>

(* The name changes hands; the bus tells who watches it.                   *)
NameGoesTo(o) ==
  /\ owner' = o /\ Len(owners) < Unread
  /\ owners' = IF watching /\ worker # "gone" THEN Append(owners, o) ELSE owners
  /\ UnchangedApplet /\ UNCHANGED <<changed, history, captures>>

(* Neither side replaces an owner: the name has to be free.                *)
ClippodStarts ==
  /\ owner = Absent /\ lives < Lives
  /\ lives' = lives + 1 /\ NameGoesTo(Clippod(lives + 1))

ImpostorTakes == owner = Absent /\ NameGoesTo(Impostor) /\ UNCHANGED lives
NameIsLeft    == owner # Absent /\ NameGoesTo(Absent) /\ UNCHANGED lives

(* Whoever has the name may announce a change.                             *)
ImpostorAnnounces ==
  /\ owner = Impostor /\ Heard /\ changed' = TRUE
  /\ UnchangedApplet /\ UNCHANGED <<owners, daemonVars>>

Desktop ==
  \/ Copied \/ Removed \/ ClippodStarts \/ ImpostorTakes \/ NameIsLeft
  \/ ImpostorAnnounces

Keys ==
  \/ IconPressed \/ SurfaceGone \/ Enter
  \/ Delete \/ Reveal \/ TogglePin \/ Move(TRUE) \/ Move(FALSE)
  \/ \E text \in Queries : QueryChanged(text)
  \/ \E id \in 1..Captures : Chose(id)

Others == UNCHANGED <<workerVars, signalVars, daemonVars>>

Moved == moves < Moves /\ moves' = moves + 1

Worker ==
  \/ StartWorker \/ FailToConnect \/ Subscribe \/ WatchName \/ AskOwner
  \/ Serve \/ HearHistoryChanged \/ HearOwner

Hears == OnBus /\ Others

Next ==
  \/ (Keys /\ Others /\ Moved) \/ (HearToggle /\ Moved) \/ (Desktop /\ Moved)
  \/ (Hears /\ UNCHANGED moves) \/ (Worker /\ UNCHANGED moves)

Spec == Init /\ [][Next]_vars

(* The UI's executor and the worker's task run when they can, and a change *)
(* of owner that can be read is, in the end: tokio picks among the arms of *)
(* a select that are ready at random.                                      *)
Fairness ==
  /\ WF_system(Hears)
  /\ WF_system(StartWorker \/ Subscribe \/ FailToConnect \/ WatchName \/ AskOwner)
  /\ WF_system(HearOwner)

FairSpec == Spec /\ Fairness

-----------------------------------------------------------------------------
(* Properties.                                                             *)

(* The highlight is on a row of the list, whatever the list has become:    *)
(* Enter, Delete, Ctrl+P and Ctrl+R act on what is on screen.              *)
SelectedIsListed == IF rows = << >> THEN selected = NoRow ELSE selected \in IdsOf(rows)

(* The worker talks to somebody who is not the clippod it checked only     *)
(* while the news of that is there to be read, or if it could not watch    *)
(* the name.                                                               *)
TrustIsChecked == trusted /\ ~IsClippod(owner) => owners # << >> \/ ~watching

Said(type)  == \E i \in DOMAIN events : events[i].type = type
Asked(type) == \E i \in DOMAIN requests : requests[i].type = type

(* What makes the UI drop everything it cached of the daemon is on its way.*)
DropIsComing == ~watching \/ owners # << >> \/ Said("down") \/ Said("untrusted")

Live == KeysOf(history)

(* A picture drawn beside an entry that is there is that entry's own,      *)
(* though ids are given out again while requests and answers are on their  *)
(* way (model.rs:39).                                                      *)
PictureIsItsOwn ==
  DropIsComing \/ \A drawn \in OnScreen :
    drawn.row \in ToSet(history) => drawn.picture \subseteq {drawn.row.at}

(* A picture that was asked for is there or on its way: no dropped request *)
(* and no restart leaves a gap that nothing asks about again (app.rs:161). *)
PictureIsOnItsWay ==
  \A key \in asked \cap Live :
    \/ key \in DOMAIN decoded \/ DropIsComing \/ worker = "gone"
    \/ \E i \in DOMAIN requests : requests[i] = Thumbnail(key)
    \/ \E i \in DOMAIN events : events[i].type = "thumbnail" /\ events[i].key = key

(* The list on screen is what clippod answers, or news is on its way that  *)
(* will make it so.                                                        *)
ListIsComing ==
  \/ changed \/ owners # << >> \/ Said("up") \/ Asked("refresh") \/ Said("ready")
  \/ \E i \in DOMAIN events : events[i] = Entries(query, Answer(query))[1]

ListIsCurrent ==
  open /\ worker = "running" /\ watching /\ IsClippod(owner) /\ ~missed =>
    rows = Answer(query) \/ ListIsComing

(* As long as the rows are not an answer to what has been typed, the       *)
(* answer that will be puts the highlight on its best match: an overtaken  *)
(* one does not use that up (model.rs:218).                                *)
FreshRankingLandsOnTop == open /\ shown # query => landAtTop

(* Both of what the highlight is for, now and after the list that is       *)
(* awaited.                                                                *)
HighlightIsRight == SelectedIsListed /\ FreshRankingLandsOnTop

(* A revealed value is drawn in the row it was asked for, or the list that *)
(* says otherwise is on its way.                                           *)
DrawnIsTheRows ==
  worker = "running" /\ watching /\ IsClippod(owner) /\ ~missed =>
    ListIsComing \/ \A drawn \in OnScreen : drawn.value \subseteq {drawn.row.at}

(* Reveal's value lives no longer than the popup (model.rs:18).            *)
ClosedHoldsNothing == open \/ revealed = {}

(* Wherever the list was left, when the highlight has moved its row is on  *)
(* screen, or its top if it is taller than the list; and the list has not  *)
(* moved if the row was on screen already (app.rs:559).                    *)
RowIsShown ==
  LET heights == RowHeights
      content == ContentHeight(heights)
  IN  \A i \in RowOf(selected), viewport \in Viewports :
        \A offset \in {n \in 0..(content - viewport) : n % 10 = 0} :
          LET list == [viewport |-> viewport, offset |-> offset, scale |-> 1]
              to   == ScrolledTo(heights, i, list)
          IN  /\ IF heights[i] > viewport THEN to = RowTop(heights, i) ELSE Shows(heights, i, list, to)
              /\ Shows(heights, i, list, offset) => to = offset

ScrollShowsRow == [][selected' # selected /\ selected' # NoRow => RowIsShown']_vars

(* The picker's status becomes what the owner of the name deserves.        *)
StatusFor(o) ==
  CASE o = Absent -> "unavailable" [] o = Impostor -> "untrusted" [] OTHER -> "connected"

StatusSettles == <>[](watching /\ worker = "running" => status = StatusFor(owner))
=============================================================================
