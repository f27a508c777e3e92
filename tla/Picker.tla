------------------------------- MODULE Picker -------------------------------
(***************************************************************************)
(* clippo-applet's UI thread: the picker's model, its surface, its cache   *)
(* of thumbnails, and what each message does.  A message is handled to its *)
(* end before the next is looked at.  Requests go out by a bounded queue   *)
(* that is never waited for; what the bus worker has to say comes in by    *)
(* another.                                                                *)
(*                                                                         *)
(* An entry is known by its id, which is given out again, and by when it   *)
(* was captured (at), which is not; at also stands for its value and for   *)
(* its picture.                                                            *)
(***************************************************************************)
EXTENDS Subsequence, ListView

CONSTANTS
  Queries,      \* bound: what is typed into the search field
  Images,       \* the captures that are pictures
  RequestCap,   \* how many requests the queue holds
  Capacity      \* thumbs::CAPACITY

NoQuery == ""

ASSUME PickerAssumption ==
  /\ NoQuery \in Queries /\ Images \subseteq Nat
  /\ RequestCap \in Nat \ {0} /\ Capacity \in Nat

VARIABLES
  query, rows, selected, revealed, status, landAtTop,   \* model::Model
  open,         \* Picker::open names a surface
  asked,        \* Thumbnails::asked
  decoded,      \* Thumbnails::decoded, a function from keys to pictures
  link,         \* Clippo::requests is there
  inbox,        \* its receiver is still there
  requests,     \* requests the bus worker has yet to take
  events,       \* what the bus worker has said and the UI has yet to hear
  missed,       \* history variable: the latest refresh was not taken
  shown         \* history variable: the query the rows were an answer to

modelVars  == <<query, rows, selected, revealed, status, landAtTop, shown>>
thumbVars  == <<asked, decoded>>
queueVars  == <<requests, missed>>
pickerVars == <<modelVars, open, thumbVars, link, inbox, queueVars, events>>

NoRow    == 0
Statuses == {"connected", "unavailable", "untrusted"}

Row == [id : Nat \ {NoRow}, at : Nat]

(* Mutant: EntryKey without created_at.                                    *)
KeyById(row) == [id |-> row.id, at |-> 0]

(* EntryKey::of.                                                           *)
KeyOf(row) == [id |-> row.id, at |-> row.at]

KeysOf(list) == {KeyOf(list[i]) : i \in DOMAIN list}

IsImage(row) == row.at \in Images
IdsOf(list)  == {list[i].id : i \in DOMAIN list}

PickerTypeOK ==
  /\ query \in Queries /\ rows \in Seq(Row) /\ selected \in Nat
  /\ revealed \subseteq [id : Nat, value : Nat] /\ Cardinality(revealed) <= 1
  /\ status \in Statuses /\ landAtTop \in BOOLEAN
  /\ open \in BOOLEAN
  /\ asked \subseteq Row /\ DOMAIN decoded \subseteq Row
  /\ link \in BOOLEAN /\ inbox \in BOOLEAN /\ missed \in BOOLEAN
  /\ shown \in Queries
  /\ Len(requests) <= RequestCap

PickerInit ==
  /\ query = NoQuery /\ rows = << >> /\ selected = NoRow /\ revealed = {}
  /\ status = "connected" /\ landAtTop = FALSE
  /\ open = FALSE
  /\ asked = {} /\ decoded = << >>
  /\ link = FALSE /\ inbox = TRUE /\ requests = << >> /\ events = << >> /\ missed = FALSE
  /\ shown = NoQuery

-----------------------------------------------------------------------------
(* Requests.                                                               *)

Refresh(text)    == [type |-> "refresh", query |-> text]
Thumbnail(key)   == [type |-> "thumbnail", key |-> key]
About(type, id)  == [type |-> type, id |-> id]

(* Mutant: a queue that takes one more than it holds.                      *)
RoomForOneMore == IF link /\ inbox THEN RequestCap + 1 - Len(requests) ELSE 0

Room == IF link /\ inbox THEN RequestCap - Len(requests) ELSE 0

(* ask: try_send.  A request the queue has no room for is dropped.         *)
Ask(request) ==
  /\ requests' = IF Room > 0 THEN Append(requests, request) ELSE requests
  /\ missed' = IF request.type = "refresh" THEN Room = 0 ELSE missed

(* Mutant: a list that changed is left for the next time the picker opens. *)
RefreshNever == UNCHANGED queueVars

RefreshIfVisible == IF open THEN Ask(Refresh(query)) ELSE UNCHANGED queueVars

(* Thumbnails::wanted.                                                     *)
Wanted(list, known) ==
  LET missing == Keep(list, LAMBDA row : IsImage(row) /\ KeyOf(row) \notin known)
  IN  [i \in DOMAIN missing |-> KeyOf(missing[i])]

Smaller(m, n) == IF m < n THEN m ELSE n

(* Mutant: asked or not, every wanted key is marked.                       *)
FetchMarkingAll(list, known) ==
  LET wanted == Wanted(list, known)
      taken  == SubSeq(wanted, 1, Smaller(Room, Len(wanted)))
  IN  /\ requests' = requests \o [i \in DOMAIN taken |-> Thumbnail(taken[i])]
      /\ asked' = known \cup ToSet(wanted)

(* fetch_thumbnails stops at the first refusal; a key is marked once its   *)
(* request is in the queue.                                                *)
FetchThumbnails(list, known) ==
  LET wanted == Wanted(list, known)
      taken  == SubSeq(wanted, 1, Smaller(Room, Len(wanted)))
  IN  /\ requests' = requests \o [i \in DOMAIN taken |-> Thumbnail(taken[i])]
      /\ asked' = known \cup ToSet(taken)

-----------------------------------------------------------------------------
(* Model.                                                                  *)

RowOf(id) == {i \in DOMAIN rows : rows[i].id = id}

(* set_entries: the row the highlight lands on.                            *)
Land(list) ==
  LET previous == IF RowOf(selected) = {} THEN 1 ELSE CHOOSE i \in RowOf(selected) : TRUE
      landing  == IF landAtTop THEN 1 ELSE Smaller(previous, Len(list))
  IN  IF list = << >> THEN NoRow
      ELSE IF ~landAtTop /\ selected \in IdsOf(list) THEN selected
      ELSE list[landing].id

(* Mutant: what was revealed outlives the list it was read from.           *)
SetEntriesKeeping(answered, list) ==
  /\ rows' = list /\ selected' = Land(list) /\ shown' = answered
  /\ landAtTop' = FALSE
  /\ UNCHANGED <<query, status, revealed>>

SetEntries(answered, list) ==
  /\ rows' = list /\ selected' = Land(list) /\ shown' = answered
  /\ landAtTop' = FALSE /\ revealed' = {}
  /\ UNCHANGED <<query, status>>

SetStatus(to) ==
  /\ status' = to
  /\ IF to = "connected"
     THEN UNCHANGED <<rows, selected, revealed>>
     ELSE rows' = << >> /\ selected' = NoRow /\ revealed' = {}
  /\ UNCHANGED <<query, landAtTop, shown>>

-----------------------------------------------------------------------------
(* What is drawn (view.rs).                                                *)

Body ==
  IF ~open THEN "nothing"
  ELSE IF status # "connected" THEN status
  ELSE IF rows = << >> THEN "nothing here" ELSE "list"

(* Model::revealed: nothing, unless its row is the selected one.           *)
DrawnValue == {held.value : held \in {r \in revealed : r.id = selected}}

(* list and row: the value of the row that is highlighted, the picture of  *)
(* one whose picture there is.                                             *)
DrawnRow(row) ==
  [row     |-> row,
   value   |-> IF row.id = selected THEN DrawnValue ELSE {},
   picture |-> {decoded[key] : key \in {KeyOf(row)} \cap DOMAIN decoded}]

(* row_heights.                                                            *)
RowHeights == [i \in DOMAIN rows |-> RowHeight(IsImage(rows[i]), DrawnRow(rows[i]).picture # {})]

OnScreen == IF Body = "list" THEN {DrawnRow(rows[i]) : i \in DOMAIN rows} ELSE {}

-----------------------------------------------------------------------------
(* The surface.                                                            *)

Dismiss ==
  /\ open' = FALSE /\ revealed' = {}
  /\ UNCHANGED <<query, rows, selected, status, landAtTop, shown, thumbVars, link, inbox, queueVars>>

Present ==
  /\ query' = NoQuery /\ landAtTop' = TRUE
  /\ open' = TRUE
  /\ Ask(Refresh(NoQuery))
  /\ UNCHANGED <<rows, selected, revealed, status, shown, thumbVars, link, inbox>>

Toggle == IF open THEN Dismiss ELSE Present

-----------------------------------------------------------------------------
(* What the user and the compositor do.                                    *)

IconPressed == Toggle /\ UNCHANGED events

(* Closed by the compositor, or without the keyboard.  Of any other        *)
(* surface than the one that is open there is nothing to be done.          *)
SurfaceGone == open /\ Dismiss /\ UNCHANGED events

QueryChanged(text) ==
  /\ open
  /\ query' = text /\ landAtTop' = (landAtTop \/ text # query)
  /\ Ask(Refresh(text))
  /\ UNCHANGED <<rows, selected, revealed, status, shown, open, thumbVars, link, inbox, events>>

(* activate: ask for the paste, then close.  With nothing highlighted it   *)
(* does neither.                                                           *)
Activate(id) ==
  /\ selected' = id
  /\ IF id = NoRow
     THEN UNCHANGED <<revealed, open, queueVars>>
     ELSE /\ Ask(About("paste", id))
          /\ open' = FALSE /\ revealed' = {}
  /\ UNCHANGED <<query, rows, status, landAtTop, shown, thumbVars, link, inbox, events>>

(* A click on a row that has left the list since is a click on the one     *)
(* that is highlighted.                                                    *)
Chose(id) == open /\ Activate(IF id \in IdsOf(rows) THEN id ELSE selected)
Enter     == open /\ Activate(selected)

(* select_previous and select_next.                                        *)
Step(from, down) ==
  IF down THEN Smaller(from + 1, Len(rows)) ELSE IF from > 1 THEN from - 1 ELSE 1

Move(down) ==
  /\ open
  /\ \E from \in RowOf(selected) : selected' = rows[Step(from, down)].id
  /\ UNCHANGED <<query, rows, revealed, status, landAtTop, shown, open, thumbVars, link, inbox, queueVars, events>>

(* Delete, Ctrl+P and Ctrl+R ask about the selected row and wait for       *)
(* nothing.                                                                *)
AskAbout(request) ==
  /\ open
  /\ Ask(request)
  /\ UNCHANGED <<modelVars, open, thumbVars, link, inbox, events>>

Delete    == selected # NoRow /\ AskAbout(About("delete", selected))
Reveal    == selected # NoRow /\ AskAbout(About("reveal", selected))
TogglePin == selected # NoRow /\ AskAbout(About("pin", selected))

-----------------------------------------------------------------------------
(* on_bus: what the worker has to say.                                     *)

Hear(type) == events # << >> /\ Head(events).type = type /\ events' = Tail(events)

OnReady ==
  /\ Hear("ready")
  /\ link' = TRUE
  /\ IF open /\ inbox
     THEN requests' = <<Refresh(query)>> /\ missed' = FALSE
     ELSE UNCHANGED queueVars
  /\ UNCHANGED <<modelVars, open, thumbVars, inbox>>

(* Thumbnails::prune: only once there is more than is worth keeping.       *)
Prune(list) ==
  IF Cardinality(DOMAIN decoded) <= Capacity /\ Cardinality(asked) <= Capacity
  THEN [asked |-> asked, decoded |-> decoded]
  ELSE [asked   |-> asked \cap KeysOf(list),
        decoded |-> [key \in DOMAIN decoded \cap KeysOf(list) |-> decoded[key]]]

(* Mutant: an answer to a query that has been typed over is drawn.         *)
AcceptsAny(text) == TRUE

Accepts(text) == text = query

OnEntries ==
  /\ Hear("entries")
  /\ LET answer == Head(events)
         kept   == Prune(answer.rows)
     IN  IF Accepts(answer.query)
         THEN /\ SetEntries(answer.query, answer.rows)
              /\ decoded' = kept.decoded
              /\ FetchThumbnails(answer.rows, kept.asked)
         ELSE UNCHANGED <<modelVars, thumbVars, requests>>
  /\ UNCHANGED <<open, link, inbox, missed>>

OnRevealed ==
  /\ Hear("revealed")
  /\ revealed' = {[id |-> Head(events).id, value |-> Head(events).value]}
  /\ UNCHANGED <<query, rows, selected, status, landAtTop, shown, open, thumbVars, link, inbox, queueVars>>

(* Thumbnails::store, and the next of what is wanted.                      *)
OnThumbnail ==
  /\ Hear("thumbnail")
  /\ LET answer == Head(events)
     IN  decoded' = [key \in DOMAIN decoded \cup {answer.key : p \in answer.picture} |->
                       IF key = answer.key /\ answer.picture # {}
                       THEN CHOOSE p \in answer.picture : TRUE ELSE decoded[key]]
  /\ FetchThumbnails(rows, asked)
  /\ UNCHANGED <<modelVars, open, link, inbox, missed>>

OnToggle == Hear("toggle") /\ Toggle

OnDaemonUp ==
  /\ Hear("up")
  /\ SetStatus("connected") /\ RefreshIfVisible
  /\ UNCHANGED <<open, thumbVars, link, inbox>>

OnDaemonGone ==
  /\ \/ Hear("down") /\ SetStatus("unavailable")
     \/ Hear("untrusted") /\ SetStatus("untrusted")
  /\ asked' = {} /\ decoded' = << >>
  /\ UNCHANGED <<open, link, inbox, queueVars>>

OnFailed == Hear("failed") /\ UNCHANGED <<modelVars, open, thumbVars, link, inbox, queueVars>>

OnBus ==
  \/ OnReady \/ OnEntries \/ OnRevealed \/ OnThumbnail
  \/ OnToggle \/ OnDaemonUp \/ OnDaemonGone \/ OnFailed
=============================================================================
