---------------------------- MODULE AppletProofs ----------------------------
(***************************************************************************)
(* What holds of the applet for every queue, history and desktop: when its *)
(* worker's trust in the owner of clippod's name can be out of date, and   *)
(* where the highlight lands when a list comes in.                         *)
(***************************************************************************)
EXTENDS Applet, RulesProofs

(* Nobody is trusted before the owner has been asked for, and the worker   *)
(* never comes back.                                                       *)
TrustIsEarned == trusted => worker = "running"

TrustInv == TrustIsChecked /\ TrustIsEarned

LEMMA Initially == Init => TrustInv
BY DEF Init, TrustInv, TrustIsChecked, TrustIsEarned

(* An owner that is judged to be up is clippod and has the name still.     *)
LEMMA UpIsClippod ==
  ASSUME NEW o, Judged(o) = "up"
  PROVE  o = owner /\ IsClippod(o)
<1> DEFINE verdict == OwnerOf(IF o = Absent THEN {} ELSE {Evidence(o)}, Allowed)
<1>1. verdict = "trusted"
  BY DEF Judged
<1>2. o # Absent
  BY <1>1 DEF OwnerOf
<1>3. verdict = OwnerOf({Evidence(o)}, Allowed)
  BY <1>2
<1>4. Judge(Evidence(o), Allowed) = "peer"
  BY <1>1, <1>3 DEF OwnerOf
<1>5. Evidence(o).pid # {} /\ Evidence(o).exe \subseteq Allowed
  BY <1>4 DEF Judge
<1>6. o = owner
  BY <1>5 DEF Evidence
<1>7. \A path \in Allowed : path.name \in Binaries
  BY DEF Allowed, Policy, Installed
<1>8. IsClippod(o)
  BY <1>5, <1>7 DEF Evidence, Binaries
<1> QED
  BY <1>6, <1>8

(* News of a change of owner is there to be read as soon as there is one.  *)
LEMMA NameGoesWithNews ==
  ASSUME TrustInv, NEW o, NameGoesTo(o)
  PROVE  TrustInv'
<1>1. UNCHANGED <<worker, watching, trusted>>
  BY DEF NameGoesTo, UnchangedApplet, workerVars
<1>2. CASE watching /\ worker # "gone"
  <2>1. owners' = Append(owners, o)
    BY <1>2 DEF NameGoesTo
  <2>2. owners' # << >>
    BY <2>1
  <2> QED
    BY <1>1, <2>2 DEF TrustInv, TrustIsChecked, TrustIsEarned
<1>3. CASE ~watching \/ worker = "gone"
  BY <1>1, <1>3 DEF TrustInv, TrustIsChecked, TrustIsEarned
<1> QED
  BY <1>2, <1>3

LEMMA DesktopKeepsTrust ==
  ASSUME TrustInv, Desktop
  PROVE  TrustInv'
<1>1. CASE Copied \/ Removed \/ ImpostorAnnounces
  BY <1>1 DEF Copied, Removed, ImpostorAnnounces, UnchangedApplet, workerVars, daemonVars,
     TrustInv, TrustIsChecked, TrustIsEarned
<1>2. CASE ClippodStarts \/ ImpostorTakes \/ NameIsLeft
  BY <1>2, NameGoesWithNews DEF ClippodStarts, ImpostorTakes, NameIsLeft
<1> QED
  BY <1>1, <1>2 DEF Desktop

LEMMA WorkerKeepsTrust ==
  ASSUME TrustInv, Worker
  PROVE  TrustInv'
<1> USE DEF TrustInv, TrustIsChecked, TrustIsEarned
<1>1. CASE StartWorker \/ FailToConnect \/ Subscribe \/ WatchName
  BY <1>1 DEF StartWorker, FailToConnect, Subscribe, WatchName, workerVars, signalVars, daemonVars
<1>2. CASE AskOwner
  BY <1>2, UpIsClippod DEF AskOwner, signalVars, daemonVars
<1>3. CASE Serve \/ HearHistoryChanged
  BY <1>3 DEF Serve, HearHistoryChanged, workerVars, daemonVars
<1>4. CASE HearOwner
  BY <1>4, UpIsClippod DEF HearOwner, daemonVars
<1> QED
  BY <1>1, <1>2, <1>3, <1>4 DEF Worker

LEMMA Inductive == TrustInv /\ [Next]_vars => TrustInv'
<1> SUFFICES ASSUME TrustInv, [Next]_vars PROVE TrustInv'
  OBVIOUS
<1> USE DEF TrustInv, TrustIsChecked, TrustIsEarned
<1>1. CASE (Keys /\ Others) \/ Hears
  BY <1>1 DEF Hears, Others, workerVars, signalVars, daemonVars
<1>2. CASE HearToggle
  BY <1>2 DEF HearToggle, workerVars, signalVars, daemonVars
<1>3. CASE UNCHANGED vars
  BY <1>3 DEF vars, system, workerVars, signalVars, daemonVars
<1> QED
  BY <1>1, <1>2, <1>3, DesktopKeepsTrust, WorkerKeepsTrust DEF Next

(* Requests go to a peer that is not the clippod the worker has checked    *)
(* only until it reads the news that the name changed hands (bus.rs        *)
(* next_owner, judged), unless the name could not be watched.              *)
THEOREM TrustAlwaysChecked == Spec => []TrustIsChecked
<1>1. TrustInv => TrustIsChecked
  BY DEF TrustInv
<1> QED
  BY <1>1, Initially, Inductive, PTL DEF Spec

-----------------------------------------------------------------------------
(* Whatever list comes in, the highlight is on one of its rows, or nowhere *)
(* if it has none (model.rs set_entries).                                  *)
THEOREM HighlightLands ==
  ASSUME rows \in Seq(Row), NEW list \in Seq(Row), NEW text, SetEntries(text, list)
  PROVE  SelectedIsListed'
<1>1. rows' = list /\ selected' = Land(list)
  BY DEF SetEntries
<1>2. CASE list = << >>
  BY <1>1, <1>2 DEF Land, SelectedIsListed
<1>3. CASE list # << >>
  <2>1. Land(list) \in IdsOf(list)
    <3> DEFINE previous == IF RowOf(selected) = {} THEN 1 ELSE CHOOSE i \in RowOf(selected) : TRUE
               landing  == IF landAtTop THEN 1 ELSE Smaller(previous, Len(list))
    <3>1. Len(list) \in Nat /\ Len(list) >= 1 /\ DOMAIN list = 1..Len(list)
      BY <1>3
    <3>2. previous \in Nat /\ previous >= 1
      BY DEF RowOf
    <3>3. landing \in DOMAIN list
      <4> HIDE DEF previous
      <4> QED
        BY <3>1, <3>2 DEF Smaller
    <3>4. list[landing].id \in IdsOf(list)
      <4> HIDE DEF landing
      <4> QED
        BY <3>3 DEF IdsOf
    <3>5. Land(list) = IF ~landAtTop /\ selected \in IdsOf(list) THEN selected ELSE list[landing].id
      BY <1>3 DEF Land
    <3> QED
      BY <3>4, <3>5
  <2> QED
    BY <1>1, <1>3, <2>1 DEF SelectedIsListed
<1> QED
  BY <1>2, <1>3

(* A step of the arrow keys goes to a row that is there (model.rs          *)
(* select_next, select_previous).                                          *)
THEOREM StepStaysOnTheList ==
  ASSUME rows \in Seq(Row), NEW from \in DOMAIN rows, NEW down \in BOOLEAN
  PROVE  Step(from, down) \in DOMAIN rows
<1>1. Len(rows) \in Nat /\ DOMAIN rows = 1..Len(rows) /\ from \in Nat
  OBVIOUS
<1> QED
  BY <1>1 DEF Step, Smaller

-----------------------------------------------------------------------------
(* Rows, queues and lists.                                                 *)

(* The rows there have been so far, and those that are pictures.           *)
KnownRow(n) == [id : Nat \ {NoRow}, at : 0..n]
Pictures(R) == {row \in R : row.at \in Images}

Saying == {"ready", "failed", "down", "up", "untrusted", "toggle"}

Event(R) ==
  [type : Saying]
  \cup [type : {"entries"}, query : Queries, rows : Seq(R)]
  \cup [type : {"revealed"}, id : Nat, value : Nat]
  \cup [type : {"thumbnail"}, key : Pictures(R), picture : SUBSET Nat]

Request(R) ==
  [type : {"refresh"}, query : Queries]
  \cup [type : {"thumbnail"}, key : Pictures(R)]
  \cup [type : Acts \cup {"reveal"}, id : Nat]

Queues(R) ==
  /\ events \in Seq(Event(R)) /\ Len(events) <= EventCap + 2
  /\ requests \in Seq(Request(R)) /\ Len(requests) <= RequestCap

LEMMA EventFacts ==
  ASSUME NEW R, NEW e \in Event(R)
  PROVE  /\ e.type \in Saying \cup {"entries", "revealed", "thumbnail"}
         /\ e.type \in Saying => e = [type |-> e.type]
         /\ e.type = "entries" =>
              /\ e.query \in Queries /\ e.rows \in Seq(R)
              /\ e = [type |-> "entries", query |-> e.query, rows |-> e.rows]
         /\ e.type = "revealed" => e.id \in Nat /\ e.value \in Nat
         /\ e.type = "thumbnail" => e.key \in Pictures(R) /\ e.picture \in SUBSET Nat
<1> HIDE DEF Pictures
<1> QED
  BY DEF Event, Saying

LEMMA RequestFacts ==
  ASSUME NEW R, NEW r \in Request(R)
  PROVE  /\ r.type \in Acts \cup {"reveal", "refresh", "thumbnail"}
         /\ r.type = "refresh" => r.query \in Queries /\ r = Refresh(r.query)
         /\ r.type = "thumbnail" => r.key \in Pictures(R) /\ r = Thumbnail(r.key)
         /\ r.type \in Acts \cup {"reveal"} => r.id \in Nat
<1> HIDE DEF Pictures
<1> QED
  BY DEF Request, Acts, Refresh, Thumbnail

LEMMA RestIs ==
  ASSUME NEW S, NEW s \in Seq(S), s # << >>
  PROVE  /\ Tail(s) \in Seq(S) /\ Len(Tail(s)) = Len(s) - 1 /\ Len(s) \in Nat /\ Len(s) >= 1
         /\ DOMAIN s = 1..Len(s) /\ DOMAIN Tail(s) = 1..(Len(s) - 1)
         /\ \A i \in 1..(Len(s) - 1) : Tail(s)[i] = s[i + 1]
         /\ Head(s) = s[1] /\ s[1] \in S
<1>1. Len(s) \in Nat /\ Len(s) >= 1 /\ Head(s) = s[1] /\ s[1] \in S /\ DOMAIN s = 1..Len(s)
  OBVIOUS
<1>2. /\ Tail(s) \in Seq(S) /\ Len(Tail(s)) = Len(s) - 1
      /\ \A i \in 1..(Len(s) - 1) : Tail(s)[i] = s[i + 1]
  BY HeadTailProperties
<1>3. DOMAIN Tail(s) = 1..(Len(s) - 1)
  BY <1>2
<1> QED
  BY <1>1, <1>2, <1>3

LEMMA OneMore ==
  ASSUME NEW S, NEW s \in Seq(S), NEW e \in S
  PROVE  /\ Append(s, e) \in Seq(S) /\ Len(Append(s, e)) = Len(s) + 1 /\ Len(s) \in Nat
         /\ DOMAIN s = 1..Len(s) /\ DOMAIN Append(s, e) = 1..(Len(s) + 1)
         /\ \A i \in 1..Len(s) : Append(s, e)[i] = s[i]
         /\ Append(s, e)[Len(s) + 1] = e
<1>1. Len(s) \in Nat /\ DOMAIN s = 1..Len(s)
  OBVIOUS
<1>2. /\ Append(s, e) \in Seq(S) /\ Len(Append(s, e)) = Len(s) + 1
      /\ \A i \in 1..Len(s) : Append(s, e)[i] = s[i]
      /\ Append(s, e)[Len(s) + 1] = e
  BY AppendProperties
<1>3. DOMAIN Append(s, e) = 1..(Len(s) + 1)
  BY <1>1, <1>2
<1> QED
  BY <1>1, <1>2, <1>3

(* The first n of a sequence, or all of it.                                *)
LEMMA FirstOf ==
  ASSUME NEW S, NEW s \in Seq(S), NEW n \in Nat
  PROVE  LET m == Smaller(n, Len(s))
             first == SubSeq(s, 1, m)
         IN  /\ m \in Nat /\ m <= n /\ m <= Len(s)
             /\ first \in Seq(S) /\ Len(first) = m /\ DOMAIN first = 1..m
             /\ \A i \in 1..m : first[i] = s[i]
<1> DEFINE m == Smaller(n, Len(s))
<1>1. Len(s) \in Nat /\ \A i \in 1..Len(s) : s[i] \in S
  OBVIOUS
<1>2. m \in Nat /\ m <= n /\ m <= Len(s)
  BY <1>1 DEF Smaller
<1> HIDE DEF m
<1>3. \A i \in 1..m : s[i] \in S
  BY <1>1, <1>2
<1>4. /\ SubSeq(s, 1, m) \in Seq(S) /\ Len(SubSeq(s, 1, m)) = m
      /\ \A i \in 1..m : SubSeq(s, 1, m)[i] = s[i]
  <2>1. SubSeq(s, 1, m) = [i \in 1..m |-> s[i]]
    BY <1>2
  <2>2. [i \in 1..m |-> s[i]] \in [1..m -> S]
    BY <1>3
  <2> QED
    BY <2>1, <2>2, <1>2
<1>5. DOMAIN SubSeq(s, 1, m) = 1..m
  BY <1>2, <1>4
<1> QED
  BY <1>2, <1>4, <1>5 DEF m

(* All but one of a sequence.                                              *)
LEMMA OneLess ==
  ASSUME NEW S, NEW s \in Seq(S), NEW i \in DOMAIN s
  PROVE  /\ RemoveAt(s, i) \in Seq(S) /\ Len(s) \in Nat /\ DOMAIN s = 1..Len(s)
         /\ DOMAIN RemoveAt(s, i) = 1..(Len(s) - 1)
         /\ \A k \in 1..(Len(s) - 1) : RemoveAt(s, i)[k] = IF k < i THEN s[k] ELSE s[k + 1]
<1> DEFINE a == SubSeq(s, 1, i - 1)
           b == SubSeq(s, i + 1, Len(s))
           L == Len(s)
<1>1. L \in Nat /\ DOMAIN s = 1..L /\ i \in 1..L /\ i \in Nat /\ \A k \in 1..L : s[k] \in S
  OBVIOUS
<1>2. a \in Seq(S) /\ Len(a) = i - 1 /\ \A k \in 1..(i - 1) : a[k] = s[k]
  <2>1. i - 1 \in Int /\ \A k \in 1..(i - 1) : s[k] \in S
    BY <1>1
  <2>2. /\ a \in Seq(S) /\ Len(a) = IF 1 <= i - 1 THEN (i - 1) - 1 + 1 ELSE 0
        /\ \A k \in 1..((i - 1) - 1 + 1) : a[k] = s[1 + k - 1]
    BY <2>1, SubSeqProperties
  <2>3. \A k \in 1..(i - 1) : k \in 1..((i - 1) - 1 + 1) /\ 1 + k - 1 = k
    BY <1>1
  <2> HIDE DEF a
  <2> QED
    BY <2>2, <2>3, <1>1
<1>3. b \in Seq(S) /\ Len(b) = L - i /\ \A k \in 1..(L - i) : b[k] = s[k + i]
  <2>1. i + 1 \in Int /\ L \in Int /\ \A k \in (i + 1)..L : s[k] \in S
    BY <1>1
  <2>2. /\ b \in Seq(S) /\ Len(b) = IF i + 1 <= L THEN L - (i + 1) + 1 ELSE 0
        /\ \A k \in 1..(L - (i + 1) + 1) : b[k] = s[(i + 1) + k - 1]
    BY <2>1, SubSeqProperties
  <2>3. \A k \in 1..(L - i) : k \in 1..(L - (i + 1) + 1) /\ (i + 1) + k - 1 = k + i
    BY <1>1
  <2> HIDE DEF b
  <2> QED
    BY <2>2, <2>3, <1>1
<1> HIDE DEF a, b, L
<1>7. a \in Seq(S) /\ Len(a) = i - 1 /\ b \in Seq(S) /\ Len(b) = L - i
  BY <1>2, <1>3
<1>8. /\ a \o b \in Seq(S) /\ DOMAIN (a \o b) = 1..(Len(a) + Len(b))
      /\ \A k \in 1..Len(a) : (a \o b)[k] = a[k]
      /\ \A k \in 1..Len(b) : (a \o b)[Len(a) + k] = b[k]
  <2>1. a \in Seq(S) /\ b \in Seq(S)
    BY <1>7
  <2> QED
    BY <2>1, JoinedAt
<1>9. Len(a) + Len(b) = L - 1
  BY <1>1, <1>7
<1>10. ASSUME NEW k \in 1..(L - 1) PROVE (a \o b)[k] = IF k < i THEN s[k] ELSE s[k + 1]
  <2>1. CASE k < i
    <3>1. k \in 1..(i - 1)
      BY <2>1, <1>1
    <3> QED
      BY <2>1, <3>1, <1>2, <1>8
  <2>2. CASE ~(k < i)
    <3>1. k + 1 - i \in 1..(L - i) /\ (i - 1) + (k + 1 - i) = k /\ (k + 1 - i) + i = k + 1
      BY <2>2, <1>1
    <3>2. (a \o b)[(i - 1) + (k + 1 - i)] = b[k + 1 - i]
      BY <3>1, <1>7, <1>8
    <3>3. b[k + 1 - i] = s[(k + 1 - i) + i]
      BY <3>1, <1>3
    <3> QED
      BY <2>2, <3>1, <3>2, <3>3
  <2> QED
    BY <2>1, <2>2
<1>11. RemoveAt(s, i) = a \o b
  BY DEF RemoveAt, a, b
<1> QED
  BY <1>1, <1>8, <1>9, <1>10, <1>11 DEF L

(* What the worker says goes to the end of what the UI has yet to hear.    *)
LEMMA EmittedIs ==
  ASSUME NEW R, Queues(R), NEW list \in Seq(Event(R)), Len(list) \in {1, 2}, Emit(list)
  PROVE  /\ events' \in Seq(Event(R)) /\ Len(events') <= EventCap + 2
         /\ Len(events) \in Nat /\ Len(list) \in Nat
         /\ DOMAIN events = 1..Len(events) /\ DOMAIN events' = 1..(Len(events) + Len(list))
         /\ \A i \in 1..Len(events) : events'[i] = events[i]
         /\ \A i \in 1..Len(list) : events'[Len(events) + i] = list[i]
<1>1. events' = events \o list /\ Len(events) <= EventCap
  BY DEF Emit
<1>2. events \in Seq(Event(R)) /\ list \in Seq(Event(R))
  BY DEF Queues
<1>3. /\ events' \in Seq(Event(R)) /\ Len(events') = Len(events) + Len(list)
      /\ DOMAIN events' = 1..(Len(events) + Len(list))
      /\ Len(events) \in Nat /\ Len(list) \in Nat
      /\ \A i \in 1..Len(events) : events'[i] = events[i]
      /\ \A i \in 1..Len(list) : events'[Len(events) + i] = list[i]
  BY <1>1, <1>2, JoinedAt
<1>4. DOMAIN events = 1..Len(events)
  BY <1>2
<1>5. Len(events') <= EventCap + 2
  <2>1. EventCap \in Nat
    BY AppletAssumption
  <2>2. CASE Len(list) = 1
    BY <1>1, <1>3, <2>1, <2>2
  <2>3. CASE Len(list) = 2
    BY <1>1, <1>3, <2>1, <2>3
  <2> QED
    BY <2>2, <2>3
<1> QED
  BY <1>3, <1>4, <1>5

LEMMA SaysIsEvents ==
  ASSUME NEW R, NEW type \in Saying
  PROVE  Says(type) \in Seq(Event(R)) /\ Len(Says(type)) = 1 /\ Says(type)[1] = [type |-> type]
<1>1. [type |-> type] \in Event(R)
  BY DEF Event
<1> QED
  BY <1>1 DEF Says

(* A key is the row it was made of.                                        *)
LEMMA KeyIsRow ==
  ASSUME NEW row \in Row
  PROVE  KeyOf(row) = row
BY DEF Row, KeyOf

LEMMA KeysAreRows ==
  ASSUME NEW R \in SUBSET Row, NEW list \in Seq(R)
  PROVE  KeysOf(list) \in SUBSET R /\ KeysOf(list) = {list[i] : i \in DOMAIN list}
<1> HIDE DEF Row
<1>1. \A i \in DOMAIN list : list[i] \in R
  OBVIOUS
<1>2. \A i \in DOMAIN list : KeyOf(list[i]) = list[i]
  BY <1>1, KeyIsRow
<1> QED
  BY <1>1, <1>2 DEF KeysOf

(* The keys Thumbnails::wanted finds are those of pictures the list shows  *)
(* that have not been asked for.                                           *)
LEMMA WantedIs ==
  ASSUME NEW R \in SUBSET Row, NEW list \in Seq(R), NEW known
  PROVE  /\ Wanted(list, known) \in Seq(R)
         /\ \A i \in DOMAIN Wanted(list, known) :
              /\ Wanted(list, known)[i] \in KeysOf(list) \cap Pictures(R)
              /\ Wanted(list, known)[i] \notin known
<1> HIDE DEF Row
<1> DEFINE places  == {i \in DOMAIN list : IsImage(list[i]) /\ KeyOf(list[i]) \notin known}
           missing == SubsequenceAt(list, places)
           wanted  == [i \in DOMAIN missing |-> KeyOf(missing[i])]
<1>1. Wanted(list, known) = wanted
  BY DEF Wanted, Keep
<1>2. places \in SUBSET DOMAIN list
  OBVIOUS
<1> HIDE DEF places
<1>3. /\ missing \in Seq(R) /\ DOMAIN missing = 1..Cardinality(places)
      /\ Cardinality(places) \in Nat
      /\ \A k \in DOMAIN missing : Nth(places, k) \in places /\ missing[k] = list[Nth(places, k)]
  BY <1>2, FilterKeepsPlaces
<1> HIDE DEF missing
<1>4. \A k \in DOMAIN missing : missing[k] \in R
  BY <1>3
<1>5. \A k \in DOMAIN missing : KeyOf(missing[k]) = missing[k]
  BY <1>4, KeyIsRow
<1>6. wanted \in Seq(R) /\ DOMAIN wanted = DOMAIN missing
  BY <1>3, <1>4, <1>5
<1>7. ASSUME NEW k \in DOMAIN missing
      PROVE  wanted[k] \in KeysOf(list) \cap Pictures(R) /\ wanted[k] \notin known
  <2>1. PICK i \in places : missing[k] = list[i]
    BY <1>3
  <2>2. i \in DOMAIN list /\ KeyOf(list[i]) \notin known /\ list[i].at \in Images
    BY <2>1, <1>2 DEF places, IsImage
  <2>3. wanted[k] = list[i] /\ wanted[k] \in R
    BY <2>1, <1>4, <1>5
  <2> QED
    BY <2>1, <2>2, <2>3, <1>5 DEF KeysOf, Pictures
<1> QED
  BY <1>1, <1>6, <1>7

(* fetch_thumbnails: what it marks as asked for it has asked for, behind   *)
(* what was in the queue; and a queue that is not there takes nothing.     *)
LEMMA FetchIs ==
  ASSUME NEW R \in SUBSET Row, Queues(R), NEW list \in Seq(R), NEW known \in SUBSET Pictures(R),
         FetchThumbnails(list, known)
  PROVE  /\ requests' \in Seq(Request(R)) /\ Len(requests') <= RequestCap
         /\ asked' \in SUBSET Pictures(R) /\ known \subseteq asked'
         /\ asked' \subseteq known \cup KeysOf(list)
         /\ Len(requests) \in Nat /\ Len(requests') \in Nat /\ Len(requests) <= Len(requests')
         /\ \A i \in 1..Len(requests) : requests'[i] = requests[i]
         /\ \A i \in (Len(requests) + 1)..Len(requests') :
              \E key \in KeysOf(list) \cap Pictures(R) : requests'[i] = Thumbnail(key)
         /\ \A key \in asked' \ known : \E i \in DOMAIN requests' : requests'[i] = Thumbnail(key)
         /\ ~(link /\ inbox) => requests' = requests /\ asked' = known
<1> HIDE DEF Row
<1> DEFINE wanted == Wanted(list, known)
           taken  == SubSeq(wanted, 1, Smaller(Room, Len(wanted)))
           more   == [i \in DOMAIN taken |-> Thumbnail(taken[i])]
<1>1. /\ wanted \in Seq(R)
      /\ \A i \in DOMAIN wanted : wanted[i] \in KeysOf(list) \cap Pictures(R)
  BY WantedIs
<1>2. requests \in Seq(Request(R)) /\ Len(requests) \in Nat /\ Len(requests) <= RequestCap
  BY DEF Queues
<1>3. Room \in Nat /\ Room <= RequestCap - Len(requests) /\ (~(link /\ inbox) => Room = 0)
  BY <1>2, PickerAssumption DEF Room
<1>4. requests' = requests \o more /\ asked' = known \cup ToSet(taken)
  BY DEF FetchThumbnails
<1> HIDE DEF wanted
<1>5. /\ taken \in Seq(R) /\ Len(taken) \in Nat /\ Len(taken) <= Room
      /\ DOMAIN taken = 1..Len(taken) /\ Len(taken) <= Len(wanted)
      /\ \A i \in 1..Len(taken) : taken[i] = wanted[i]
  BY <1>1, <1>3, FirstOf
<1> HIDE DEF taken
<1>6. \A i \in 1..Len(taken) : taken[i] \in KeysOf(list) \cap Pictures(R)
  BY <1>1, <1>5
<1>8. ASSUME NEW key \in Pictures(R) PROVE Thumbnail(key) \in Request(R)
  BY DEF Thumbnail, Request
<1>9. /\ more \in Seq(Request(R)) /\ Len(more) = Len(taken) /\ DOMAIN more = 1..Len(taken)
      /\ \A i \in 1..Len(taken) : more[i] = Thumbnail(taken[i])
  BY <1>5, <1>6, <1>8
<1> HIDE DEF more
<1>10. ToSet(taken) = {taken[i] : i \in 1..Len(taken)}
  BY <1>5 DEF ToSet
<1>11. /\ requests' \in Seq(Request(R)) /\ Len(requests') = Len(requests) + Len(more)
       /\ DOMAIN requests' = 1..(Len(requests) + Len(more))
       /\ \A i \in 1..Len(requests) : requests'[i] = requests[i]
       /\ \A i \in 1..Len(more) : requests'[Len(requests) + i] = more[i]
  <2>1. requests \in Seq(Request(R)) /\ more \in Seq(Request(R))
    BY <1>2, <1>9
  <2> QED
    BY <2>1, <1>4, JoinedAt
<1>12. /\ Len(requests') <= RequestCap /\ Len(requests') \in Nat
       /\ Len(requests) <= Len(requests')
  BY <1>2, <1>3, <1>5, <1>9, <1>11, PickerAssumption
<1>13. /\ asked' \in SUBSET Pictures(R) /\ known \subseteq asked' /\ asked' \subseteq known \cup KeysOf(list)
  BY <1>4, <1>6, <1>10
<1>14. ASSUME NEW i \in (Len(requests) + 1)..Len(requests')
       PROVE  \E key \in KeysOf(list) \cap Pictures(R) : requests'[i] = Thumbnail(key)
  <2>1. i - Len(requests) \in 1..Len(more) /\ Len(requests) + (i - Len(requests)) = i
    BY <1>2, <1>5, <1>9, <1>11
  <2> QED
    BY <2>1, <1>6, <1>9, <1>11
<1>15. ASSUME NEW key \in asked' \ known
       PROVE  \E i \in DOMAIN requests' : requests'[i] = Thumbnail(key)
  <2>1. PICK j \in 1..Len(taken) : key = taken[j]
    BY <1>4, <1>10
  <2>2. Len(requests) + j \in DOMAIN requests' /\ requests'[Len(requests) + j] = Thumbnail(key)
    BY <2>1, <1>2, <1>5, <1>9, <1>11
  <2> QED
    BY <2>2
<1>16. ASSUME ~(link /\ inbox) PROVE requests' = requests /\ asked' = known
  <2>1. Len(taken) = 0
    BY <1>3, <1>5, <1>16
  <2>2. more = << >>
    BY <2>1, <1>9
  <2>3. ToSet(taken) = {}
    BY <2>1, <1>10
  <2> QED
    BY <2>2, <2>3, <1>2, <1>4
<1> QED
  BY <1>2, <1>11, <1>12, <1>13, <1>14, <1>15, <1>16

(* ask: a request is the last of the queue, or it is dropped.              *)
LEMMA AskIs ==
  ASSUME NEW R, Queues(R), NEW request \in Request(R), Ask(request)
  PROVE  /\ requests' \in Seq(Request(R)) /\ Len(requests') <= RequestCap
         /\ Len(requests) \in Nat
         /\ \/ requests' = requests /\ (request.type = "refresh" => missed')
            \/ /\ Len(requests') = Len(requests) + 1
               /\ \A i \in 1..Len(requests) : requests'[i] = requests[i]
               /\ requests'[Len(requests) + 1] = request
               /\ link /\ inbox /\ (request.type = "refresh" => ~missed')
         /\ missed' \in {TRUE, FALSE, missed}
<1>1. requests \in Seq(Request(R)) /\ Len(requests) \in Nat /\ Len(requests) <= RequestCap
  BY DEF Queues
<1>2. Room \in Nat /\ Room <= RequestCap - Len(requests) /\ (~(link /\ inbox) => Room = 0)
  BY <1>1, PickerAssumption DEF Room
<1>3. /\ Append(requests, request) \in Seq(Request(R))
      /\ Len(Append(requests, request)) = Len(requests) + 1
      /\ \A i \in 1..Len(requests) : Append(requests, request)[i] = requests[i]
      /\ Append(requests, request)[Len(requests) + 1] = request
  BY <1>1, OneMore
<1>4. missed' \in {TRUE, FALSE, missed}
  BY DEF Ask
<1>5. CASE Room > 0
  <2>1. Len(requests) + 1 <= RequestCap
    BY <1>1, <1>2, <1>5, PickerAssumption
  <2>2. requests' = Append(requests, request) /\ (request.type = "refresh" => ~missed')
    <3>1. requests' = Append(requests, request)
      BY <1>5 DEF Ask
    <3>2. ~(Room = 0)
      BY <1>2, <1>5
    <3> QED
      BY <3>1, <3>2, Zenon DEF Ask
  <2>3. link /\ inbox
    BY <1>2, <1>5
  <2> QED
    BY <1>1, <1>3, <1>4, <2>1, <2>2, <2>3
<1>6. CASE ~(Room > 0)
  <2>1. requests' = requests /\ (request.type = "refresh" => missed')
    <3>1. requests' = requests
      BY <1>6 DEF Ask
    <3>2. Room = 0
      BY <1>2, <1>6
    <3> QED
      BY <3>1, <3>2, Zenon DEF Ask
  <2> QED
    BY <1>1, <1>4, <2>1
<1> QED
  BY <1>5, <1>6

LEMMA RequestsAre ==
  ASSUME NEW R
  PROVE  /\ \A text \in Queries : Refresh(text) \in Request(R) /\ Refresh(text).type = "refresh"
         /\ \A type \in Acts \cup {"reveal"}, id \in Nat :
              About(type, id) \in Request(R) /\ About(type, id).type = type
BY DEF Refresh, About, Request, Acts

-----------------------------------------------------------------------------
(* What every variable holds, in terms of the rows there have been.        *)

Holders == {Absent, Impostor} \cup {Clippod(n) : n \in Nat}

NothingOrOne(held) == held = {} \/ \E h \in [id : Nat, value : Nat] : held = {h}

ModelIn(R) ==
  /\ query \in Queries /\ shown \in Queries /\ rows \in Seq(R) /\ selected \in Nat
  /\ NothingOrOne(revealed)
  /\ status \in Statuses /\ landAtTop \in BOOLEAN /\ open \in BOOLEAN
  /\ asked \in SUBSET Pictures(R) /\ DOMAIN decoded \in SUBSET Pictures(R)
  /\ link \in BOOLEAN /\ inbox \in BOOLEAN /\ missed \in BOOLEAN

WorkerTyped ==
  /\ worker \in Stages /\ watching \in BOOLEAN /\ trusted \in BOOLEAN /\ changed \in BOOLEAN
  /\ captures \in 0..Captures /\ lives \in 0..Lives /\ moves \in 0..Moves
  /\ owner \in Holders /\ owners \in Seq(Holders)

HistoryTyped ==
  /\ history \in Seq([id : Nat \ {NoRow}, at : 1..captures])
  /\ \A i, j \in DOMAIN history : history[i].id = history[j].id => i = j

Known == KnownRow(captures)

TypedInv == ModelIn(Known) /\ Queues(Known) /\ WorkerTyped /\ HistoryTyped

LEMMA KnownAreRows ==
  ASSUME WorkerTyped
  PROVE  Known \in SUBSET Row
BY DEF Known, KnownRow, Row, WorkerTyped

(* What is asked of the queue leaves everything in its place.              *)
LEMMA AskKeepsTypes ==
  ASSUME NEW R, Queues(R), missed \in BOOLEAN, NEW request \in Request(R), Ask(request),
         events' = events
  PROVE  Queues(R)' /\ missed' \in BOOLEAN
<1>1. requests' \in Seq(Request(R)) /\ Len(requests') <= RequestCap
  BY AskIs
<1>2. missed' \in BOOLEAN
  BY AskIs
<1> QED
  BY <1>1, <1>2 DEF Queues

LEMMA ToggleKeepsTypes ==
  ASSUME NEW R \in SUBSET Row, Queues(R), ModelIn(R), Toggle
  PROVE  /\ ModelIn(R)'
         /\ requests' \in Seq(Request(R)) /\ Len(requests') <= RequestCap
<1> HIDE DEF Row
<1>1. CASE Dismiss
  BY <1>1 DEF Dismiss, thumbVars, queueVars, ModelIn, Queues, NothingOrOne
<1>2. CASE Present
  <2>1. NoQuery \in Queries
    BY PickerAssumption
  <2>2. Refresh(NoQuery) \in Request(R) /\ Ask(Refresh(NoQuery))
    BY <1>2, <2>1, RequestsAre DEF Present
  <2>3. requests' \in Seq(Request(R)) /\ Len(requests') <= RequestCap
    BY <2>2, AskIs
  <2>4. missed' \in {TRUE, FALSE, missed}
    BY <2>2, AskIs
  <2> QED
    BY <1>2, <2>1, <2>3, <2>4 DEF Present, thumbVars, ModelIn
<1> QED
  BY <1>1, <1>2 DEF Toggle

LEMMA ActivateKeepsTypes ==
  ASSUME NEW R \in SUBSET Row, Queues(R), ModelIn(R), NEW id \in Nat, Activate(id)
  PROVE  ModelIn(R)' /\ Queues(R)'
<1> HIDE DEF Row
<1>1. CASE id = NoRow
  BY <1>1 DEF Activate, thumbVars, queueVars, ModelIn, Queues
<1>2. CASE id # NoRow
  <2>1. About("paste", id) \in Request(R) /\ Ask(About("paste", id)) /\ events' = events
    BY <1>2, RequestsAre DEF Activate, Acts
  <2>2. Queues(R)' /\ missed' \in BOOLEAN
    BY <2>1, AskKeepsTypes DEF ModelIn
  <2>3. NothingOrOne(revealed')
    BY <1>2 DEF Activate, NothingOrOne
  <2> QED
    BY <1>2, <2>2, <2>3 DEF Activate, thumbVars, ModelIn
<1> QED
  BY <1>1, <1>2

LEMMA KeysKeepTypes ==
  ASSUME NEW R \in SUBSET Row, Queues(R), ModelIn(R), Keys, Captures \in Nat
  PROVE  ModelIn(R)' /\ Queues(R)'
<1> HIDE DEF Row
<1>1. CASE IconPressed
  BY <1>1, ToggleKeepsTypes DEF IconPressed, Queues
<1>2. CASE SurfaceGone
  BY <1>2 DEF SurfaceGone, Dismiss, thumbVars, queueVars, ModelIn, Queues, NothingOrOne
<1>3. CASE Enter
  BY <1>3, ActivateKeepsTypes DEF Enter, ModelIn
<1>4. ASSUME NEW type \in Acts \cup {"reveal"}, selected # NoRow, AskAbout(About(type, selected))
      PROVE  ModelIn(R)' /\ Queues(R)'
  <2>1. About(type, selected) \in Request(R) /\ Ask(About(type, selected)) /\ events' = events
    BY <1>4, RequestsAre DEF AskAbout, ModelIn
  <2>2. Queues(R)' /\ missed' \in BOOLEAN
    BY <2>1, AskKeepsTypes DEF ModelIn
  <2> QED
    BY <1>4, <2>2 DEF AskAbout, modelVars, thumbVars, ModelIn
<1>5. CASE Delete \/ Reveal \/ TogglePin
  BY <1>4, <1>5 DEF Delete, Reveal, TogglePin, Acts
<1>6. ASSUME NEW down \in BOOLEAN, Move(down)
      PROVE  ModelIn(R)' /\ Queues(R)'
  <2>1. PICK from \in RowOf(selected) : selected' = rows[Step(from, down)].id
    BY <1>6 DEF Move
  <2>2. rows \in Seq(Row) /\ rows \in Seq(R) /\ from \in DOMAIN rows
    BY DEF RowOf, ModelIn
  <2>3. Step(from, down) \in DOMAIN rows
    BY <2>2, StepStaysOnTheList
  <2>4. rows[Step(from, down)] \in Row
    BY <2>2, <2>3
  <2>5. selected' \in Nat
    BY <2>1, <2>4 DEF Row
  <2> QED
    BY <1>6, <2>5 DEF Move, thumbVars, queueVars, ModelIn, Queues
<1>7. ASSUME NEW text \in Queries, QueryChanged(text)
      PROVE  ModelIn(R)' /\ Queues(R)'
  <2>1. Refresh(text) \in Request(R) /\ Ask(Refresh(text)) /\ events' = events
    BY <1>7, RequestsAre DEF QueryChanged
  <2>2. Queues(R)' /\ missed' \in BOOLEAN
    BY <2>1, AskKeepsTypes DEF ModelIn
  <2>3. landAtTop' \in BOOLEAN
    BY <1>7 DEF QueryChanged, ModelIn
  <2> QED
    BY <1>7, <2>2, <2>3 DEF QueryChanged, thumbVars, ModelIn
<1>8. ASSUME NEW id \in 1..Captures, Chose(id)
      PROVE  ModelIn(R)' /\ Queues(R)'
  <2>1. PICK chosen \in Nat : Activate(chosen)
    <3>1. id \in Nat /\ selected \in Nat
      BY DEF ModelIn
    <3> QED
      BY <1>8, <3>1 DEF Chose
  <2> QED
    BY <2>1, ActivateKeepsTypes
<1> QED
  BY <1>1, <1>2, <1>3, <1>5, <1>6, <1>7, <1>8 DEF Keys

(* The UI takes the first of what the worker said.                         *)
LEMMA HeardIs ==
  ASSUME NEW R, Queues(R), NEW type, Hear(type)
  PROVE  /\ events' \in Seq(Event(R)) /\ Len(events') <= EventCap + 2
         /\ Len(events) \in Nat /\ Len(events) >= 1 /\ DOMAIN events = 1..Len(events)
         /\ DOMAIN events' = 1..(Len(events) - 1)
         /\ \A i \in 1..(Len(events) - 1) : events'[i] = events[i + 1]
         /\ Head(events) = events[1] /\ events[1] \in Event(R) /\ events[1].type = type
<1>1. events # << >> /\ events' = Tail(events) /\ events \in Seq(Event(R)) /\ Head(events).type = type
  BY DEF Hear, Queues
<1>2. /\ events' \in Seq(Event(R)) /\ Len(events') = Len(events) - 1
      /\ Len(events) \in Nat /\ Len(events) >= 1
      /\ DOMAIN events = 1..Len(events) /\ DOMAIN events' = 1..(Len(events) - 1)
      /\ \A i \in 1..(Len(events) - 1) : events'[i] = events[i + 1]
      /\ Head(events) = events[1] /\ events[1] \in Event(R)
  BY <1>1, RestIs
<1>3. Len(events') <= EventCap + 2
  BY <1>2, AppletAssumption DEF Queues
<1> QED
  BY <1>1, <1>2, <1>3

(* Thumbnails::prune only drops.                                           *)
LEMMA PruneDrops ==
  ASSUME NEW list
  PROVE  /\ Prune(list).asked \subseteq asked
         /\ DOMAIN Prune(list).decoded \subseteq DOMAIN decoded
         /\ \A key \in DOMAIN Prune(list).decoded : Prune(list).decoded[key] = decoded[key]
         /\ \A key \in Prune(list).asked \cap DOMAIN decoded : key \in DOMAIN Prune(list).decoded
<1>1. CASE Cardinality(DOMAIN decoded) <= Capacity /\ Cardinality(asked) <= Capacity
  BY <1>1 DEF Prune
<1>2. CASE ~(Cardinality(DOMAIN decoded) <= Capacity /\ Cardinality(asked) <= Capacity)
  BY <1>2 DEF Prune
<1> QED
  BY <1>1, <1>2

LEMMA EntriesKeepTypes ==
  ASSUME NEW R \in SUBSET Row, Queues(R), ModelIn(R), OnEntries
  PROVE  ModelIn(R)' /\ Queues(R)'
<1> HIDE DEF Row
<1> DEFINE answer == Head(events)
           kept   == Prune(answer.rows)
<1>1. /\ events' \in Seq(Event(R)) /\ Len(events') <= EventCap + 2
      /\ answer \in Event(R) /\ answer.type = "entries"
  BY HeardIs DEF OnEntries
<1>2. answer.query \in Queries /\ answer.rows \in Seq(R)
  BY <1>1, EventFacts
<1> HIDE DEF answer
<1>3. CASE ~Accepts(answer.query)
  BY <1>1, <1>3 DEF OnEntries, modelVars, thumbVars, ModelIn, Queues, answer
<1>4. CASE Accepts(answer.query)
  <2>1. SetEntries(answer.query, answer.rows) /\ decoded' = kept.decoded
        /\ FetchThumbnails(answer.rows, kept.asked)
    BY <1>4 DEF OnEntries, answer
  <2>2. kept.asked \in SUBSET Pictures(R) /\ DOMAIN kept.decoded \in SUBSET Pictures(R)
    BY PruneDrops DEF ModelIn
  <2> HIDE DEF kept
  <2>3. /\ requests' \in Seq(Request(R)) /\ Len(requests') <= RequestCap
        /\ asked' \in SUBSET Pictures(R)
    BY <1>2, <2>1, <2>2, FetchIs
  <2>4. selected' \in Nat
    <3>1. rows \in Seq(Row) /\ answer.rows \in Seq(Row)
      BY <1>2 DEF ModelIn
    <3>2. SelectedIsListed'
      BY <2>1, <3>1, HighlightLands
    <3>3. rows' = answer.rows
      BY <2>1 DEF SetEntries
    <3>4. \A i \in DOMAIN rows' : rows'[i] \in Row
      BY <3>1, <3>3
    <3>5. IdsOf(rows') \subseteq Nat
      BY <3>4 DEF IdsOf, Row
    <3>6. NoRow \in Nat
      BY DEF NoRow
    <3> QED
      BY <3>2, <3>5, <3>6 DEF SelectedIsListed
  <2>5. NothingOrOne(revealed')
    BY <2>1 DEF SetEntries, NothingOrOne
  <2>6. UNCHANGED <<open, link, inbox, missed>>
    BY DEF OnEntries
  <2> QED
    BY <1>1, <1>2, <2>1, <2>2, <2>3, <2>4, <2>5, <2>6 DEF SetEntries, ModelIn, Queues
<1> QED
  BY <1>3, <1>4

LEMMA ThumbnailKeepsTypes ==
  ASSUME NEW R \in SUBSET Row, Queues(R), ModelIn(R), OnThumbnail
  PROVE  ModelIn(R)' /\ Queues(R)'
<1> HIDE DEF Row
<1> DEFINE answer == Head(events)
<1>1. /\ events' \in Seq(Event(R)) /\ Len(events') <= EventCap + 2
      /\ answer \in Event(R) /\ answer.type = "thumbnail"
  BY HeardIs DEF OnThumbnail
<1>2. answer.key \in Pictures(R)
  BY <1>1, EventFacts
<1>3. DOMAIN decoded' = DOMAIN decoded \cup {answer.key : p \in answer.picture}
  BY DEF OnThumbnail
<1> HIDE DEF answer
<1>4. DOMAIN decoded' \in SUBSET Pictures(R)
  BY <1>2, <1>3 DEF ModelIn
<1>5. rows \in Seq(R) /\ asked \in SUBSET Pictures(R) /\ FetchThumbnails(rows, asked)
  BY DEF OnThumbnail, ModelIn
<1>6. /\ requests' \in Seq(Request(R)) /\ Len(requests') <= RequestCap
      /\ asked' \in SUBSET Pictures(R)
  BY <1>5, FetchIs
<1> QED
  BY <1>1, <1>4, <1>6 DEF OnThumbnail, modelVars, ModelIn, Queues

LEMMA OnBusKeepsTypes ==
  ASSUME NEW R \in SUBSET Row, Queues(R), ModelIn(R), OnBus
  PROVE  ModelIn(R)' /\ Queues(R)'
<1> HIDE DEF Row
<1>1. ASSUME NEW type, Hear(type) PROVE events' \in Seq(Event(R)) /\ Len(events') <= EventCap + 2
  BY <1>1, HeardIs
<1>2. CASE OnReady
  <2>1. events' \in Seq(Event(R)) /\ Len(events') <= EventCap + 2
    BY <1>1, <1>2 DEF OnReady
  <2>2. CASE open /\ inbox
    <3>1. requests' = <<Refresh(query)>> /\ missed' = FALSE /\ Refresh(query) \in Request(R)
      BY <1>2, <2>2, RequestsAre DEF OnReady, ModelIn
    <3>2. requests' \in Seq(Request(R)) /\ Len(requests') = 1
      BY <3>1
    <3>3. Len(requests') <= RequestCap
      BY <3>2, PickerAssumption
    <3> QED
      BY <1>2, <2>1, <3>1, <3>2, <3>3 DEF OnReady, modelVars, thumbVars, ModelIn, Queues
  <2>3. CASE ~(open /\ inbox)
    BY <1>2, <2>1, <2>3 DEF OnReady, modelVars, thumbVars, queueVars, ModelIn, Queues
  <2> QED
    BY <2>2, <2>3
<1>3. CASE OnEntries
  BY <1>3, EntriesKeepTypes
<1>4. CASE OnRevealed
  <2>1. /\ events' \in Seq(Event(R)) /\ Len(events') <= EventCap + 2
        /\ Head(events) \in Event(R) /\ Head(events).type = "revealed"
    BY <1>4, HeardIs DEF OnRevealed
  <2>2. Head(events).id \in Nat /\ Head(events).value \in Nat
    BY <2>1, EventFacts
  <2>3. NothingOrOne(revealed')
    BY <1>4, <2>2 DEF OnRevealed, NothingOrOne
  <2> QED
    BY <1>4, <2>1, <2>3 DEF OnRevealed, thumbVars, queueVars, ModelIn, Queues
<1>5. CASE OnThumbnail
  BY <1>5, ThumbnailKeepsTypes
<1>6. CASE OnToggle
  <2>1. events' \in Seq(Event(R)) /\ Len(events') <= EventCap + 2
    BY <1>1, <1>6 DEF OnToggle
  <2>2. ModelIn(R)' /\ requests' \in Seq(Request(R)) /\ Len(requests') <= RequestCap
    BY <1>6, ToggleKeepsTypes DEF OnToggle
  <2> QED
    BY <2>1, <2>2 DEF Queues
<1>7. CASE OnDaemonUp
  <2>1. events' \in Seq(Event(R)) /\ Len(events') <= EventCap + 2
    BY <1>1, <1>7 DEF OnDaemonUp
  <2>2. /\ requests' \in Seq(Request(R)) /\ Len(requests') <= RequestCap
        /\ missed' \in BOOLEAN
    <3>1. CASE open
      <4>1. Ask(Refresh(query)) /\ Refresh(query) \in Request(R)
        BY <1>7, <3>1, RequestsAre DEF OnDaemonUp, RefreshIfVisible, ModelIn
      <4>2. requests' \in Seq(Request(R)) /\ Len(requests') <= RequestCap
        BY <4>1, AskIs
      <4>3. missed' \in {TRUE, FALSE, missed}
        BY <4>1, AskIs
      <4> QED
        BY <4>2, <4>3 DEF ModelIn
    <3>2. CASE ~open
      BY <1>7, <3>2 DEF OnDaemonUp, RefreshIfVisible, queueVars, ModelIn, Queues
    <3> QED
      BY <3>1, <3>2
  <2>3. status' \in Statuses /\ UNCHANGED <<rows, selected, revealed, query, landAtTop, shown>>
    BY <1>7 DEF OnDaemonUp, SetStatus, Statuses
  <2> QED
    BY <1>7, <2>1, <2>2, <2>3 DEF OnDaemonUp, thumbVars, ModelIn, Queues
<1>8. CASE OnDaemonGone
  <2>1. events' \in Seq(Event(R)) /\ Len(events') <= EventCap + 2
    BY <1>1, <1>8 DEF OnDaemonGone
  <2>2. PICK to \in {"unavailable", "untrusted"} : SetStatus(to)
    BY <1>8 DEF OnDaemonGone
  <2>3. /\ rows' = << >> /\ selected' = NoRow /\ revealed' = {} /\ status' \in Statuses
        /\ UNCHANGED <<query, landAtTop, shown>>
    BY <2>2 DEF SetStatus, Statuses
  <2>4. asked' = {} /\ DOMAIN decoded' = {}
    BY <1>8 DEF OnDaemonGone
  <2>5. rows' \in Seq(R) /\ selected' \in Nat /\ NothingOrOne(revealed')
    BY <2>3 DEF NoRow, NothingOrOne
  <2> QED
    BY <1>8, <2>1, <2>3, <2>4, <2>5 DEF OnDaemonGone, queueVars, ModelIn, Queues
<1>9. CASE OnFailed
  <2>1. events' \in Seq(Event(R)) /\ Len(events') <= EventCap + 2
    BY <1>1, <1>9 DEF OnFailed
  <2> QED
    BY <1>9, <2>1 DEF OnFailed, modelVars, thumbVars, queueVars, ModelIn, Queues
<1> QED
  BY <1>2, <1>3, <1>4, <1>5, <1>6, <1>7, <1>8, <1>9 DEF OnBus

-----------------------------------------------------------------------------
(* What clippod holds, and what it answers.                                *)

Held(n) == [id : Nat \ {NoRow}, at : 1..n]

SoundHistory(list, n) ==
  /\ list \in Seq(Held(n))
  /\ \A i, j \in DOMAIN list : list[i].id = list[j].id => i = j

LEMMA RemovedIsSound ==
  ASSUME NEW n \in Nat, NEW list, SoundHistory(list, n), NEW i \in DOMAIN list
  PROVE  /\ SoundHistory(RemoveAt(list, i), n)
         /\ \A k \in DOMAIN RemoveAt(list, i) : \E j \in DOMAIN list : j # i /\ RemoveAt(list, i)[k] = list[j]
<1> DEFINE rest == RemoveAt(list, i)
           from(k) == IF k < i THEN k ELSE k + 1
<1> HIDE DEF Held
<1>1. list \in Seq(Held(n))
  BY DEF SoundHistory
<1>2. /\ rest \in Seq(Held(n)) /\ Len(list) \in Nat /\ DOMAIN list = 1..Len(list)
      /\ DOMAIN rest = 1..(Len(list) - 1)
      /\ \A k \in 1..(Len(list) - 1) : rest[k] = IF k < i THEN list[k] ELSE list[k + 1]
  BY <1>1, OneLess
<1> HIDE DEF rest
<1>3. \A k \in DOMAIN rest : from(k) \in DOMAIN list /\ from(k) # i /\ rest[k] = list[from(k)]
  BY <1>2
<1>4. \A k, l \in DOMAIN rest : from(k) = from(l) => k = l
  BY <1>2
<1> HIDE DEF from
<1>5. \A k, l \in DOMAIN rest : rest[k].id = rest[l].id => k = l
  BY <1>3, <1>4 DEF SoundHistory
<1>6. SoundHistory(rest, n) /\ \A k \in DOMAIN rest : \E j \in DOMAIN list : j # i /\ rest[k] = list[j]
  BY <1>2, <1>3, <1>5 DEF SoundHistory
<1> QED
  BY <1>6 DEF rest

LEMMA FrontedIsSound ==
  ASSUME NEW n \in Nat, NEW list, SoundHistory(list, n), NEW first \in Held(n),
         \A i \in DOMAIN list : list[i].id # first.id
  PROVE  /\ SoundHistory(<<first>> \o list, n)
         /\ \A k \in DOMAIN (<<first>> \o list) :
              \/ (<<first>> \o list)[k] = first
              \/ \E j \in DOMAIN list : (<<first>> \o list)[k] = list[j]
<1> DEFINE one == <<first>>
           all == one \o list
<1> HIDE DEF Held
<1>1. one \in Seq(Held(n)) /\ Len(one) = 1 /\ one[1] = first /\ list \in Seq(Held(n))
  BY DEF SoundHistory
<1> HIDE DEF one
<1>2. /\ all \in Seq(Held(n)) /\ DOMAIN all = 1..(1 + Len(list)) /\ Len(list) \in Nat
      /\ DOMAIN list = 1..Len(list)
      /\ all[1] = first /\ \A i \in 1..Len(list) : all[1 + i] = list[i]
  <2>1. one \in Seq(Held(n)) /\ list \in Seq(Held(n))
    BY <1>1
  <2>2. /\ all \in Seq(Held(n)) /\ DOMAIN all = 1..(Len(one) + Len(list)) /\ Len(list) \in Nat
        /\ \A i \in 1..Len(one) : all[i] = one[i]
        /\ \A i \in 1..Len(list) : all[Len(one) + i] = list[i]
    BY <2>1, JoinedAt
  <2> HIDE DEF all
  <2> QED
    BY <2>2, <1>1
<1> HIDE DEF all
<1>3. \A k \in DOMAIN all : k = 1 \/ (k - 1 \in DOMAIN list /\ all[k] = list[k - 1])
  BY <1>2
<1>4. \A k, l \in DOMAIN all : all[k].id = all[l].id => k = l
  <2>1. SUFFICES ASSUME NEW k \in DOMAIN all, NEW l \in DOMAIN all, all[k].id = all[l].id PROVE k = l
    OBVIOUS
  <2>2. CASE k = 1 \/ l = 1
    BY <1>2, <1>3, <2>1, <2>2
  <2>3. CASE k # 1 /\ l # 1
    <3>1. k - 1 = l - 1
      BY <1>3, <2>1, <2>3 DEF SoundHistory
    <3> QED
      BY <1>2, <3>1
  <2> QED
    BY <2>2, <2>3
<1>5. SoundHistory(all, n)
  BY <1>2, <1>4 DEF SoundHistory
<1>6. \A k \in DOMAIN all : all[k] = first \/ \E j \in DOMAIN list : all[k] = list[j]
  BY <1>2, <1>3
<1> QED
  BY <1>5, <1>6 DEF all, one

LEMMA HistoryIsSound == HistoryTyped <=> SoundHistory(history, captures)
BY DEF HistoryTyped, SoundHistory, Held

LEMMA HeldAreKnown ==
  ASSUME NEW n \in Nat
  PROVE  Held(n) \subseteq KnownRow(n)
BY DEF Held, KnownRow

(* What a member leaves of the history is what there was of it.            *)
LEMMA AfterIsSound ==
  ASSUME captures \in Nat, HistoryTyped, NEW request, request.type \in Acts, NEW i \in DOMAIN history
  PROVE  /\ SoundHistory(After(request, i), captures)
         /\ \A k \in DOMAIN After(request, i) : \E j \in DOMAIN history : After(request, i)[k] = history[j]
<1> HIDE DEF Held
<1>1. SoundHistory(history, captures)
  BY HistoryIsSound
<1>2. /\ SoundHistory(RemoveAt(history, i), captures)
      /\ \A k \in DOMAIN RemoveAt(history, i) : \E j \in DOMAIN history : j # i /\ RemoveAt(history, i)[k] = history[j]
  BY <1>1, RemovedIsSound
<1>3. CASE request.type = "delete"
  <2>1. After(request, i) = RemoveAt(history, i)
    BY <1>3 DEF After
  <2> QED
    BY <2>1, <1>2
<1>4. CASE request.type = "pin"
  BY <1>1, <1>4 DEF After
<1>5. CASE request.type = "paste"
  <2>1. After(request, i) = <<history[i]>> \o RemoveAt(history, i)
    BY <1>5 DEF After
  <2>2. history[i] \in Held(captures)
    BY <1>1 DEF SoundHistory
  <2>3. \A k \in DOMAIN RemoveAt(history, i) : RemoveAt(history, i)[k].id # history[i].id
    BY <1>1, <1>2 DEF SoundHistory
  <2>4. /\ SoundHistory(<<history[i]>> \o RemoveAt(history, i), captures)
        /\ \A k \in DOMAIN (<<history[i]>> \o RemoveAt(history, i)) :
             \/ (<<history[i]>> \o RemoveAt(history, i))[k] = history[i]
             \/ \E j \in DOMAIN RemoveAt(history, i) :
                  (<<history[i]>> \o RemoveAt(history, i))[k] = RemoveAt(history, i)[j]
    BY <1>2, <2>2, <2>3, FrontedIsSound
  <2> QED
    BY <2>1, <2>4, <1>2
<1> QED
  BY <1>3, <1>4, <1>5 DEF Acts

(* List and Search answer with entries that are there.                     *)
LEMMA AnswerIs ==
  ASSUME captures \in Nat, HistoryTyped, NEW text
  PROVE  /\ Answer(text) \in Seq(Known)
         /\ \A k \in DOMAIN Answer(text) : \E i \in DOMAIN history : Answer(text)[k] = history[i]
<1> DEFINE places == {i \in DOMAIN history : text = NoQuery \/ Matches(text, history[i].at)}
           found  == SubsequenceAt(history, places)
           m      == Smaller(RowLimit, Len(found))
<1> HIDE DEF KnownRow
<1>1. Answer(text) = SubSeq(found, 1, m)
  BY DEF Answer, Keep
<1>2. history \in Seq(Known)
  BY HeldAreKnown, HistoryIsSound DEF SoundHistory, Known
<1>3. places \in SUBSET DOMAIN history
  OBVIOUS
<1> HIDE DEF places
<1>4. /\ found \in Seq(Known) /\ DOMAIN found = 1..Len(found)
      /\ \A k \in DOMAIN found : Nth(places, k) \in places /\ found[k] = history[Nth(places, k)]
  BY <1>2, <1>3, FilterKeepsPlaces
<1> HIDE DEF found
<1>5. /\ SubSeq(found, 1, m) \in Seq(Known) /\ m \in Nat /\ m <= Len(found)
      /\ DOMAIN SubSeq(found, 1, m) = 1..m
      /\ \A k \in 1..m : SubSeq(found, 1, m)[k] = found[k]
  BY <1>4, FirstOf, AppletAssumption
<1>6. ASSUME NEW k \in 1..m PROVE \E i \in DOMAIN history : SubSeq(found, 1, m)[k] = history[i]
  <2>1. k \in DOMAIN found
    BY <1>4, <1>5
  <2> QED
    BY <2>1, <1>3, <1>4, <1>5
<1> QED
  BY <1>1, <1>5, <1>6

-----------------------------------------------------------------------------
(* What serve_request says, and what it leaves.                            *)

(* What is said of a request, by whoever has the name.                     *)
Reply(request, e) ==
  /\ request.type = "refresh" =>
       \/ /\ e.type = "entries" /\ e.query = request.query
          /\ IsClippod(owner) => e.rows = Answer(request.query)
       \/ e.type = "down"
  /\ request.type = "thumbnail" =>
       /\ e.type = "thumbnail" /\ e.key = request.key
       /\ IsClippod(owner) => e.picture = {history[i].at : i \in Entry(request.key.id)} \cap Images
  /\ e.type = "revealed" /\ IsClippod(owner) =>
       \E i \in DOMAIN history : history[i].id = e.id /\ history[i].at = e.value
  /\ e.type = "entries" => request.type = "refresh"
  /\ e.type = "thumbnail" => request.type = "thumbnail"
  /\ e.type \notin {"toggle", "ready"}
  /\ e.type \in {"down", "untrusted"} => ~IsClippod(owner)

LEMMA OneEvent ==
  ASSUME NEW R, NEW e \in Event(R)
  PROVE  <<e>> \in Seq(Event(R)) /\ Len(<<e>>) = 1 /\ <<e>>[1] = e
OBVIOUS

LEMMA NobodySays ==
  ASSUME NEW request \in Request(Known), ~IsClippod(owner), NobodyAnswers(request)
  PROVE  /\ UNCHANGED <<history, changed>>
         /\ \E e \in Event(Known) : Emit(<<e>>) /\ Reply(request, e)
<1> HIDE DEF Pictures, Known
<1>1. request.type = "thumbnail" => request.key \in Pictures(Known)
  BY RequestFacts
<1>2. CASE request.type = "thumbnail"
  <2> DEFINE e == [type |-> "thumbnail", key |-> request.key, picture |-> {}]
  <2>1. e \in Event(Known) /\ Emit(<<e>>)
    BY <1>1, <1>2 DEF NobodyAnswers, Picture, Event
  <2>2. Reply(request, e)
    BY <1>2 DEF Reply
  <2> QED
    BY <2>1, <2>2 DEF NobodyAnswers
<1>3. CASE request.type # "thumbnail"
  <2> DEFINE e == [type |-> "down"]
  <2>1. e \in Event(Known) /\ Emit(<<e>>)
    BY <1>3 DEF NobodyAnswers, Says, Event, Saying
  <2>2. Reply(request, e)
    BY <1>3 DEF Reply
  <2> QED
    BY <2>1, <2>2 DEF NobodyAnswers
<1> QED
  BY <1>2, <1>3

LEMMA ImpostorSays ==
  ASSUME NEW request \in Request(Known), ~IsClippod(owner), captures \in Nat, ImpostorAnswers(request)
  PROVE  /\ UNCHANGED <<history, changed>>
         /\ \E e \in Event(Known) : Emit(<<e>>) /\ Reply(request, e)
<1>1. <<Forged>> \in Seq(Known)
  BY DEF Forged, Known, KnownRow, NoRow
<1> HIDE DEF Pictures, Known
<1>2. /\ request.type = "thumbnail" => request.key \in Pictures(Known)
      /\ request.type = "refresh" => request.query \in Queries
      /\ request.type \in Acts \cup {"reveal"} => request.id \in Nat
      /\ request.type \in Acts \cup {"reveal", "refresh", "thumbnail"}
  BY RequestFacts
<1>3. CASE request.type = "refresh"
  <2> DEFINE e == [type |-> "entries", query |-> request.query, rows |-> <<Forged>>]
  <2>1. e \in Event(Known) /\ Emit(<<e>>)
    BY <1>1, <1>2, <1>3 DEF ImpostorAnswers, Entries, Event
  <2>2. Reply(request, e)
    BY <1>3 DEF Reply
  <2> QED
    BY <2>1, <2>2 DEF ImpostorAnswers
<1>4. CASE request.type = "reveal"
  <2> DEFINE e == [type |-> "revealed", id |-> request.id, value |-> 0]
  <2>1. e \in Event(Known) /\ Emit(<<e>>)
    BY <1>2, <1>4 DEF ImpostorAnswers, Revealed, Event
  <2>2. Reply(request, e)
    BY <1>4 DEF Reply
  <2> QED
    BY <2>1, <2>2 DEF ImpostorAnswers
<1>5. CASE request.type = "thumbnail"
  <2> DEFINE e == [type |-> "thumbnail", key |-> request.key, picture |-> {0}]
  <2>1. e \in Event(Known) /\ Emit(<<e>>)
    BY <1>2, <1>5 DEF ImpostorAnswers, Picture, Event
  <2>2. Reply(request, e)
    BY <1>5 DEF Reply
  <2> QED
    BY <2>1, <2>2 DEF ImpostorAnswers
<1>6. CASE request.type \notin {"refresh", "reveal", "thumbnail"}
  <2> DEFINE e == [type |-> "up"]
  <2>1. e \in Event(Known) /\ Emit(<<e>>)
    BY <1>6 DEF ImpostorAnswers, Says, Event, Saying
  <2>2. Reply(request, e)
    BY <1>6 DEF Reply
  <2> QED
    BY <2>1, <2>2 DEF ImpostorAnswers
<1> QED
  BY <1>3, <1>4, <1>5, <1>6

(* A member that changes an entry announces that it did.                   *)
LEMMA ClippodSays ==
  ASSUME NEW request \in Request(Known), IsClippod(owner), captures \in Nat, HistoryTyped,
         ClippodAnswers(request)
  PROVE  /\ \/ UNCHANGED <<history, changed>>
            \/ /\ changed' = TRUE /\ request.type \in Acts
               /\ \E i \in DOMAIN history : history' = After(request, i)
         /\ \E e \in Event(Known) : Emit(<<e>>) /\ Reply(request, e)
<1>0. \A i \in DOMAIN history : history[i].at \in Nat
  <2>1. \A i \in DOMAIN history : history[i] \in Held(captures)
    BY HistoryIsSound DEF SoundHistory
  <2> QED
    BY <2>1 DEF Held
<1> HIDE DEF Pictures, Known
<1>1. /\ request.type = "thumbnail" => request.key \in Pictures(Known)
      /\ request.type = "refresh" => request.query \in Queries
      /\ request.type \in Acts \cup {"reveal"} => request.id \in Nat
      /\ request.type \in Acts \cup {"reveal", "refresh", "thumbnail"}
  BY RequestFacts
<1>2. CASE request.type \in Acts
  <2>1. ClippodActs(request)
    BY <1>2 DEF ClippodAnswers
  <2>2. CASE Entry(request.id) = {}
    <3> DEFINE e == [type |-> "failed"]
    <3>1. e \in Event(Known) /\ Emit(<<e>>) /\ UNCHANGED <<history, changed>>
      BY <2>1, <2>2 DEF ClippodActs, Says, Event, Saying
    <3>2. Reply(request, e)
      BY <1>2 DEF Reply, Acts
    <3> QED
      BY <3>1, <3>2
  <2>3. CASE Entry(request.id) # {}
    <3> DEFINE e == [type |-> "up"]
    <3>1. e \in Event(Known) /\ Emit(<<e>>) /\ changed' = TRUE
          /\ \E i \in Entry(request.id) : history' = After(request, i)
      BY <2>1, <2>3 DEF ClippodActs, Says, Event, Saying
    <3>2. Reply(request, e)
      BY <1>2 DEF Reply, Acts
    <3> QED
      BY <3>1, <3>2, <1>2 DEF Entry
  <2> QED
    BY <2>2, <2>3
<1>3. CASE request.type \notin Acts
  <2>0. ClippodReads(request)
    BY <1>3 DEF ClippodAnswers
  <2>1. UNCHANGED <<history, changed>>
    BY <2>0 DEF ClippodReads
  <2>2. CASE ClippodLists(request)
    <3> DEFINE e == [type |-> "entries", query |-> request.query, rows |-> Answer(request.query)]
    <3>1. request.type = "refresh" /\ Answer(request.query) \in Seq(Known)
      BY <2>2, AnswerIs DEF ClippodLists
    <3>2. e \in Event(Known) /\ Emit(<<e>>)
      BY <2>2, <3>1, <1>1 DEF ClippodLists, Entries, Event
    <3>3. Reply(request, e)
      BY <3>1 DEF Reply
    <3> QED
      BY <2>1, <3>2, <3>3
  <2>3. CASE ClippodReveals(request)
    <3>1. request.type = "reveal"
      BY <2>3 DEF ClippodReveals
    <3>2. CASE Emit(Says("failed"))
      <4> DEFINE e == [type |-> "failed"]
      <4>1. e \in Event(Known) /\ Emit(<<e>>)
        BY <3>2 DEF Says, Event, Saying
      <4>2. Reply(request, e)
        BY <3>1 DEF Reply
      <4> QED
        BY <2>1, <4>1, <4>2
    <3>3. CASE \E i \in Entry(request.id) :
                 history[i].at \notin Images /\ Emit(Revealed(request.id, history[i].at))
      <4>1. PICK i \in Entry(request.id) : Emit(Revealed(request.id, history[i].at))
        BY <3>3
      <4>2. i \in DOMAIN history /\ history[i].id = request.id /\ history[i].at \in Nat
        BY <1>0 DEF Entry
      <4> DEFINE e == [type |-> "revealed", id |-> request.id, value |-> history[i].at]
      <4>3. e \in Event(Known) /\ Emit(<<e>>)
        BY <4>1, <4>2, <3>1, <1>1 DEF Revealed, Event
      <4>4. Reply(request, e)
        BY <3>1, <4>2 DEF Reply
      <4> QED
        BY <2>1, <4>3, <4>4
    <3> QED
      BY <2>3, <3>2, <3>3 DEF ClippodReveals
  <2>4. CASE ClippodPictures(request)
    <3> DEFINE e == [type |-> "thumbnail", key |-> request.key,
                     picture |-> {history[i].at : i \in Entry(request.key.id)} \cap Images]
    <3>1. request.type = "thumbnail"
      BY <2>4 DEF ClippodPictures
    <3>2. {history[i].at : i \in Entry(request.key.id)} \cap Images \in SUBSET Nat
      BY <1>0 DEF Entry
    <3>3. e \in Event(Known)
      BY <3>1, <3>2, <1>1 DEF Event
    <3>4. Emit(<<e>>)
      BY <2>4 DEF ClippodPictures, Picture
    <3>5. Reply(request, e)
      BY <3>1 DEF Reply
    <3> QED
      BY <2>1, <3>3, <3>4, <3>5
  <2> QED
    BY <2>0, <2>2, <2>3, <2>4 DEF ClippodReads
<1> QED
  BY <1>2, <1>3

(* A request that is served is answered with one event; a worker that does *)
(* not trust the owner only takes it away.                                 *)
LEMMA ServedIs ==
  ASSUME TypedInv, Serve
  PROVE  /\ requests # << >> /\ Head(requests) \in Request(Known) /\ requests' = Tail(requests)
         /\ worker = "running"
         /\ UNCHANGED <<modelVars, open, thumbVars, link, inbox, missed, workerVars,
                        owners, captures, owner, lives>>
         /\ \/ UNCHANGED <<history, changed>>
            \/ /\ changed' = TRUE /\ Head(requests).type \in Acts /\ IsClippod(owner)
               /\ \E i \in DOMAIN history : history' = After(Head(requests), i)
         /\ \/ ~trusted /\ UNCHANGED events
            \/ trusted /\ \E e \in Event(Known) : Emit(<<e>>) /\ Reply(Head(requests), e)
<1>1. requests # << >> /\ requests \in Seq(Request(Known)) /\ captures \in Nat /\ HistoryTyped
  BY DEF Serve, TypedInv, Queues, WorkerTyped
<1>2. Head(requests) \in Request(Known)
  BY <1>1, RestIs
<1> HIDE DEF Known
<1>5. /\ worker = "running" /\ requests' = Tail(requests)
      /\ UNCHANGED <<modelVars, open, thumbVars, link, inbox, missed, workerVars,
                     owners, captures, owner, lives>>
  BY DEF Serve
<1>3. CASE ~trusted
  BY <1>1, <1>2, <1>3, <1>5 DEF Serve
<1>4. CASE trusted
  <2>1. Answers(Head(requests))
    BY <1>4 DEF Serve
  <2>2. owner \in Holders
    BY DEF TypedInv, WorkerTyped
  <2>3. CASE owner = Absent
    <3>1. NobodyAnswers(Head(requests)) /\ ~IsClippod(owner)
      BY <2>1, <2>3 DEF Answers, IsClippod, Absent, Impostor
    <3>2. /\ UNCHANGED <<history, changed>>
          /\ \E e \in Event(Known) : Emit(<<e>>) /\ Reply(Head(requests), e)
      BY <3>1, <1>2, NobodySays
    <3> QED
      BY <3>2, <1>1, <1>2, <1>4, <1>5
  <2>4. CASE owner = Impostor
    <3>1. ImpostorAnswers(Head(requests)) /\ ~IsClippod(owner)
      BY <2>1, <2>4 DEF Answers, IsClippod, Impostor, Absent
    <3>2. /\ UNCHANGED <<history, changed>>
          /\ \E e \in Event(Known) : Emit(<<e>>) /\ Reply(Head(requests), e)
      BY <3>1, <1>1, <1>2, ImpostorSays
    <3> QED
      BY <3>2, <1>1, <1>2, <1>4, <1>5
  <2>5. CASE owner \in {Clippod(n) : n \in Nat}
    <3>1. ClippodAnswers(Head(requests)) /\ IsClippod(owner)
      BY <2>1, <2>5 DEF Answers, IsClippod, Impostor, Absent, Clippod
    <3> QED
      BY <3>1, <1>1, <1>2, <1>4, <1>5, ClippodSays
  <2> QED
    BY <2>2, <2>3, <2>4, <2>5 DEF Holders
<1> QED
  BY <1>3, <1>4

-----------------------------------------------------------------------------
(* Every variable holds what it should.                                    *)

(* An entry's id is that of no entry there is, though it may have been one's. *)
LEMMA FreeIdIsNew ==
  ASSUME HistoryTyped
  PROVE  FreeId \in Nat \ {NoRow} /\ \A i \in DOMAIN history : history[i].id # FreeId
<1>1. \A i \in DOMAIN history : history[i] \in Held(captures)
  BY HistoryIsSound DEF SoundHistory
<1>2. history \in Seq(Held(captures))
  BY HistoryIsSound DEF SoundHistory
<1>3. Len(history) \in Nat /\ DOMAIN history = 1..Len(history)
  BY <1>2
<1>4. \A i \in DOMAIN history : history[i].id \in Nat \ {0}
  BY <1>1 DEF Held, NoRow
<1>5. CASE history = << >>
  BY <1>5 DEF FreeId, NoRow
<1>6. CASE history # << >>
  <2> DEFINE ids   == IdsOf(history)
             above == {n \in Nat : \A id \in ids : id <= n}
  <2>1. ids \subseteq Nat \ {0} /\ ids # {}
    <3>1. 1 \in DOMAIN history
      BY <1>2, <1>6
    <3> QED
      BY <3>1, <1>4 DEF IdsOf
  <2>2. above # {}
    <3> DEFINE f == [i \in DOMAIN history |-> history[i].id]
    <3>1. f \in [1..Len(history) -> Nat]
      BY <1>3, <1>4
    <3> HIDE DEF f
    <3>2. PICK n \in Nat : \A i \in 1..Len(history) : f[i] <= n
      BY <1>3, <3>1, NumbersAreBounded
    <3>3. \A i \in DOMAIN history : f[i] = history[i].id
      BY DEF f
    <3>4. \A id \in ids : id <= n
      BY <1>3, <3>2, <3>3 DEF IdsOf
    <3> QED
      BY <3>4
  <2>3. PICK n \in above : \A m \in above : n <= m
    <3>1. above \subseteq Nat
      OBVIOUS
    <3> HIDE DEF above
    <3> QED
      BY <2>2, <3>1, LeastExists
  <2> HIDE DEF ids
  <2>4. n \in ids
    <3>1. SUFFICES ASSUME n \notin ids PROVE FALSE
      OBVIOUS
    <3>2. n \in Nat /\ \A id \in ids : id <= n /\ id # n /\ id \in Nat /\ id > 0
      BY <2>1, <2>3, <3>1
    <3>3. n > 0
      <4>1. PICK id \in ids : TRUE
        BY <2>1
      <4>2. n \in Nat /\ id \in Nat /\ id <= n /\ id > 0
        BY <3>2, <4>1
      <4> QED
        BY <4>2
    <3>4. n - 1 \in Nat /\ \A id \in ids : id <= n - 1
      BY <3>2, <3>3
    <3> QED
      BY <2>3, <3>2, <3>4
  <2>5. \A id \in ids : n >= id
    BY <2>1, <2>3
  <2>6. Max(ids) \in ids /\ \A id \in ids : Max(ids) >= id
    BY <2>4, <2>5 DEF Max
  <2>7. FreeId = 1 + Max(ids)
    BY <1>6 DEF FreeId, ids
  <2>8. FreeId \in Nat \ {0} /\ \A id \in ids : id # FreeId
    <3>1. PICK top \in ids : top = Max(ids)
      BY <2>6
    <3>2. top \in Nat /\ \A id \in ids : id \in Nat /\ top >= id
      BY <2>1, <2>6, <3>1
    <3>3. FreeId = 1 + top
      BY <2>7, <3>1
    <3> QED
      BY <3>2, <3>3
  <2> QED
    BY <2>8 DEF ids, IdsOf, NoRow
<1> QED
  BY <1>5, <1>6

LEMMA CopyIsSound ==
  ASSUME HistoryTyped, captures \in Nat
  PROVE  /\ SoundHistory(<<[id |-> FreeId, at |-> captures + 1]>> \o history, captures + 1)
         /\ \A k \in DOMAIN (<<[id |-> FreeId, at |-> captures + 1]>> \o history) :
              \/ (<<[id |-> FreeId, at |-> captures + 1]>> \o history)[k]
                   = [id |-> FreeId, at |-> captures + 1]
              \/ \E j \in DOMAIN history :
                   (<<[id |-> FreeId, at |-> captures + 1]>> \o history)[k] = history[j]
<1> DEFINE first == [id |-> FreeId, at |-> captures + 1]
<1>1. FreeId \in Nat \ {NoRow} /\ \A i \in DOMAIN history : history[i].id # FreeId
  BY FreeIdIsNew
<1>2. first \in Held(captures + 1) /\ first.id = FreeId
  BY <1>1 DEF Held
<1>3. Held(captures) \subseteq Held(captures + 1)
  BY DEF Held
<1>4. SoundHistory(history, captures + 1)
  <2> HIDE DEF Held
  <2>1. SoundHistory(history, captures)
    BY HistoryIsSound
  <2> QED
    BY <2>1, <1>3 DEF SoundHistory
<1> HIDE DEF first
<1>5. /\ SoundHistory(<<first>> \o history, captures + 1)
      /\ \A k \in DOMAIN (<<first>> \o history) :
           \/ (<<first>> \o history)[k] = first
           \/ \E j \in DOMAIN history : (<<first>> \o history)[k] = history[j]
  BY <1>1, <1>2, <1>4, FrontedIsSound
<1> QED
  BY <1>5 DEF first

LEMMA SaidKeepsTypes ==
  ASSUME NEW R, Queues(R), NEW type \in Saying, Emit(Says(type))
  PROVE  events' \in Seq(Event(R)) /\ Len(events') <= EventCap + 2
<1>1. Says(type) \in Seq(Event(R)) /\ Len(Says(type)) \in {1, 2}
  BY SaysIsEvents
<1> QED
  BY <1>1, EmittedIs

LEMMA JudgedIsSaying ==
  ASSUME NEW o
  PROVE  Judged(o) \in {"down", "up", "untrusted"}
BY DEF Judged

(* The worker changes nothing of the model; what it leaves of the history  *)
(* is sound.                                                               *)
LEMMA WorkerKeepsTypes ==
  ASSUME TypedInv, NEW R, R = Known, Worker \/ HearToggle, moves' \in 0..Moves
  PROVE  ModelIn(R)' /\ Queues(R)' /\ WorkerTyped' /\ HistoryTyped' /\ captures' = captures
<1>0. /\ ModelIn(R) /\ Queues(R) /\ WorkerTyped /\ HistoryTyped
      /\ captures \in Nat
  BY DEF TypedInv, WorkerTyped
<1> USE DEF modelVars, thumbVars, queueVars, workerVars, signalVars, daemonVars
<1>1. ASSUME NEW type \in Saying, Emit(Says(type))
      PROVE  events' \in Seq(Event(R)) /\ Len(events') <= EventCap + 2
  BY <1>0, <1>1, SaidKeepsTypes
<1>2. CASE StartWorker
  <2>1. events' \in Seq(Event(R)) /\ Len(events') <= EventCap + 2
    BY <1>1, <1>2 DEF StartWorker, Saying
  <2> QED
    BY <1>0, <1>2, <2>1 DEF StartWorker, ModelIn, Queues, WorkerTyped, HistoryTyped, Stages
<1>3. CASE FailToConnect
  <2>1. events' \in Seq(Event(R)) /\ Len(events') <= EventCap + 2
    <3>1. CASE Emit(Says("down"))
      BY <1>1, <3>1 DEF Saying
    <3>2. CASE Emit(Says("failed") \o Says("down"))
      <4>1. Says("failed") \o Says("down") \in Seq(Event(R)) /\ Len(Says("failed") \o Says("down")) = 2
        <5>1. "failed" \in Saying /\ "down" \in Saying
          BY DEF Saying
        <5>2. Says("failed") \in Seq(Event(R)) /\ Says("down") \in Seq(Event(R))
          BY <5>1, SaysIsEvents
        <5>3. Len(Says("failed")) = 1 /\ Len(Says("down")) = 1
          BY <5>1, SaysIsEvents
        <5>4. /\ Says("failed") \o Says("down") \in Seq(Event(R))
              /\ Len(Says("failed") \o Says("down")) = Len(Says("failed")) + Len(Says("down"))
          BY <5>2, JoinedAt
        <5>5. 1 + 1 = 2
          OBVIOUS
        <5> QED
          BY <5>3, <5>4, <5>5, Zenon
      <4>2. Len(Says("failed") \o Says("down")) \in {1, 2}
        BY <4>1
      <4> QED
        BY <1>0, <3>2, <4>1, <4>2, EmittedIs
    <3> QED
      BY <1>3, <3>1, <3>2 DEF FailToConnect
  <2>2. requests' \in Seq(Request(R)) /\ Len(requests') <= RequestCap
    BY <1>3, PickerAssumption DEF FailToConnect
  <2> QED
    BY <1>0, <1>3, <2>1, <2>2 DEF FailToConnect, ModelIn, Queues, WorkerTyped, HistoryTyped, Stages
<1>4. CASE Subscribe \/ WatchName
  BY <1>0, <1>4
  DEF Subscribe, WatchName, pickerVars, ModelIn, Queues, WorkerTyped, HistoryTyped, Stages
<1>5. CASE AskOwner
  <2>1. events' \in Seq(Event(R)) /\ Len(events') <= EventCap + 2
    BY <1>1, <1>5, JudgedIsSaying DEF AskOwner, Saying
  <2> QED
    BY <1>0, <1>5, <2>1 DEF AskOwner, ModelIn, Queues, WorkerTyped, HistoryTyped, Stages
<1>6. CASE Serve
  <2>1. /\ requests # << >> /\ requests' = Tail(requests)
        /\ UNCHANGED <<modelVars, open, thumbVars, link, inbox, missed, workerVars,
                       owners, captures, owner, lives>>
        /\ \/ UNCHANGED <<history, changed>>
           \/ /\ changed' = TRUE /\ Head(requests).type \in Acts
              /\ \E i \in DOMAIN history : history' = After(Head(requests), i)
        /\ \/ UNCHANGED events
           \/ \E e \in Event(R) : Emit(<<e>>)
    BY <1>0, <1>6, ServedIs
  <2>2. requests' \in Seq(Request(R)) /\ Len(requests') <= RequestCap
    <3>1. requests \in Seq(Request(R)) /\ Len(requests) <= RequestCap
      BY <1>0 DEF Queues
    <3>2. Tail(requests) \in Seq(Request(R)) /\ Len(Tail(requests)) = Len(requests) - 1 /\ Len(requests) \in Nat
      BY <2>1, <3>1, RestIs
    <3> QED
      BY <2>1, <3>1, <3>2, PickerAssumption
  <2>3. events' \in Seq(Event(R)) /\ Len(events') <= EventCap + 2
    <3>1. CASE UNCHANGED events
      BY <1>0, <3>1 DEF Queues
    <3>2. CASE \E e \in Event(R) : Emit(<<e>>)
      <4>1. PICK e \in Event(R) : Emit(<<e>>)
        BY <3>2
      <4>2. <<e>> \in Seq(Event(R)) /\ Len(<<e>>) \in {1, 2}
        BY OneEvent
      <4> QED
        BY <1>0, <4>1, <4>2, EmittedIs
    <3> QED
      BY <2>1, <3>1, <3>2
  <2>4. SoundHistory(history', captures)
    BY <1>0, <2>1, AfterIsSound, HistoryIsSound
  <2>5. HistoryTyped'
    BY <2>1, <2>4 DEF HistoryTyped, SoundHistory, Held
  <2> QED
    BY <1>0, <2>1, <2>2, <2>3, <2>5 DEF ModelIn, Queues, WorkerTyped
<1>7. CASE HearHistoryChanged
  <2>1. events' \in Seq(Event(R)) /\ Len(events') <= EventCap + 2
    BY <1>0, <1>1, <1>7 DEF HearHistoryChanged, Saying, Queues
  <2> QED
    BY <1>0, <1>7, <2>1 DEF HearHistoryChanged, ModelIn, Queues, WorkerTyped, HistoryTyped
<1>8. CASE HearOwner
  <2>1. events' \in Seq(Event(R)) /\ Len(events') <= EventCap + 2
    BY <1>1, <1>8, JudgedIsSaying DEF HearOwner, Saying
  <2>2. owners' \in Seq(Holders)
    BY <1>0, <1>8, RestIs DEF HearOwner, WorkerTyped
  <2> QED
    BY <1>0, <1>8, <2>1, <2>2 DEF HearOwner, ModelIn, Queues, WorkerTyped, HistoryTyped
<1>9. CASE HearToggle
  <2>1. events' \in Seq(Event(R)) /\ Len(events') <= EventCap + 2
    BY <1>1, <1>9 DEF HearToggle, Saying
  <2> QED
    BY <1>0, <1>9, <2>1 DEF HearToggle, ModelIn, Queues, WorkerTyped, HistoryTyped
<1> QED
  BY <1>2, <1>3, <1>4, <1>5, <1>6, <1>7, <1>8, <1>9 DEF Worker

(* A copy makes one more row that there has been.                          *)
LEMMA MoreAreKnown ==
  ASSUME NEW n \in Nat, ModelIn(KnownRow(n)), Queues(KnownRow(n)),
         UNCHANGED <<pickerVars>>
  PROVE  ModelIn(KnownRow(n + 1))' /\ Queues(KnownRow(n + 1))'
<1> DEFINE R == KnownRow(n)
           S == KnownRow(n + 1)
<1>1. R \subseteq S
  BY DEF KnownRow
<1> HIDE DEF R, S
<1>2. Pictures(R) \subseteq Pictures(S)
  BY <1>1 DEF Pictures
<1>3. \A list \in Seq(R) : list \in Seq(S)
  BY <1>1
<1>4. Event(R) \subseteq Event(S) /\ Request(R) \subseteq Request(S)
  <2> HIDE DEF Pictures
  <2>1. Event(R) \subseteq Event(S)
    BY <1>2, <1>3 DEF Event
  <2>2. Request(R) \subseteq Request(S)
    BY <1>2 DEF Request
  <2> QED
    BY <2>1, <2>2
<1>5. ModelIn(R) /\ Queues(R)
  BY DEF R
<1>6. ModelIn(S)'
  BY <1>2, <1>3, <1>5 DEF ModelIn, pickerVars, modelVars, thumbVars, queueVars
<1>7. Queues(S)'
  <2>1. events \in Seq(Event(R)) /\ requests \in Seq(Request(R))
    BY <1>5 DEF Queues
  <2>2. events \in Seq(Event(S)) /\ requests \in Seq(Request(S))
    BY <2>1, <1>4
  <2> QED
    BY <2>2, <1>5 DEF Queues, pickerVars, queueVars
<1> QED
  BY <1>6, <1>7 DEF S

LEMMA NameGoesKeepsTypes ==
  ASSUME TypedInv, NEW R, R = Known, NEW o \in Holders, NameGoesTo(o),
         lives' \in 0..Lives, moves' \in 0..Moves
  PROVE  ModelIn(R)' /\ Queues(R)' /\ WorkerTyped' /\ HistoryTyped' /\ captures' = captures
<1>0. ModelIn(R) /\ Queues(R) /\ WorkerTyped /\ HistoryTyped
  BY DEF TypedInv
<1>1. owners' \in Seq(Holders)
  <2>1. owners \in Seq(Holders) /\ Append(owners, o) \in Seq(Holders)
    BY <1>0, OneMore DEF WorkerTyped
  <2> QED
    BY <2>1 DEF NameGoesTo
<1> QED
  BY <1>0, <1>1
  DEF NameGoesTo, UnchangedApplet, pickerVars, modelVars, thumbVars, queueVars, workerVars,
      ModelIn, Queues, WorkerTyped, HistoryTyped

LEMMA DesktopKeepsTypes ==
  ASSUME TypedInv, NEW R, R = Known, Desktop, moves' \in 0..Moves
  PROVE  \/ ModelIn(R)' /\ Queues(R)' /\ WorkerTyped' /\ HistoryTyped' /\ captures' = captures
         \/ Copied /\ TypedInv'
<1>0. /\ ModelIn(R) /\ Queues(R) /\ WorkerTyped /\ HistoryTyped
      /\ captures \in Nat /\ lives \in Nat /\ Heard \in BOOLEAN
      /\ Captures \in Nat /\ Lives \in Nat
  BY AppletAssumption DEF TypedInv, WorkerTyped, Heard
<1>1. CASE Copied
  <2>1. /\ captures' = captures + 1 /\ captures' \in 0..Captures
        /\ history' = <<[id |-> FreeId, at |-> captures + 1]>> \o history
        /\ changed' = Heard /\ UNCHANGED <<pickerVars, workerVars, owners, owner, lives>>
    BY <1>0, <1>1 DEF Copied, UnchangedApplet
  <2>2. HistoryTyped'
    <3>1. SoundHistory(history', captures + 1)
      BY <1>0, <2>1, CopyIsSound
    <3> QED
      BY <2>1, <3>1 DEF HistoryTyped, SoundHistory, Held
  <2>3. ModelIn(KnownRow(captures)) /\ Queues(KnownRow(captures)) /\ UNCHANGED <<pickerVars>>
    BY <1>0, <2>1 DEF Known
  <2>4. PICK n \in Nat : n = captures
    BY <1>0
  <2>5. ModelIn(KnownRow(n)) /\ Queues(KnownRow(n))
    BY <2>3, <2>4
  <2>6. ModelIn(KnownRow(n + 1))' /\ Queues(KnownRow(n + 1))'
    BY <2>3, <2>5, MoreAreKnown
  <2>7. Known' = KnownRow(n + 1)
    BY <2>1, <2>4 DEF Known
  <2>8. ModelIn(Known)' /\ Queues(Known)'
    BY <2>6, <2>7 DEF ModelIn, Queues
  <2>9. WorkerTyped'
    BY <1>0, <2>1 DEF workerVars, WorkerTyped
  <2> QED
    BY <1>1, <2>2, <2>8, <2>9 DEF TypedInv
<1>2. CASE Removed
  <2>1. PICK i \in DOMAIN history : history' = RemoveAt(history, i)
    BY <1>2 DEF Removed
  <2>2. SoundHistory(history', captures)
    BY <1>0, <2>1, RemovedIsSound, HistoryIsSound
  <2>3. HistoryTyped'
    BY <1>2, <2>2 DEF Removed, HistoryTyped, SoundHistory, Held
  <2> QED
    BY <1>0, <1>2, <2>3
    DEF Removed, UnchangedApplet, pickerVars, modelVars, thumbVars, queueVars, workerVars,
        ModelIn, Queues, WorkerTyped
<1>3. CASE ClippodStarts
  <2>1. lives + 1 \in Nat /\ lives' \in 0..Lives /\ NameGoesTo(Clippod(lives + 1))
    BY <1>0, <1>3 DEF ClippodStarts
  <2>2. Clippod(lives + 1) \in Holders
    BY <2>1 DEF Holders
  <2> QED
    BY <2>1, <2>2, NameGoesKeepsTypes
<1>4. CASE ImpostorTakes \/ NameIsLeft
  <2>1. lives' \in 0..Lives /\ (NameGoesTo(Impostor) \/ NameGoesTo(Absent))
    BY <1>0, <1>4 DEF ImpostorTakes, NameIsLeft, WorkerTyped
  <2>2. Impostor \in Holders /\ Absent \in Holders
    BY DEF Holders
  <2> QED
    BY <2>1, <2>2, NameGoesKeepsTypes
<1>5. CASE ImpostorAnnounces
  BY <1>0, <1>5
  DEF ImpostorAnnounces, UnchangedApplet, pickerVars, modelVars, thumbVars, queueVars, workerVars,
      daemonVars, ModelIn, Queues, WorkerTyped, HistoryTyped
<1> QED
  BY <1>1, <1>2, <1>3, <1>4, <1>5 DEF Desktop

LEMMA TypesAtFirst == Init => TypedInv
<1> SUFFICES ASSUME Init PROVE TypedInv
  OBVIOUS
<1>1. NoQuery \in Queries /\ RequestCap \in Nat /\ {EventCap, Captures, Lives, Moves} \subseteq Nat
     /\ Lives > 0
  BY PickerAssumption, AppletAssumption
<1>2. ModelIn(Known)
  <2>1. DOMAIN decoded = {} /\ rows \in Seq(Known)
    BY DEF Init, PickerInit
  <2> QED
    BY <1>1, <2>1 DEF Init, PickerInit, ModelIn, NothingOrOne, NoRow, Statuses
<1>3. Queues(Known)
  BY <1>1 DEF Init, PickerInit, Queues
<1>4. WorkerTyped
  <2>1. owner \in Holders
    BY DEF Init, Holders
  <2>2. lives \in 0..Lives
    BY <1>1 DEF Init
  <2>3. captures \in 0..Captures /\ moves \in 0..Moves
    BY <1>1 DEF Init
  <2>4. owners \in Seq(Holders)
    BY DEF Init
  <2> QED
    BY <2>1, <2>2, <2>3, <2>4 DEF Init, WorkerTyped, Stages
<1>5. HistoryTyped
  BY DEF Init, HistoryTyped
<1> QED
  BY <1>2, <1>3, <1>4, <1>5 DEF TypedInv

LEMMA TypesKept == TypedInv /\ [Next]_vars => TypedInv'
<1> SUFFICES ASSUME TypedInv, [Next]_vars PROVE TypedInv'
  OBVIOUS
<1> DEFINE R == Known
<1>0. /\ ModelIn(Known) /\ Queues(Known) /\ WorkerTyped /\ HistoryTyped
      /\ Known \in SUBSET Row /\ Captures \in Nat /\ Moves \in Nat
  BY KnownAreRows, AppletAssumption DEF TypedInv
<1>1. PICK S : S = Known
  OBVIOUS
<1>2. ASSUME ModelIn(S)', Queues(S)', WorkerTyped', HistoryTyped', captures' = captures
      PROVE  TypedInv'
  <2>1. Known' = S
    BY <1>1, <1>2 DEF Known
  <2> QED
    BY <1>2, <2>1 DEF TypedInv, ModelIn, Queues
<1>3. ASSUME Moved PROVE moves' \in 0..Moves
  BY <1>0, <1>3 DEF Moved, WorkerTyped
<1>4. ASSUME UNCHANGED moves PROVE moves' \in 0..Moves
  BY <1>0, <1>4 DEF WorkerTyped
<1>5. ASSUME Others, moves' \in 0..Moves PROVE WorkerTyped' /\ HistoryTyped' /\ captures' = captures
  BY <1>0, <1>5 DEF Others, workerVars, signalVars, daemonVars, WorkerTyped, HistoryTyped
<1>6. CASE Keys /\ Others /\ Moved
  <2>1. ModelIn(S)' /\ Queues(S)'
    BY <1>0, <1>1, <1>6, KeysKeepTypes
  <2> QED
    BY <1>2, <1>3, <1>5, <1>6, <2>1
<1>7. CASE (HearToggle /\ Moved) \/ (Worker /\ UNCHANGED moves)
  BY <1>1, <1>2, <1>3, <1>4, <1>7, WorkerKeepsTypes
<1>8. CASE Desktop /\ Moved
  BY <1>1, <1>2, <1>3, <1>8, DesktopKeepsTypes
<1>9. CASE Hears /\ UNCHANGED moves
  <2>1. ModelIn(S)' /\ Queues(S)'
    BY <1>0, <1>1, <1>9, OnBusKeepsTypes DEF Hears
  <2> QED
    BY <1>2, <1>4, <1>5, <1>9, <2>1 DEF Hears
<1>10. CASE UNCHANGED vars
  BY <1>0, <1>1, <1>2, <1>10
  DEF vars, system, pickerVars, modelVars, thumbVars, queueVars, workerVars, signalVars, daemonVars,
      ModelIn, Queues, WorkerTyped, HistoryTyped
<1> QED
  BY <1>6, <1>7, <1>8, <1>9, <1>10 DEF Next

(* Whatever the worker, the desktop and the user do, the picker holds what *)
(* it should: one revealed value at most, keys of rows there have been,    *)
(* queues within their bounds (bus.rs request_channel, worker).            *)
THEOREM AppletIsTyped == Spec => []AppletTypeOK
<1>1. TypedInv => AppletTypeOK
  <2> SUFFICES ASSUME TypedInv PROVE AppletTypeOK
    OBVIOUS
  <2>0. ModelIn(Known) /\ Queues(Known) /\ WorkerTyped /\ HistoryTyped /\ Known \in SUBSET Row
    BY KnownAreRows DEF TypedInv
  <2>1. rows \in Seq(Row) /\ Pictures(Known) \subseteq Row
    BY <2>0 DEF ModelIn, Pictures
  <2>2. history \in Seq(Row)
    <3>1. Held(captures) \subseteq Row
      BY <2>0 DEF Held, Row, WorkerTyped
    <3>2. history \in Seq(Held(captures))
      BY <2>0, HistoryIsSound DEF SoundHistory
    <3> QED
      BY <3>1, <3>2
  <2>3. revealed \subseteq [id : Nat, value : Nat] /\ Cardinality(revealed) <= 1
    <3>1. CASE revealed = {}
      <4>1. Cardinality(revealed) = 0
        BY <3>1, FS_EmptySet
      <4>2. 0 <= 1
        OBVIOUS
      <4>3. Cardinality(revealed) <= 1
        BY <4>1, <4>2, Zenon
      <4>4. revealed \subseteq [id : Nat, value : Nat]
        BY <3>1
      <4> QED
        BY <4>3, <4>4
    <3>2. CASE \E h \in [id : Nat, value : Nat] : revealed = {h}
      <4>1. Cardinality(revealed) = 1
        BY <3>2, FS_Singleton
      <4>2. 1 <= 1
        OBVIOUS
      <4>3. Cardinality(revealed) <= 1
        BY <4>1, <4>2, Zenon
      <4>4. revealed \subseteq [id : Nat, value : Nat]
        BY <3>2
      <4> QED
        BY <4>3, <4>4
    <3> QED
      BY <2>0, <3>1, <3>2 DEF ModelIn, NothingOrOne
  <2>4. PickerTypeOK
    BY <2>0, <2>1, <2>3 DEF ModelIn, Queues, PickerTypeOK
  <2> QED
    BY <2>0, <2>2, <2>4 DEF AppletTypeOK, WorkerTyped, Queues
<1> QED
  BY <1>1, TypesAtFirst, TypesKept, PTL DEF Spec

-----------------------------------------------------------------------------
(* The highlight.                                                          *)

LEMMA HighlightSame ==
  ASSUME HighlightIsRight, UNCHANGED <<rows, selected, shown, query, landAtTop>>, open' => open
  PROVE  HighlightIsRight'
BY DEF HighlightIsRight, SelectedIsListed, FreshRankingLandsOnTop

LEMMA KeysKeepHighlight ==
  ASSUME TypedInv, HighlightIsRight, Keys
  PROVE  HighlightIsRight'
<1>0. rows \in Seq(Row) /\ landAtTop \in BOOLEAN
  <2>1. rows \in Seq(Known) /\ Known \in SUBSET Row /\ landAtTop \in BOOLEAN
    BY KnownAreRows DEF TypedInv, ModelIn
  <2> QED
    BY <2>1
<1>1. ASSUME Dismiss PROVE HighlightIsRight'
  BY <1>1, HighlightSame DEF Dismiss
<1>2. ASSUME Present PROVE HighlightIsRight'
  BY <1>2 DEF Present, HighlightIsRight, SelectedIsListed, FreshRankingLandsOnTop
<1>3. CASE IconPressed \/ SurfaceGone
  BY <1>1, <1>2, <1>3 DEF IconPressed, SurfaceGone, Toggle
<1>4. ASSUME NEW id, Activate(id), id = selected \/ id \in IdsOf(rows)
      PROVE  HighlightIsRight'
  <2>1. UNCHANGED <<rows, shown, query, landAtTop>> /\ selected' = id /\ (open' => open)
    BY <1>4 DEF Activate
  <2>2. SelectedIsListed'
    BY <1>4, <2>1 DEF HighlightIsRight, SelectedIsListed, IdsOf
  <2> QED
    BY <2>1, <2>2 DEF HighlightIsRight, FreshRankingLandsOnTop
<1>5. CASE Enter
  BY <1>4, <1>5 DEF Enter
<1>6. CASE Delete \/ Reveal \/ TogglePin
  BY <1>6, HighlightSame DEF Delete, Reveal, TogglePin, AskAbout, modelVars
<1>7. ASSUME NEW down \in BOOLEAN, Move(down)
      PROVE  HighlightIsRight'
  <2>1. PICK from \in RowOf(selected) : selected' = rows[Step(from, down)].id
    BY <1>7 DEF Move
  <2>2. Step(from, down) \in DOMAIN rows
    BY <1>0, StepStaysOnTheList DEF RowOf
  <2>3. UNCHANGED <<rows, shown, query, landAtTop, open>>
    BY <1>7 DEF Move
  <2>4. SelectedIsListed'
    <3>1. rows # << >>
      BY <2>2
    <3> QED
      BY <3>1, <2>1, <2>2, <2>3 DEF SelectedIsListed, IdsOf
  <2> QED
    BY <2>3, <2>4 DEF HighlightIsRight, FreshRankingLandsOnTop
<1>8. ASSUME NEW text \in Queries, QueryChanged(text)
      PROVE  HighlightIsRight'
  <2>1. /\ open /\ query' = text /\ landAtTop' = (landAtTop \/ text # query)
        /\ UNCHANGED <<rows, selected, shown>>
    BY <1>8 DEF QueryChanged
  <2>2. SelectedIsListed'
    BY <2>1 DEF HighlightIsRight, SelectedIsListed
  <2>3. FreshRankingLandsOnTop'
    BY <2>1, Zenon DEF HighlightIsRight, FreshRankingLandsOnTop
  <2> QED
    BY <2>2, <2>3 DEF HighlightIsRight
<1>9. ASSUME NEW id \in 1..Captures, Chose(id)
      PROVE  HighlightIsRight'
  BY <1>4, <1>9 DEF Chose
<1> QED
  BY <1>3, <1>5, <1>6, <1>7, <1>8, <1>9 DEF Keys

LEMMA OnBusKeepsHighlight ==
  ASSUME TypedInv, HighlightIsRight, OnBus
  PROVE  HighlightIsRight'
<1>1. CASE OnReady \/ OnRevealed \/ OnThumbnail \/ OnFailed
  BY <1>1, HighlightSame DEF OnReady, OnRevealed, OnThumbnail, OnFailed, modelVars
<1>2. CASE OnEntries
  <2> DEFINE answer == Head(events)
  <2>1. CASE ~Accepts(answer.query)
    BY <1>2, <2>1, HighlightSame DEF OnEntries, modelVars
  <2>2. CASE Accepts(answer.query)
    <3>1. /\ ModelIn(Known) /\ Queues(Known) /\ Known \in SUBSET Row
      BY KnownAreRows DEF TypedInv
    <3>2. answer \in Event(Known) /\ answer.type = "entries"
      BY <1>2, <3>1, HeardIs DEF OnEntries
    <3>3. answer.rows \in Seq(Known)
      BY <3>2, EventFacts
    <3> HIDE DEF answer
    <3>4. rows \in Seq(Row) /\ answer.rows \in Seq(Row)
      BY <3>1, <3>3 DEF ModelIn
    <3>5. SetEntries(answer.query, answer.rows) /\ answer.query = query
      BY <1>2, <2>2 DEF OnEntries, Accepts, answer
    <3>6. SelectedIsListed'
      BY <3>4, <3>5, HighlightLands
    <3>7. FreshRankingLandsOnTop'
      BY <3>5 DEF SetEntries, FreshRankingLandsOnTop
    <3> QED
      BY <3>6, <3>7 DEF HighlightIsRight
  <2> QED
    BY <2>1, <2>2
<1>3. CASE OnToggle
  <2>1. CASE Dismiss
    BY <2>1, HighlightSame DEF Dismiss
  <2>2. CASE Present
    BY <2>2 DEF Present, HighlightIsRight, SelectedIsListed, FreshRankingLandsOnTop
  <2> QED
    BY <1>3, <2>1, <2>2 DEF OnToggle, Toggle
<1>4. CASE OnDaemonUp
  BY <1>4, HighlightSame DEF OnDaemonUp, SetStatus
<1>5. CASE OnDaemonGone
  <2>1. /\ rows' = << >> /\ selected' = NoRow
        /\ UNCHANGED <<query, landAtTop, shown, open>>
    BY <1>5 DEF OnDaemonGone, SetStatus
  <2> QED
    BY <2>1 DEF HighlightIsRight, SelectedIsListed, FreshRankingLandsOnTop
<1> QED
  BY <1>1, <1>2, <1>3, <1>4, <1>5 DEF OnBus

LEMMA HighlightKept == TypedInv /\ HighlightIsRight /\ [Next]_vars => HighlightIsRight'
<1> SUFFICES ASSUME TypedInv, HighlightIsRight, [Next]_vars PROVE HighlightIsRight'
  OBVIOUS
<1>1. CASE Keys \/ Hears
  BY <1>1, KeysKeepHighlight, OnBusKeepsHighlight DEF Hears
<1>2. CASE Desktop
  <2>1. UNCHANGED pickerVars
    BY <1>2
    DEF Desktop, Copied, Removed, ClippodStarts, ImpostorTakes, NameIsLeft, ImpostorAnnounces,
        NameGoesTo, UnchangedApplet
  <2> QED
    BY <2>1, HighlightSame DEF pickerVars, modelVars
<1>3. CASE Worker \/ HearToggle
  <2>1. UNCHANGED <<modelVars, open>>
    BY <1>3
    DEF Worker, StartWorker, FailToConnect, Subscribe, WatchName, AskOwner, Serve,
        HearHistoryChanged, HearOwner, HearToggle, pickerVars
  <2> QED
    BY <2>1, HighlightSame DEF modelVars
<1>4. CASE UNCHANGED vars
  BY <1>4, HighlightSame DEF vars, system, pickerVars, modelVars
<1> QED
  BY <1>1, <1>2, <1>3, <1>4 DEF Next

(* Through every change of the list, of the query and of the owner the     *)
(* highlight stays on a row that is drawn, and the list that answers a new *)
(* query puts it at the top, however many overtaken ones come before it    *)
(* (model.rs set_entries, set_query, set_status).                          *)
THEOREM HighlightIsAlwaysRight == Spec => []HighlightIsRight
<1>1. Init => HighlightIsRight
  BY DEF Init, PickerInit, HighlightIsRight, SelectedIsListed, FreshRankingLandsOnTop
<1> QED
  BY <1>1, HighlightKept, TypesAtFirst, TypesKept, PTL DEF Spec

-----------------------------------------------------------------------------
(* How the queues move.                                                    *)

Grew(old, new) == \A i \in DOMAIN old : i \in DOMAIN new /\ new[i] = old[i]

(* Its first is gone.                                                      *)
Shifted(old, new) ==
  /\ 1 \in DOMAIN old /\ DOMAIN old \subseteq Nat \ {0} /\ DOMAIN new \subseteq Nat \ {0}
  /\ \A i \in DOMAIN new : i + 1 \in DOMAIN old /\ new[i] = old[i + 1]
  /\ \A i \in DOMAIN old : i # 1 => i - 1 \in DOMAIN new /\ new[i - 1] = old[i]

(* It has one more, behind all it had, at n.                               *)
Extended(old, new, e, n) ==
  /\ Grew(old, new) /\ n \in Nat \ {0} /\ DOMAIN old \subseteq Nat \ {0}
  /\ n \in DOMAIN new /\ new[n] = e
  /\ \A i \in DOMAIN old : i < n
  /\ \A i \in DOMAIN new : i = n \/ i \in DOMAIN old

LEMMA TailIsShifted ==
  ASSUME NEW S, NEW s \in Seq(S), s # << >>
  PROVE  Shifted(s, Tail(s)) /\ Head(s) = s[1]
<1>1. /\ Len(s) \in Nat /\ Len(s) >= 1 /\ Head(s) = s[1]
      /\ DOMAIN s = 1..Len(s) /\ DOMAIN Tail(s) = 1..(Len(s) - 1)
      /\ \A i \in 1..(Len(s) - 1) : Tail(s)[i] = s[i + 1]
  BY RestIs
<1> HIDE DEF Tail
<1>2. \A i \in DOMAIN Tail(s) : i + 1 \in DOMAIN s /\ Tail(s)[i] = s[i + 1]
  BY <1>1
<1>3. ASSUME NEW i \in DOMAIN s, i # 1 PROVE i - 1 \in DOMAIN Tail(s) /\ Tail(s)[i - 1] = s[i]
  <2>1. i \in Nat /\ i - 1 \in 1..(Len(s) - 1) /\ (i - 1) + 1 = i
    BY <1>1, <1>3
  <2> QED
    BY <1>1, <2>1
<1> QED
  BY <1>1, <1>2, <1>3 DEF Shifted

LEMMA HeardIsShifted ==
  ASSUME NEW R, Queues(R), NEW type, Hear(type)
  PROVE  /\ Shifted(events, events') /\ Head(events) = events[1]
         /\ events[1] \in Event(R) /\ events[1].type = type
<1>1. events \in Seq(Event(R)) /\ events # << >> /\ events' = Tail(events)
  BY DEF Queues, Hear
<1> QED
  BY <1>1, TailIsShifted, HeardIs

LEMMA SaidIsExtended ==
  ASSUME NEW R, Queues(R), NEW e \in Event(R), Emit(<<e>>)
  PROVE  \E n : Extended(events, events', e, n)
<1> DEFINE list == <<e>>
           n == Len(events) + 1
<1>1. list \in Seq(Event(R)) /\ Len(list) \in {1, 2} /\ Len(list) = 1 /\ list[1] = e
  BY OneEvent
<1> HIDE DEF list
<1>2. Emit(list)
  BY DEF list
<1>3. /\ Len(events) \in Nat
      /\ DOMAIN events = 1..Len(events) /\ DOMAIN events' = 1..(Len(events) + Len(list))
      /\ \A i \in 1..Len(events) : events'[i] = events[i]
      /\ \A i \in 1..Len(list) : events'[Len(events) + i] = list[i]
  BY <1>1, <1>2, EmittedIs
<1>4. 1 \in 1..Len(list) /\ DOMAIN events' = 1..n /\ n \in Nat \ {0}
  BY <1>1, <1>3
<1>5. events'[n] = e
  BY <1>1, <1>3, <1>4
<1>6. Grew(events, events')
  BY <1>3, <1>4 DEF Grew
<1>7. /\ DOMAIN events \subseteq Nat \ {0} /\ n \in DOMAIN events'
      /\ \A i \in DOMAIN events : i < n
      /\ \A i \in DOMAIN events' : i = n \/ i \in DOMAIN events
  BY <1>3, <1>4
<1> HIDE DEF n
<1>8. Extended(events, events', e, n)
  BY <1>4, <1>5, <1>6, <1>7 DEF Extended
<1> QED
  BY <1>8

LEMMA SayingIsExtended ==
  ASSUME NEW R, Queues(R), NEW type \in Saying, Emit(Says(type))
  PROVE  \E n : Extended(events, events', [type |-> type], n)
<1>1. [type |-> type] \in Event(R) /\ Says(type) = <<[type |-> type]>>
  BY DEF Event, Says
<1> QED
  BY <1>1, SaidIsExtended

-----------------------------------------------------------------------------
(* What the UI does to its requests.                                       *)

(* A list that answers what is typed has been asked for, unless the        *)
(* request found no room.                                                  *)
RefreshAsked == \E i \in DOMAIN requests : requests[i] = Refresh(query)

LEMMA AskGrows ==
  ASSUME NEW R, Queues(R), NEW request \in Request(R), Ask(request)
  PROVE  /\ Grew(requests, requests')
         /\ ((link /\ inbox) \/ requests' = requests)
         /\ request.type # "refresh" => missed' = missed
         /\ request.type = "refresh" =>
              missed' \/ \E i \in DOMAIN requests' : requests'[i] = request
<1>1. /\ requests' \in Seq(Request(R)) /\ Len(requests) \in Nat
      /\ \/ requests' = requests /\ (request.type = "refresh" => missed')
         \/ /\ Len(requests') = Len(requests) + 1
            /\ \A i \in 1..Len(requests) : requests'[i] = requests[i]
            /\ requests'[Len(requests) + 1] = request
            /\ link /\ inbox
  BY AskIs
<1>2. request.type # "refresh" => missed' = missed
  BY DEF Ask
<1>3. requests \in Seq(Request(R))
  BY DEF Queues
<1>4. CASE requests' = requests /\ (request.type = "refresh" => missed')
  BY <1>2, <1>4 DEF Grew
<1>5. CASE /\ Len(requests') = Len(requests) + 1
           /\ \A i \in 1..Len(requests) : requests'[i] = requests[i]
           /\ requests'[Len(requests) + 1] = request
           /\ link /\ inbox
  <2>1. DOMAIN requests = 1..Len(requests) /\ DOMAIN requests' = 1..(Len(requests) + 1)
    BY <1>1, <1>3, <1>5
  <2>2. Grew(requests, requests')
    BY <1>1, <1>5, <2>1 DEF Grew
  <2>3. Len(requests) + 1 \in DOMAIN requests'
    BY <1>1, <2>1
  <2> QED
    BY <1>2, <1>5, <2>2, <2>3
<1> QED
  BY <1>1, <1>4, <1>5

(* What the UI does without hearing anything asks for more, and drops      *)
(* nothing it has asked for.                                               *)
Asking ==
  /\ UNCHANGED <<rows, asked, decoded, link, inbox>>
  /\ Grew(requests, requests') /\ ((link /\ inbox) \/ requests' = requests)
  /\ revealed' \in {revealed, {}}
  /\ open' => \/ open /\ UNCHANGED <<query, missed>>
              \/ missed' \/ RefreshAsked'

LEMMA SameIsGrown ==
  ASSUME requests' = requests
  PROVE  Grew(requests, requests')
BY DEF Grew

LEMMA ToggleAsks ==
  ASSUME NEW R, Queues(R), Toggle
  PROVE  Asking
<1>1. CASE Dismiss
  BY <1>1, SameIsGrown DEF Dismiss, Asking, thumbVars, queueVars
<1>2. CASE Present
  <2>1. Ask(Refresh(NoQuery)) /\ Refresh(NoQuery) \in Request(R) /\ Refresh(NoQuery).type = "refresh"
    BY <1>2, PickerAssumption, RequestsAre DEF Present
  <2>2. /\ Grew(requests, requests') /\ ((link /\ inbox) \/ requests' = requests)
        /\ missed' \/ \E i \in DOMAIN requests' : requests'[i] = Refresh(NoQuery)
    BY <2>1, AskGrows
  <2>3. query' = NoQuery
    BY <1>2 DEF Present
  <2>4. missed' \/ RefreshAsked'
    BY <2>2, <2>3 DEF RefreshAsked
  <2> QED
    BY <1>2, <2>2, <2>4 DEF Present, Asking, thumbVars
<1> QED
  BY <1>1, <1>2 DEF Toggle

LEMMA KeysAsk ==
  ASSUME TypedInv, Keys
  PROVE  Asking /\ events' = events
<1> DEFINE R == Known
<1>0. Queues(R) /\ Captures \in Nat /\ selected \in Nat
  BY AppletAssumption DEF TypedInv, ModelIn
<1> HIDE DEF R
<1>1. CASE IconPressed
  BY <1>0, <1>1, ToggleAsks DEF IconPressed
<1>2. CASE SurfaceGone
  BY <1>2, SameIsGrown DEF SurfaceGone, Dismiss, Asking, thumbVars, queueVars
<1>3. ASSUME NEW id \in Nat, Activate(id), open PROVE Asking /\ events' = events
  <2>1. CASE id = NoRow
    BY <1>3, <2>1, SameIsGrown DEF Activate, Asking, thumbVars, queueVars
  <2>2. CASE id # NoRow
    <3>1. Ask(About("paste", id)) /\ About("paste", id) \in Request(R)
      BY <1>3, <2>2, RequestsAre DEF Activate, Acts
    <3>2. Grew(requests, requests') /\ ((link /\ inbox) \/ requests' = requests)
      BY <1>0, <3>1, AskGrows
    <3> QED
      BY <1>3, <2>2, <3>2 DEF Activate, Asking, thumbVars
  <2> QED
    BY <2>1, <2>2
<1>4. CASE Enter
  BY <1>0, <1>3, <1>4 DEF Enter
<1>5. ASSUME NEW type \in Acts \cup {"reveal"}, AskAbout(About(type, selected))
      PROVE  Asking /\ events' = events
  <2>1. /\ Ask(About(type, selected)) /\ About(type, selected) \in Request(R)
        /\ About(type, selected).type # "refresh"
    BY <1>0, <1>5, RequestsAre DEF AskAbout, Acts
  <2>2. Grew(requests, requests') /\ ((link /\ inbox) \/ requests' = requests) /\ missed' = missed
    BY <1>0, <2>1, AskGrows
  <2> QED
    BY <1>5, <2>2 DEF AskAbout, Asking, thumbVars, modelVars
<1>6. CASE Delete \/ Reveal \/ TogglePin
  BY <1>5, <1>6 DEF Delete, Reveal, TogglePin, Acts
<1>7. ASSUME NEW down \in BOOLEAN, Move(down)
      PROVE  Asking /\ events' = events
  BY <1>7, SameIsGrown DEF Move, Asking, thumbVars, queueVars
<1>8. ASSUME NEW text \in Queries, QueryChanged(text)
      PROVE  Asking /\ events' = events
  <2>1. Ask(Refresh(text)) /\ Refresh(text) \in Request(R) /\ Refresh(text).type = "refresh"
    BY <1>8, RequestsAre DEF QueryChanged
  <2>2. /\ Grew(requests, requests') /\ ((link /\ inbox) \/ requests' = requests)
        /\ missed' \/ \E i \in DOMAIN requests' : requests'[i] = Refresh(text)
    BY <1>0, <2>1, AskGrows
  <2>3. query' = text
    BY <1>8 DEF QueryChanged
  <2>4. missed' \/ RefreshAsked'
    BY <2>2, <2>3 DEF RefreshAsked
  <2> QED
    BY <1>8, <2>2, <2>4 DEF QueryChanged, Asking, thumbVars
<1>9. ASSUME NEW id \in 1..Captures, Chose(id)
      PROVE  Asking /\ events' = events
  <2>1. id \in Nat
    BY <1>0
  <2> QED
    BY <1>0, <1>3, <1>9, <2>1 DEF Chose
<1> QED
  BY <1>1, <1>2, <1>4, <1>6, <1>7, <1>8, <1>9 DEF Keys

-----------------------------------------------------------------------------
(* How the worker begins, and what it knows of the owner.                  *)

(* Until it runs, the worker has nothing to say but how its start went;    *)
(* and until it has said that it is ready nothing is asked of it.          *)
Begun ==
  /\ inbox = (worker # "gone")
  /\ watching => worker \in {"asking", "running"}
  /\ worker = "starting" => events = << >> /\ ~link
  /\ worker # "starting" /\ ~link => 1 \in DOMAIN events /\ events[1].type = "ready"
  /\ \A i \in DOMAIN events : events[i].type = "ready" => i = 1 /\ ~link
  /\ ~link => requests = << >> /\ asked = {}
  /\ worker # "running" =>
       /\ \A i \in DOMAIN events : events[i].type \in {"ready", "failed", "down"}
       /\ asked = {} /\ decoded = << >> /\ rows = << >> /\ revealed = {}

(* The last news of the owner is who it is; with none to read, the worker  *)
(* trusts it if and only if it is clippod.                                 *)
NewsIsInOrder ==
  /\ ~watching => owners = << >>
  /\ owners # << >> => owners[Len(owners)] = owner
  /\ worker = "running" /\ watching /\ owners = << >> => (trusted <=> IsClippod(owner))

LEMMA ClippodIsUp ==
  ASSUME IsClippod(owner), owner \in Holders
  PROVE  Judged(owner) = "up"
<1>1. Evidence(owner).pid # {} /\ ~Evidence(owner).sandboxed
      /\ Evidence(owner).exe = {[dir |-> "/usr/bin", name |-> "clippod"]}
  <2> DEFINE name == IF IsClippod(owner) THEN "clippod" ELSE "another"
  <2>1. name = "clippod"
    OBVIOUS
  <2>2. /\ Evidence(owner).pid = {owner.life} /\ Evidence(owner).sandboxed = FALSE
        /\ Evidence(owner).exe = {[dir |-> "/usr/bin", name |-> name]}
    BY DEF Evidence
  <2> HIDE DEF name
  <2> QED
    BY <2>1, <2>2
<1>2. [dir |-> "/usr/bin", name |-> "clippod"] \in Allowed
  <2> DEFINE path == [dir |-> "/usr/bin", name |-> "clippod"]
  <2>1. path \in Installed({}, {})
    BY DEF Installed, SystemBin, Binaries
  <2>2. path \notin DOMAIN << >>
    OBVIOUS
  <2> HIDE DEF path
  <2>3. path \in Policy(Installed({}, {}), << >>)
    BY <2>1, <2>2 DEF Policy
  <2> QED
    BY <2>3 DEF Allowed, path
<1>3. Judge(Evidence(owner), Allowed) = "peer"
  BY <1>1, <1>2 DEF Judge
<1>4. owner # Absent
  BY DEF IsClippod, Absent
<1>5. OwnerOf({Evidence(owner)}, Allowed) = "trusted"
  BY <1>3 DEF OwnerOf
<1> QED
  BY <1>4, <1>5 DEF Judged

LEMMA NewsSame ==
  ASSUME NewsIsInOrder, UNCHANGED <<watching, owners, owner, worker, trusted>>
  PROVE  NewsIsInOrder'
BY DEF NewsIsInOrder

LEMMA NewsComesInOrder ==
  ASSUME TypedInv, NewsIsInOrder, Begun, NEW o \in Holders, NameGoesTo(o)
  PROVE  NewsIsInOrder'
<1>1. owners \in Seq(Holders)
  BY DEF TypedInv, WorkerTyped
<1>2. UNCHANGED <<worker, watching, trusted>> /\ owner' = o
  BY DEF NameGoesTo, UnchangedApplet, workerVars
<1>3. CASE watching /\ worker # "gone"
  <2>1. owners' = Append(owners, o)
    BY <1>3 DEF NameGoesTo
  <2>2. owners' \in Seq(Holders) /\ Len(owners') = Len(owners) + 1 /\ owners'[Len(owners) + 1] = o
    BY <1>1, <2>1, OneMore
  <2>3. owners' # << >>
    BY <2>1
  <2> QED
    BY <1>2, <1>3, <2>2, <2>3 DEF NewsIsInOrder
<1>4. CASE ~(watching /\ worker # "gone")
  <2>1. ~watching /\ owners' = owners
    BY <1>4 DEF NameGoesTo, Begun
  <2>2. owners' = << >>
    BY <2>1 DEF NewsIsInOrder
  <2> QED
    BY <1>2, <2>1, <2>2 DEF NewsIsInOrder
<1> QED
  BY <1>3, <1>4

LEMMA NewsKept ==
  ASSUME TypedInv, NewsIsInOrder, Begun, [Next]_vars
  PROVE  NewsIsInOrder'
<1>0. owners \in Seq(Holders) /\ owner \in Holders
  BY DEF TypedInv, WorkerTyped
<1>1. CASE (Keys /\ Others) \/ Hears \/ UNCHANGED vars
  BY <1>1, NewsSame DEF Hears, Others, workerVars, signalVars, daemonVars, vars, system
<1>2. CASE StartWorker \/ FailToConnect \/ Subscribe \/ WatchName
  BY <1>2
  DEF StartWorker, FailToConnect, Subscribe, WatchName, workerVars, signalVars, daemonVars,
      NewsIsInOrder, Begun
<1>3. CASE AskOwner
  <2>1. /\ worker' = "running" /\ trusted' = (Judged(owner) = "up")
        /\ UNCHANGED <<watching, owners, owner>>
    BY <1>3 DEF AskOwner, signalVars, daemonVars
  <2>2. Judged(owner) = "up" <=> IsClippod(owner)
    BY <1>0, ClippodIsUp, UpIsClippod
  <2> QED
    BY <2>1, <2>2 DEF NewsIsInOrder
<1>4. CASE Serve \/ HearHistoryChanged \/ HearToggle
  BY <1>4, NewsSame
  DEF Serve, HearHistoryChanged, HearToggle, workerVars, signalVars, daemonVars
<1>5. CASE HearOwner
  <2>1. /\ owners # << >> /\ owners' = Tail(owners) /\ trusted' = (Judged(Head(owners)) = "up")
        /\ UNCHANGED <<watching, owner, worker>>
    BY <1>5 DEF HearOwner, daemonVars
  <2>2. /\ Len(Tail(owners)) = Len(owners) - 1 /\ Len(owners) \in Nat /\ Len(owners) >= 1
        /\ \A i \in 1..(Len(owners) - 1) : Tail(owners)[i] = owners[i + 1]
        /\ Head(owners) = owners[1] /\ Tail(owners) \in Seq(Holders)
    BY <1>0, <2>1, RestIs
  <2>3. owners[Len(owners)] = owner
    BY <2>1 DEF NewsIsInOrder
  <2>4. CASE Len(owners) = 1
    <3>1. Head(owners) = owner /\ owners' = << >>
      <4>1. Len(owners') = 0 /\ owners' \in Seq(Holders)
        BY <2>1, <2>2, <2>4
      <4> QED
        BY <4>1, <2>2, <2>3, <2>4
    <3>2. trusted' <=> IsClippod(owner)
      BY <1>0, <2>1, <3>1, ClippodIsUp, UpIsClippod
    <3> QED
      BY <2>1, <3>1, <3>2 DEF NewsIsInOrder
  <2>5. CASE Len(owners) # 1
    <3>1. /\ Len(owners') = Len(owners) - 1 /\ Len(owners') \in Nat /\ Len(owners') >= 1
          /\ Len(owners') \in 1..(Len(owners) - 1) /\ Len(owners') + 1 = Len(owners)
      BY <2>1, <2>2, <2>5
    <3>2. owners'[Len(owners')] = owner
      BY <2>1, <2>2, <2>3, <3>1
    <3>3. owners' # << >>
      BY <3>1
    <3> QED
      BY <2>1, <3>2, <3>3 DEF NewsIsInOrder
  <2> QED
    BY <2>4, <2>5
<1>6. CASE Desktop
  <2>1. CASE Copied \/ Removed \/ ImpostorAnnounces
    BY <2>1, NewsSame
    DEF Copied, Removed, ImpostorAnnounces, UnchangedApplet, workerVars, daemonVars
  <2>2. CASE ClippodStarts \/ ImpostorTakes \/ NameIsLeft
    <3>1. PICK o \in Holders : NameGoesTo(o)
      <4>1. lives + 1 \in Nat
        BY AppletAssumption DEF TypedInv, WorkerTyped
      <4> QED
        BY <2>2, <4>1 DEF ClippodStarts, ImpostorTakes, NameIsLeft, Holders
    <3> QED
      BY <3>1, NewsComesInOrder
  <2> QED
    BY <1>6, <2>1, <2>2 DEF Desktop
<1> QED
  BY <1>1, <1>2, <1>3, <1>4, <1>5, <1>6 DEF Next, Worker

LEMMA BegunWhileRunning ==
  ASSUME Begun, worker \in {"asking", "running"}, worker' = "running", inbox' = inbox,
         UNCHANGED <<link, watching, asked>>, link \/ requests' = requests,
         \/ events' = events
         \/ \E e, n : Extended(events, events', e, n) /\ e.type # "ready"
  PROVE  Begun'
<1>1. CASE events' = events
  BY <1>1 DEF Begun
<1>2. CASE \E e, n : Extended(events, events', e, n) /\ e.type # "ready"
  <2>1. PICK e, n : Extended(events, events', e, n) /\ e.type # "ready"
    BY <1>2
  <2>2. Grew(events, events') /\ \A i \in DOMAIN events' : events'[i].type = "ready" => i \in DOMAIN events
    BY <2>1 DEF Extended
  <2> QED
    BY <2>2 DEF Begun, Grew
<1> QED
  BY <1>1, <1>2

LEMMA WorkerKeepsBegun ==
  ASSUME TypedInv, Begun, Worker \/ HearToggle
  PROVE  Begun'
<1> DEFINE R == Known
<1>0. Queues(R)
  BY DEF TypedInv
<1> HIDE DEF R
<1> USE DEF modelVars, thumbVars, queueVars, workerVars
<1>1. CASE StartWorker
  <2>1. events' = << >> \o Says("ready") /\ worker' = "connecting" /\ worker = "starting"
    BY <1>1 DEF StartWorker, Emit, Begun
  <2>2. events' = <<[type |-> "ready"]>>
    BY <2>1 DEF Says
  <2>3. DOMAIN events' = {1} /\ events'[1].type = "ready"
    BY <2>2
  <2>4. UNCHANGED <<rows, revealed, asked, decoded, link, inbox, requests, watching>>
    BY <1>1 DEF StartWorker
  <2> QED
    BY <2>1, <2>3, <2>4 DEF Begun
<1>2. CASE FailToConnect
  <2>1. /\ worker = "connecting" /\ worker' = "gone" /\ inbox' = FALSE /\ requests' = << >>
        /\ UNCHANGED <<rows, revealed, asked, decoded, link, watching>>
    BY <1>2 DEF FailToConnect
  <2> DEFINE Quitting == {[type |-> "failed"], [type |-> "down"]}
  <2>2. /\ Grew(events, events')
        /\ \A i \in DOMAIN events' : i \in DOMAIN events \/ events'[i].type \in {"failed", "down"}
    <3>0. \A e \in Quitting : e \in Event(R) /\ e.type \in {"failed", "down"}
      BY DEF Event, Saying
    <3>1. \E list \in Seq(Quitting) : Len(list) \in {1, 2} /\ Emit(list)
      <4>1. CASE Emit(Says("down"))
        <5>1. Says("down") \in Seq(Quitting) /\ Len(Says("down")) = 1
          BY DEF Says
        <5>2. Len(Says("down")) \in {1, 2}
          BY <5>1, Zenon
        <5> QED
          BY <4>1, <5>1, <5>2, Zenon
      <4>2. CASE Emit(Says("failed") \o Says("down"))
        <5> DEFINE list == Says("failed") \o Says("down")
        <5>1. list \in Seq(Quitting) /\ Len(list) = 2
          BY DEF Says
        <5>2. Len(list) \in {1, 2}
          BY <5>1, Zenon
        <5> QED
          BY <4>2, <5>1, <5>2, Zenon
      <4> QED
        BY <1>2, <4>1, <4>2 DEF FailToConnect
    <3>2. PICK list \in Seq(Quitting) : Len(list) \in {1, 2} /\ Emit(list)
      BY <3>1
    <3>3. /\ list \in Seq(Event(R)) /\ DOMAIN list = 1..Len(list)
          /\ \A i \in 1..Len(list) : list[i] \in Quitting
      <4> HIDE DEF Quitting
      <4> QED
        BY <3>0
    <3>4. /\ Len(events) \in Nat /\ Len(list) \in Nat
          /\ DOMAIN events = 1..Len(events) /\ DOMAIN events' = 1..(Len(events) + Len(list))
          /\ \A i \in 1..Len(events) : events'[i] = events[i]
          /\ \A i \in 1..Len(list) : events'[Len(events) + i] = list[i]
      BY <1>0, <3>2, <3>3, EmittedIs
    <3>5. ASSUME NEW i \in DOMAIN events', i \notin DOMAIN events
          PROVE  events'[i].type \in {"failed", "down"}
      <4>1. i - Len(events) \in 1..Len(list) /\ Len(events) + (i - Len(events)) = i
        BY <3>4, <3>5
      <4> HIDE DEF Quitting
      <4>2. events'[i] \in Quitting
        BY <3>3, <3>4, <4>1
      <4> QED
        BY <3>0, <4>2
    <3> QED
      BY <3>4, <3>5 DEF Grew
  <2>3. \A i \in DOMAIN events' : events'[i].type = "ready" => i \in DOMAIN events
    BY <2>2
  <2> QED
    BY <2>1, <2>2, <2>3 DEF Begun, Grew
<1>3. CASE Subscribe \/ WatchName
  BY <1>3 DEF Subscribe, WatchName, pickerVars, Begun
<1>4. CASE AskOwner
  <2>1. \E n : Extended(events, events', [type |-> Judged(owner)], n)
    <3>1. Judged(owner) \in Saying /\ Emit(Says(Judged(owner)))
      BY <1>4, JudgedIsSaying DEF AskOwner, Saying
    <3> QED
      BY <1>0, <3>1, SayingIsExtended
  <2>2. [type |-> Judged(owner)].type # "ready"
    BY JudgedIsSaying
  <2> QED
    BY <1>4, <2>1, <2>2, BegunWhileRunning DEF AskOwner
<1>5. CASE Serve
  <2>1. /\ requests # << >> /\ worker = "running"
        /\ UNCHANGED <<link, inbox, worker, watching, asked>>
        /\ \/ UNCHANGED events
           \/ \E e \in Event(R) : Emit(<<e>>) /\ e.type # "ready"
    BY <1>5, ServedIs DEF Reply, R
  <2>2. link
    BY <2>1 DEF Begun
  <2>3. \/ events' = events
        \/ \E e, n : Extended(events, events', e, n) /\ e.type # "ready"
    BY <1>0, <2>1, SaidIsExtended
  <2> QED
    BY <2>1, <2>2, <2>3, BegunWhileRunning
<1>6. CASE HearHistoryChanged
  <2>1. CASE trusted
    <3>1. \E n : Extended(events, events', [type |-> "up"], n)
      BY <1>0, <1>6, <2>1, SayingIsExtended DEF HearHistoryChanged, Saying
    <3> QED
      BY <1>6, <3>1, BegunWhileRunning DEF HearHistoryChanged
  <2>2. CASE ~trusted
    BY <1>6, <2>2, BegunWhileRunning DEF HearHistoryChanged
  <2> QED
    BY <2>1, <2>2
<1>7. CASE HearOwner
  <2>1. \E n : Extended(events, events', [type |-> Judged(Head(owners))], n)
    <3>1. Judged(Head(owners)) \in Saying /\ Emit(Says(Judged(Head(owners))))
      BY <1>7, JudgedIsSaying DEF HearOwner, Saying
    <3> QED
      BY <1>0, <3>1, SayingIsExtended
  <2>2. [type |-> Judged(Head(owners))].type # "ready"
    BY JudgedIsSaying
  <2> QED
    BY <1>7, <2>1, <2>2, BegunWhileRunning DEF HearOwner
<1>8. CASE HearToggle
  <2>1. \E n : Extended(events, events', [type |-> "toggle"], n)
    BY <1>0, <1>8, SayingIsExtended DEF HearToggle, Saying
  <2> QED
    BY <1>8, <2>1, BegunWhileRunning DEF HearToggle
<1> QED
  BY <1>1, <1>2, <1>3, <1>4, <1>5, <1>6, <1>7, <1>8 DEF Worker

(* What there is to hear but that the worker is ready.                     *)
LEMMA HeardAfterReady ==
  ASSUME NEW R, Queues(R), Begun, NEW type, type # "ready", Hear(type)
  PROVE  /\ link /\ worker # "starting"
         /\ \A i \in DOMAIN events' : events'[i].type # "ready"
         /\ type \notin {"failed", "down"} => worker = "running"
         /\ worker # "running" =>
              \A i \in DOMAIN events' : events'[i].type \in {"ready", "failed", "down"}
<1>1. Shifted(events, events') /\ events[1].type = type
  BY HeardIsShifted
<1>2. 1 \in DOMAIN events /\ \A i \in DOMAIN events' : i \in Nat \ {0} /\ i + 1 \in DOMAIN events /\ events'[i] = events[i + 1]
  BY <1>1 DEF Shifted
<1>3. worker # "starting" /\ link
  BY <1>1, <1>2 DEF Begun
<1>4. \A i \in DOMAIN events' : events'[i].type # "ready"
  BY <1>2, <1>3 DEF Begun
<1> QED
  BY <1>1, <1>2, <1>3, <1>4 DEF Begun

LEMMA OnBusKeepsBegun ==
  ASSUME TypedInv, Begun, OnBus, UNCHANGED workerVars
  PROVE  Begun'
<1> DEFINE R == Known
<1>0. Queues(R)
  BY DEF TypedInv
<1> HIDE DEF R
<1> USE DEF modelVars, thumbVars, queueVars, workerVars
<1>1. ASSUME NEW type, Hear(type), type # "ready", UNCHANGED <<link, inbox>>,
             worker = "running"
                \/ (asked' = {} /\ decoded' = << >> /\ rows' = << >> /\ revealed' = {})
      PROVE  Begun'
  BY <1>0, <1>1, HeardAfterReady DEF Begun
<1>2. CASE OnReady
  <2>1. Shifted(events, events') /\ events[1].type = "ready"
    BY <1>0, <1>2, HeardIsShifted DEF OnReady
  <2>2. 1 \in DOMAIN events
        /\ \A i \in DOMAIN events' : i \in Nat \ {0} /\ i + 1 \in DOMAIN events /\ events'[i] = events[i + 1]
    BY <2>1 DEF Shifted
  <2>3. \A i \in DOMAIN events' : events'[i].type # "ready"
    BY <2>2 DEF Begun
  <2>4. link' = TRUE /\ worker # "starting"
        /\ UNCHANGED <<rows, revealed, asked, decoded, inbox, worker, watching>>
    BY <1>2, <2>2 DEF OnReady, Begun
  <2> QED
    BY <2>2, <2>3, <2>4 DEF Begun
<1>3. CASE OnEntries \/ OnRevealed \/ OnThumbnail \/ OnDaemonUp
  <2>1. PICK type \in {"entries", "revealed", "thumbnail", "up"} : Hear(type)
    BY <1>3 DEF OnEntries, OnRevealed, OnThumbnail, OnDaemonUp
  <2>2. worker = "running"
    BY <1>0, <2>1, HeardAfterReady
  <2>3. UNCHANGED <<link, inbox>>
    BY <1>3 DEF OnEntries, OnRevealed, OnThumbnail, OnDaemonUp
  <2> QED
    BY <1>1, <2>1, <2>2, <2>3
<1>4. CASE OnToggle
  <2>1. worker = "running" /\ Hear("toggle")
    BY <1>0, <1>4, HeardAfterReady DEF OnToggle
  <2>2. UNCHANGED <<link, inbox>>
    BY <1>4 DEF OnToggle, Toggle, Dismiss, Present
  <2> QED
    BY <1>1, <2>1, <2>2
<1>5. CASE OnDaemonGone
  <2>1. PICK type \in {"down", "untrusted"} : Hear(type)
    BY <1>5 DEF OnDaemonGone
  <2>2. /\ UNCHANGED <<link, inbox>>
        /\ asked' = {} /\ decoded' = << >> /\ rows' = << >> /\ revealed' = {}
    BY <1>5 DEF OnDaemonGone, SetStatus
  <2> QED
    BY <1>1, <2>1, <2>2
<1>6. CASE OnFailed
  <2>1. /\ Hear("failed")
        /\ UNCHANGED <<link, inbox, asked, decoded, rows, revealed>>
    BY <1>6 DEF OnFailed
  <2> QED
    BY <1>1, <2>1 DEF Begun
<1> QED
  BY <1>2, <1>3, <1>4, <1>5, <1>6 DEF OnBus

LEMMA BegunKept ==
  ASSUME TypedInv, Begun, [Next]_vars
  PROVE  Begun'
<1>1. CASE Keys /\ Others
  <2>1. /\ Asking /\ events' = events /\ UNCHANGED <<worker, watching>>
    BY <1>1, KeysAsk DEF Others, workerVars
  <2> QED
    BY <2>1 DEF Asking, Begun
<1>2. CASE Hears
  BY <1>2, OnBusKeepsBegun DEF Hears, Others
<1>3. CASE Worker \/ HearToggle
  BY <1>3, WorkerKeepsBegun
<1>4. CASE Desktop
  <2>1. UNCHANGED <<pickerVars, workerVars>>
    BY <1>4
    DEF Desktop, Copied, Removed, ClippodStarts, ImpostorTakes, NameIsLeft, ImpostorAnnounces,
        NameGoesTo, UnchangedApplet
  <2> QED
    BY <2>1 DEF pickerVars, modelVars, thumbVars, queueVars, workerVars, Begun
<1>5. CASE UNCHANGED vars
  BY <1>5
  DEF vars, system, pickerVars, modelVars, thumbVars, queueVars, workerVars, Begun
<1> QED
  BY <1>1, <1>2, <1>3, <1>4, <1>5 DEF Next

-----------------------------------------------------------------------------
(* What is about to be dropped.                                            *)

IsDrop(e) == e.type \in {"down", "untrusted"}

(* Behind the kth thing the worker said comes one on which the UI forgets  *)
(* what it has of the daemon; or the worker will say one, for somebody who *)
(* is not clippod has had the name.                                        *)
Doomed(said, news, k) ==
  \/ \E j \in DOMAIN said : j > k /\ IsDrop(said[j])
  \/ \E j \in DOMAIN news : ~IsClippod(news[j])

LEMMA DoomLasts ==
  ASSUME NEW old, NEW new, NEW news, NEW k, Grew(old, new), Doomed(old, news, k)
  PROVE  Doomed(new, news, k)
BY DEF Doomed, Grew

LEMMA DoomNears ==
  ASSUME NEW old, NEW new, NEW news, NEW k \in Nat, Shifted(old, new), Doomed(old, news, k + 1)
  PROVE  Doomed(new, news, k)
<1>1. CASE \E j \in DOMAIN news : ~IsClippod(news[j])
  BY <1>1 DEF Doomed
<1>2. CASE \E j \in DOMAIN old : j > k + 1 /\ IsDrop(old[j])
  <2>1. PICK j \in DOMAIN old : j > k + 1 /\ IsDrop(old[j])
    BY <1>2
  <2>2. j \in Nat /\ j # 1 /\ j - 1 > k
    BY <2>1 DEF Shifted
  <2>3. j - 1 \in DOMAIN new /\ new[j - 1] = old[j]
    BY <2>2 DEF Shifted
  <2> QED
    BY <2>1, <2>2, <2>3 DEF Doomed
<1> QED
  BY <1>1, <1>2 DEF Doomed

LEMMA DoomStays ==
  ASSUME NEW old, NEW new, NEW news, Shifted(old, new), ~IsDrop(old[1]), Doomed(old, news, 0)
  PROVE  Doomed(new, news, 0)
<1>1. CASE \E j \in DOMAIN news : ~IsClippod(news[j])
  BY <1>1 DEF Doomed
<1>2. CASE \E j \in DOMAIN old : j > 0 /\ IsDrop(old[j])
  <2>1. PICK j \in DOMAIN old : j > 0 /\ IsDrop(old[j])
    BY <1>2
  <2>2. j \in Nat /\ j # 1 /\ j - 1 > 0
    BY <2>1 DEF Shifted
  <2>3. j - 1 \in DOMAIN new /\ new[j - 1] = old[j]
    BY <2>2 DEF Shifted
  <2> QED
    BY <2>1, <2>2, <2>3 DEF Doomed
<1> QED
  BY <1>1, <1>2 DEF Doomed

(* Reading the news of somebody who is not clippod says so.                *)
LEMMA DoomIsSaid ==
  ASSUME TypedInv, HearOwner, NEW k,
         k = 0 \/ k \in DOMAIN events, Doomed(events, owners, k)
  PROVE  Doomed(events', owners', k)
<1> DEFINE R == Known
           says == [type |-> Judged(Head(owners))]
<1>0. Queues(R) /\ owners \in Seq(Holders)
  BY DEF TypedInv, WorkerTyped
<1> HIDE DEF R
<1>1. Judged(Head(owners)) \in Saying /\ Emit(Says(Judged(Head(owners))))
  BY JudgedIsSaying DEF HearOwner, Saying
<1>2. PICK n : Extended(events, events', says, n)
  BY <1>0, <1>1, SayingIsExtended
<1>3. Shifted(owners, owners') /\ Head(owners) = owners[1]
  BY <1>0, TailIsShifted DEF HearOwner
<1>4. CASE \E j \in DOMAIN events : j > k /\ IsDrop(events[j])
  BY <1>2, <1>4 DEF Doomed, Extended, Grew
<1>5. CASE \E j \in DOMAIN owners : ~IsClippod(owners[j])
  <2>1. PICK j \in DOMAIN owners : ~IsClippod(owners[j])
    BY <1>5
  <2>2. CASE j = 1
    <3>1. Judged(Head(owners)) # "up"
      BY <1>3, <2>1, <2>2, UpIsClippod
    <3>2. says.type \in {"down", "untrusted"}
      BY <3>1, JudgedIsSaying
    <3>3. n \in DOMAIN events' /\ events'[n] = says /\ n \in Nat \ {0}
      BY <1>2 DEF Extended
    <3>4. n > k
      <4>1. CASE k = 0
        BY <3>3, <4>1
      <4>2. CASE k \in DOMAIN events
        BY <1>2, <4>2 DEF Extended
      <4> QED
        BY <4>1, <4>2
    <3> HIDE DEF says
    <3> QED
      BY <3>2, <3>3, <3>4 DEF Doomed, IsDrop
  <2>3. CASE j # 1
    <3>1. j - 1 \in DOMAIN owners' /\ owners'[j - 1] = owners[j]
      BY <1>3, <2>3 DEF Shifted
    <3> QED
      BY <2>1, <3>1 DEF Doomed
  <2> QED
    BY <2>2, <2>3
<1> QED
  BY <1>4, <1>5 DEF Doomed

(* What is kept of the daemon while nobody is trusted is dropped before a  *)
(* list is drawn, or there is nothing of it and no list to be drawn.       *)
Quiet(said, marks, list) ==
  \/ \E k \in DOMAIN said :
       /\ IsDrop(said[k])
       /\ \A j \in DOMAIN said : j > k => said[j].type # "entries"
  \/ /\ marks = {} /\ list = << >>
     /\ \A j \in DOMAIN said : said[j].type # "entries"

QuietInv == worker = "running" /\ watching /\ ~trusted => Quiet(events, asked, rows)

LEMMA QuietLasts ==
  ASSUME NEW old, NEW new, NEW marks, NEW list, NEW e, NEW n, Extended(old, new, e, n),
         e.type # "entries", Quiet(old, marks, list)
  PROVE  Quiet(new, marks, list)
<1>1. \A j \in DOMAIN new : new[j].type = "entries" => j \in DOMAIN old /\ old[j].type = "entries"
  BY DEF Extended, Grew
<1>2. CASE \E k \in DOMAIN old : /\ IsDrop(old[k])
                                 /\ \A j \in DOMAIN old : j > k => old[j].type # "entries"
  <2>1. PICK k \in DOMAIN old : /\ IsDrop(old[k])
                                /\ \A j \in DOMAIN old : j > k => old[j].type # "entries"
    BY <1>2
  <2>2. k \in DOMAIN new /\ IsDrop(new[k])
    BY <2>1 DEF Extended, Grew
  <2>3. \A j \in DOMAIN new : j > k => new[j].type # "entries"
    BY <1>1, <2>1
  <2> QED
    BY <2>2, <2>3 DEF Quiet
<1>3. CASE marks = {} /\ list = << >> /\ \A j \in DOMAIN old : old[j].type # "entries"
  BY <1>1, <1>3 DEF Quiet
<1> QED
  BY <1>2, <1>3 DEF Quiet

(* An owner who is not trusted is said to be gone or to be none.           *)
LEMMA QuietIsSaid ==
  ASSUME NEW old, NEW new, NEW marks, NEW list, NEW e, NEW n, Extended(old, new, e, n), IsDrop(e)
  PROVE  Quiet(new, marks, list)
<1>1. n \in DOMAIN new /\ IsDrop(new[n])
  BY DEF Extended
<1>2. \A j \in DOMAIN new : ~(j > n)
  <2>1. ASSUME NEW j \in DOMAIN new, j > n PROVE FALSE
    <3>1. CASE j = n
      BY <2>1, <3>1 DEF Extended
    <3>2. CASE j \in DOMAIN old
      <4>1. j < n /\ j \in Nat /\ n \in Nat
        BY <3>2 DEF Extended
      <4> QED
        BY <2>1, <4>1
    <3> QED
      BY <3>1, <3>2 DEF Extended
  <2> QED
    BY <2>1
<1> QED
  BY <1>1, <1>2 DEF Quiet

(* Hearing what is no drop brings nothing to a UI that has nothing.        *)
LEMMA QuietIsHeard ==
  ASSUME NEW old, NEW new, NEW marks, NEW list, NEW marks2, NEW list2, Shifted(old, new),
         Quiet(old, marks, list),
         IsDrop(old[1]) => marks2 = {} /\ list2 = << >>,
         marks = {} /\ list = << >> /\ old[1].type # "entries" => marks2 = {} /\ list2 = << >>
  PROVE  Quiet(new, marks2, list2)
<1>1. /\ 1 \in DOMAIN old
      /\ \A i \in DOMAIN new : i \in Nat \ {0} /\ i + 1 \in DOMAIN old /\ new[i] = old[i + 1]
  BY DEF Shifted
<1>2. CASE \E k \in DOMAIN old : /\ IsDrop(old[k])
                                 /\ \A j \in DOMAIN old : j > k => old[j].type # "entries"
  <2>1. PICK k \in DOMAIN old : /\ IsDrop(old[k])
                                /\ \A j \in DOMAIN old : j > k => old[j].type # "entries"
    BY <1>2
  <2>2. CASE k = 1
    <3>1. \A j \in DOMAIN new : new[j].type # "entries"
      BY <1>1, <2>1, <2>2
    <3> QED
      BY <2>1, <2>2, <3>1 DEF Quiet
  <2>3. CASE k # 1
    <3>1. k \in Nat /\ k - 1 \in DOMAIN new /\ new[k - 1] = old[k]
      BY <2>3 DEF Shifted
    <3>2. \A j \in DOMAIN new : j > k - 1 => new[j].type # "entries"
      BY <1>1, <2>1, <3>1
    <3> QED
      BY <2>1, <3>1, <3>2 DEF Quiet
  <2> QED
    BY <2>2, <2>3
<1>3. CASE marks = {} /\ list = << >> /\ \A j \in DOMAIN old : old[j].type # "entries"
  <2>1. marks2 = {} /\ list2 = << >>
    BY <1>1, <1>3
  <2>2. \A j \in DOMAIN new : new[j].type # "entries"
    BY <1>1, <1>3
  <2> QED
    BY <2>1, <2>2 DEF Quiet
<1> QED
  BY <1>2, <1>3 DEF Quiet

LEMMA QuietOnBus ==
  ASSUME TypedInv, OnBus, Quiet(events, asked, rows)
  PROVE  Quiet(events', asked', rows')
<1> DEFINE R == Known
<1>0. Queues(R) /\ rows \in Seq(R) /\ R \in SUBSET Row /\ asked \in SUBSET Pictures(R)
  BY KnownAreRows DEF TypedInv, ModelIn
<1> HIDE DEF R
<1> USE DEF modelVars, thumbVars, queueVars
<1>1. ASSUME NEW type, Hear(type),
             IsDrop([type |-> type]) => asked' = {} /\ rows' = << >>,
             asked = {} /\ rows = << >> /\ type # "entries" => asked' = {} /\ rows' = << >>
      PROVE  Quiet(events', asked', rows')
  <2>1. Shifted(events, events') /\ events[1].type = type
    BY <1>0, <1>1, HeardIsShifted
  <2> QED
    BY <1>1, <2>1, QuietIsHeard DEF IsDrop
<1>2. ASSUME NEW type \in {"ready", "revealed", "toggle", "up", "failed"}, Hear(type),
             UNCHANGED <<asked, rows>>
      PROVE  Quiet(events', asked', rows')
  BY <1>1, <1>2 DEF IsDrop
<1>3. CASE OnReady \/ OnRevealed \/ OnFailed
  BY <1>2, <1>3 DEF OnReady, OnRevealed, OnFailed
<1>4. CASE OnToggle
  BY <1>2, <1>4 DEF OnToggle, Toggle, Dismiss, Present
<1>5. CASE OnDaemonUp
  BY <1>2, <1>5 DEF OnDaemonUp, SetStatus
<1>6. CASE OnEntries
  <2>1. Hear("entries")
    BY <1>6 DEF OnEntries
  <2>2. ~IsDrop([type |-> "entries"])
    BY DEF IsDrop
  <2> QED
    BY <1>1, <2>1, <2>2
<1>7. CASE OnThumbnail
  <2>1. Hear("thumbnail") /\ rows' = rows /\ FetchThumbnails(rows, asked)
    BY <1>7 DEF OnThumbnail
  <2>2. asked' \subseteq asked \cup KeysOf(rows)
    BY <1>0, <2>1, FetchIs
  <2>3. rows = << >> => KeysOf(rows) = {}
    BY DEF KeysOf
  <2>4. asked = {} /\ rows = << >> => asked' = {} /\ rows' = << >>
    BY <2>1, <2>2, <2>3
  <2>5. ~IsDrop([type |-> "thumbnail"])
    BY DEF IsDrop
  <2> QED
    BY <1>1, <2>1, <2>4, <2>5
<1>8. CASE OnDaemonGone
  <2>1. PICK type \in {"down", "untrusted"} : Hear(type)
    BY <1>8 DEF OnDaemonGone
  <2>2. asked' = {} /\ rows' = << >>
    BY <1>8 DEF OnDaemonGone, SetStatus
  <2> QED
    BY <1>1, <2>1, <2>2
<1> QED
  BY <1>3, <1>4, <1>5, <1>6, <1>7, <1>8 DEF OnBus

LEMMA QuietKept ==
  ASSUME TypedInv, QuietInv, [Next]_vars
  PROVE  QuietInv'
<1> DEFINE R == Known
<1>0. Queues(R)
  BY DEF TypedInv
<1> HIDE DEF R
<1> USE DEF modelVars, thumbVars, queueVars, workerVars
<1>1. CASE (Keys /\ Others) \/ UNCHANGED vars
  <2>1. UNCHANGED <<events, asked, rows, worker, watching, trusted>>
    BY <1>1, KeysAsk DEF Asking, Others, vars, system, pickerVars
  <2> QED
    BY <2>1 DEF QuietInv
<1>2. CASE Hears
  BY <1>2, QuietOnBus DEF Hears, Others, QuietInv
<1>3. CASE StartWorker \/ FailToConnect \/ Subscribe \/ WatchName
  BY <1>3 DEF StartWorker, FailToConnect, Subscribe, WatchName, QuietInv
<1>4. ASSUME NEW o, Emit(Says(Judged(o))), trusted' = (Judged(o) = "up")
      PROVE  QuietInv'
  <2>1. Judged(o) \in {"down", "up", "untrusted"} /\ Judged(o) \in Saying
    BY JudgedIsSaying DEF Saying
  <2>2. PICK n : Extended(events, events', [type |-> Judged(o)], n)
    BY <1>0, <1>4, <2>1, SayingIsExtended
  <2>3. CASE Judged(o) = "up"
    BY <1>4, <2>3 DEF QuietInv
  <2>4. CASE Judged(o) # "up"
    <3>1. IsDrop([type |-> Judged(o)])
      BY <2>1, <2>4 DEF IsDrop
    <3>2. Quiet(events', asked', rows')
      BY <2>2, <3>1, QuietIsSaid
    <3> QED
      BY <3>2 DEF QuietInv
  <2> QED
    BY <2>3, <2>4
<1>5. CASE AskOwner \/ HearOwner
  BY <1>4, <1>5 DEF AskOwner, HearOwner
<1>6. CASE Serve
  <2>1. /\ UNCHANGED <<asked, rows, worker, watching, trusted>>
        /\ trusted \/ UNCHANGED events
    BY <1>6, ServedIs
  <2> QED
    BY <2>1 DEF QuietInv
<1>7. CASE HearHistoryChanged
  BY <1>7 DEF HearHistoryChanged, QuietInv
<1>8. CASE HearToggle
  <2>1. PICK n : Extended(events, events', [type |-> "toggle"], n)
    BY <1>0, <1>8, SayingIsExtended DEF HearToggle, Saying
  <2>2. UNCHANGED <<asked, rows, worker, watching, trusted>>
    BY <1>8 DEF HearToggle
  <2> QED
    BY <2>1, <2>2, QuietLasts DEF QuietInv
<1>9. CASE Desktop
  <2>1. UNCHANGED <<pickerVars, workerVars>>
    BY <1>9
    DEF Desktop, Copied, Removed, ClippodStarts, ImpostorTakes, NameIsLeft, ImpostorAnnounces,
        NameGoesTo, UnchangedApplet
  <2> QED
    BY <2>1 DEF pickerVars, QuietInv
<1> QED
  BY <1>1, <1>2, <1>3, <1>5, <1>6, <1>7, <1>8, <1>9 DEF Next, Worker

-----------------------------------------------------------------------------
(* Pictures.                                                               *)

IsItsOwn(key, picture) == key \in Live => picture = {key.at}

PicturesSaid ==
  \A k \in DOMAIN events : events[k].type = "thumbnail" =>
    IsItsOwn(events[k].key, events[k].picture) \/ Doomed(events, owners, k)

PicturesKept ==
  \A key \in DOMAIN decoded : IsItsOwn(key, {decoded[key]}) \/ Doomed(events, owners, 0)

IsAnswered(key) == \E i \in DOMAIN events : events[i].type = "thumbnail" /\ events[i].key = key
IsAsked(key)    == \E i \in DOMAIN requests : requests[i] = Thumbnail(key)

PicturesComing ==
  \A key \in asked \cap Live :
    key \in DOMAIN decoded \/ Doomed(events, owners, 0) \/ IsAsked(key) \/ IsAnswered(key)

(* A picture is its entry's, and one that was asked for is there or on its *)
(* way, or all of it is going to be dropped.                               *)
PictureInv == watching => PicturesSaid /\ PicturesKept /\ PicturesComing

(* An entry is one there was, or the latest copy.                          *)
LEMMA HistoryMoves ==
  ASSUME TypedInv, [Next]_vars
  PROVE  \A k \in DOMAIN history' :
           \/ \E j \in DOMAIN history : history'[k] = history[j]
           \/ history'[k].at = captures + 1
<1>0. captures \in Nat /\ HistoryTyped
  BY DEF TypedInv, WorkerTyped
<1> USE DEF daemonVars
<1>1. ASSUME history' = history
      PROVE  \A k \in DOMAIN history' : \E j \in DOMAIN history : history'[k] = history[j]
  BY <1>1
<1>2. CASE (Keys /\ Others) \/ Hears \/ UNCHANGED vars
  BY <1>1, <1>2 DEF Others, Hears, vars, system
<1>3. CASE \/ StartWorker \/ FailToConnect \/ Subscribe \/ WatchName \/ AskOwner
           \/ HearHistoryChanged \/ HearOwner \/ HearToggle
  BY <1>1, <1>3
  DEF StartWorker, FailToConnect, Subscribe, WatchName, AskOwner, HearHistoryChanged, HearOwner,
      HearToggle
<1>4. CASE Serve
  <2>1. \/ history' = history
        \/ Head(requests).type \in Acts /\ \E i \in DOMAIN history : history' = After(Head(requests), i)
    BY <1>4, ServedIs
  <2> QED
    BY <1>0, <1>1, <2>1, AfterIsSound
<1>5. CASE Copied
  <2>1. history' = <<[id |-> FreeId, at |-> captures + 1]>> \o history
    BY <1>5 DEF Copied
  <2>2. [id |-> FreeId, at |-> captures + 1].at = captures + 1
    OBVIOUS
  <2> QED
    BY <1>0, <2>1, <2>2, CopyIsSound
<1>6. CASE Removed
  <2>1. PICK i \in DOMAIN history : history' = RemoveAt(history, i)
    BY <1>6 DEF Removed
  <2> QED
    BY <1>0, <2>1, RemovedIsSound, HistoryIsSound
<1>7. CASE ClippodStarts \/ ImpostorTakes \/ NameIsLeft \/ ImpostorAnnounces
  BY <1>1, <1>7 DEF ClippodStarts, ImpostorTakes, NameIsLeft, NameGoesTo, ImpostorAnnounces
<1> QED
  BY <1>2, <1>3, <1>4, <1>5, <1>6, <1>7 DEF Next, Worker, Desktop

(* A key that has been seen is not that of an entry to come, though its id *)
(* may be: captured_at tells them apart.                                   *)
LEMMA LivedBefore ==
  ASSUME TypedInv, [Next]_vars, NEW key \in Known, key \in Live'
  PROVE  key \in Live
<1>1. key.at \in 0..captures /\ captures \in Nat
  BY DEF Known, KnownRow, TypedInv, WorkerTyped
<1>2. PICK k \in DOMAIN history' : key = KeyOf(history'[k])
  BY DEF Live, KeysOf
<1>3. key.at = history'[k].at
  BY <1>2 DEF KeyOf
<1>4. history'[k].at # captures + 1
  BY <1>1, <1>3
<1>5. PICK j \in DOMAIN history : history'[k] = history[j]
  BY <1>4, HistoryMoves
<1> QED
  BY <1>2, <1>5 DEF Live, KeysOf

(* What clippod answers about a key is the picture of its entry.           *)
LEMMA AnsweredIsOwn ==
  ASSUME TypedInv, NEW key \in Pictures(Known), key \in Live
  PROVE  {history[i].at : i \in Entry(key.id)} \cap Images = {key.at}
<1>1. PICK k \in DOMAIN history : key = KeyOf(history[k])
  BY DEF Live, KeysOf
<1>2. history[k].id = key.id /\ history[k].at = key.at
  BY <1>1 DEF KeyOf
<1>3. Entry(key.id) = {k}
  BY <1>1, <1>2 DEF Entry, TypedInv, HistoryTyped
<1>4. key.at \in Images
  BY DEF Pictures
<1> QED
  BY <1>2, <1>3, <1>4

LEMMA KeysAreKnown ==
  ASSUME TypedInv
  PROVE  /\ asked \subseteq Known /\ DOMAIN decoded \subseteq Known
         /\ \A k \in DOMAIN events : events[k].type = "thumbnail" => events[k].key \in Known
<1> DEFINE R == Known
<1>1. asked \in SUBSET Pictures(R) /\ DOMAIN decoded \in SUBSET Pictures(R) /\ events \in Seq(Event(R))
  BY DEF TypedInv, ModelIn, Queues
<1> HIDE DEF R
<1>2. ASSUME NEW k \in DOMAIN events, events[k].type = "thumbnail" PROVE events[k].key \in Pictures(R)
  <2>1. events[k] \in Event(R)
    BY <1>1
  <2> QED
    BY <2>1, <1>2, EventFacts
<1>3. Pictures(R) \subseteq R
  BY DEF Pictures
<1> QED
  BY <1>1, <1>2, <1>3 DEF R

(* What is said adds to what there is to hear; nothing that was doomed is  *)
(* saved.                                                                  *)
LEMMA PicturesStay ==
  ASSUME TypedInv, [Next]_vars, PicturesSaid, PicturesKept, PicturesComing,
         Grew(events, events'), UNCHANGED <<asked, decoded>>,
         \A k : (k = 0 \/ k \in DOMAIN events) /\ Doomed(events, owners, k)
                  => Doomed(events', owners', k),
         \A n \in DOMAIN events' :
           \/ n \in DOMAIN events \/ events'[n].type # "thumbnail"
           \/ (IsItsOwn(events[n].key, events[n].picture))' \/ Doomed(events', owners', n),
         \A key \in asked : IsAsked(key) =>
           IsAsked(key)' \/ IsAnswered(key)' \/ Doomed(events', owners', 0)
  PROVE  PicturesSaid' /\ PicturesKept' /\ PicturesComing'
<1>1. PicturesSaid'
  <2>1. SUFFICES ASSUME NEW k \in DOMAIN events', events'[k].type = "thumbnail"
                 PROVE  (IsItsOwn(events[k].key, events[k].picture))' \/ Doomed(events', owners', k)
    BY DEF PicturesSaid
  <2>2. CASE k \in DOMAIN events
    <3>1. events'[k] = events[k]
      BY <2>2 DEF Grew
    <3>2. events[k].key \in Known
      BY <2>1, <2>2, <3>1, KeysAreKnown
    <3>3. events[k].key \in Live' => events[k].key \in Live
      BY <3>2, LivedBefore
    <3> QED
      BY <2>1, <2>2, <3>1, <3>3 DEF PicturesSaid, IsItsOwn
  <2>3. CASE k \notin DOMAIN events
    BY <2>1, <2>3
  <2> QED
    BY <2>2, <2>3
<1>2. PicturesKept'
  <2>1. \A key \in DOMAIN decoded : key \in Live' => key \in Live
    BY KeysAreKnown, LivedBefore
  <2> QED
    BY <2>1 DEF PicturesKept, IsItsOwn
<1>3. PicturesComing'
  <2>1. \A key \in asked : key \in Live' => key \in Live
    BY KeysAreKnown, LivedBefore
  <2>2. \A key \in asked : IsAnswered(key) => IsAnswered(key)'
    BY DEF IsAnswered, Grew
  <2> QED
    BY <2>1, <2>2 DEF PicturesComing
<1> QED
  BY <1>1, <1>2, <1>3

(* What is heard is taken off; what is not heard of the daemon stays.      *)
LEMMA PicturesAreHeard ==
  ASSUME TypedInv, [Next]_vars, PicturesSaid, Shifted(events, events'), owners' = owners
  PROVE  PicturesSaid'
<1>1. SUFFICES ASSUME NEW k \in DOMAIN events', events'[k].type = "thumbnail"
               PROVE  (IsItsOwn(events[k].key, events[k].picture))' \/ Doomed(events', owners', k)
  BY DEF PicturesSaid
<1>2. k \in Nat /\ k + 1 \in DOMAIN events /\ events'[k] = events[k + 1]
  BY DEF Shifted
<1>3. events[k + 1].key \in Known
  BY <1>1, <1>2, KeysAreKnown
<1>4. events[k + 1].key \in Live' => events[k + 1].key \in Live
  BY <1>3, LivedBefore
<1>5. Doomed(events, owners, k + 1) => Doomed(events', owners', k)
  BY <1>2, DoomNears
<1> QED
  BY <1>1, <1>2, <1>4, <1>5 DEF PicturesSaid, IsItsOwn

(* Of what the UI hears, and what it then has of pictures.                 *)
LEMMA PicturesStayHeard ==
  ASSUME TypedInv, [Next]_vars, PicturesKept, PicturesComing,
         Shifted(events, events'), owners' = owners, ~IsDrop(events[1]),
         events[1].type # "thumbnail", Grew(requests, requests'),
         \A key \in asked' : key \in asked \/ IsAsked(key)',
         \A key \in asked' \cap DOMAIN decoded : key \in DOMAIN decoded' \/ IsAsked(key)',
         \A key \in DOMAIN decoded' : key \in DOMAIN decoded /\ decoded'[key] = decoded[key]
  PROVE  PicturesKept' /\ PicturesComing'
<1>1. Doomed(events, owners, 0) => Doomed(events', owners', 0)
  BY DoomStays
<1>2. PicturesKept'
  <2>1. \A key \in DOMAIN decoded : key \in Live' => key \in Live
    BY KeysAreKnown, LivedBefore
  <2> QED
    BY <1>1, <2>1 DEF PicturesKept, IsItsOwn
<1>3. PicturesComing'
  <2>1. \A key \in asked : key \in Live' => key \in Live
    BY KeysAreKnown, LivedBefore
  <2>2. \A key : IsAsked(key) => IsAsked(key)'
    BY DEF IsAsked, Grew
  <2>3. \A key : IsAnswered(key) => IsAnswered(key)'
    BY DEF IsAnswered, Shifted
  <2> QED
    BY <1>1, <2>1, <2>2, <2>3 DEF PicturesComing
<1> QED
  BY <1>2, <1>3

LEMMA FetchGrows ==
  ASSUME NEW R \in SUBSET Row, Queues(R), NEW list \in Seq(R), NEW known \in SUBSET Pictures(R),
         FetchThumbnails(list, known)
  PROVE  /\ Grew(requests, requests')
         /\ \A key \in asked' : key \in known \/ IsAsked(key)'
         /\ known \subseteq asked'
<1> HIDE DEF Row
<1>1. /\ requests' \in Seq(Request(R)) /\ known \subseteq asked'
      /\ Len(requests) \in Nat /\ Len(requests') \in Nat /\ Len(requests) <= Len(requests')
      /\ \A i \in 1..Len(requests) : requests'[i] = requests[i]
      /\ \A key \in asked' \ known : \E i \in DOMAIN requests' : requests'[i] = Thumbnail(key)
  BY FetchIs
<1>2. DOMAIN requests = 1..Len(requests) /\ DOMAIN requests' = 1..Len(requests')
  BY <1>1 DEF Queues
<1>3. Grew(requests, requests')
  BY <1>1, <1>2 DEF Grew
<1> QED
  BY <1>1, <1>3 DEF IsAsked

LEMMA ThumbnailKeepsPictures ==
  ASSUME TypedInv, [Next]_vars, PicturesSaid, PicturesKept, PicturesComing, OnThumbnail,
         owners' = owners
  PROVE  PicturesKept' /\ PicturesComing'
<1> DEFINE R == Known
           answer == Head(events)
<1>0. Queues(R) /\ rows \in Seq(R) /\ R \in SUBSET Row /\ asked \in SUBSET Pictures(R)
  BY KnownAreRows DEF TypedInv, ModelIn
<1> HIDE DEF R
<1>1. /\ Shifted(events, events') /\ answer = events[1]
      /\ answer \in Event(R) /\ answer.type = "thumbnail" /\ 1 \in DOMAIN events
  <2>1. /\ Shifted(events, events') /\ Head(events) = events[1]
        /\ events[1] \in Event(R) /\ events[1].type = "thumbnail"
    BY <1>0, HeardIsShifted DEF OnThumbnail
  <2> QED
    BY <2>1 DEF Shifted
<1>2. answer.key \in Pictures(R) /\ answer.key \in Known
  <2>1. answer.key \in Pictures(R)
    BY <1>1, EventFacts
  <2> QED
    BY <2>1 DEF Pictures, R
<1>3. /\ DOMAIN decoded' = DOMAIN decoded \cup {answer.key : p \in answer.picture}
      /\ \A key \in DOMAIN decoded' :
           decoded'[key] = IF key = answer.key /\ answer.picture # {}
                           THEN CHOOSE p \in answer.picture : TRUE ELSE decoded[key]
      /\ FetchThumbnails(rows, asked)
  BY DEF OnThumbnail
<1> HIDE DEF answer
<1>4. /\ Grew(requests, requests') /\ \A key \in asked' : key \in asked \/ IsAsked(key)'
  BY <1>0, <1>3, FetchGrows
<1>5. IsItsOwn(answer.key, answer.picture) \/ Doomed(events, owners, 1)
  BY <1>1 DEF PicturesSaid
<1>6. /\ Doomed(events, owners, 0) => Doomed(events', owners', 0)
      /\ Doomed(events, owners, 1) => Doomed(events', owners', 0)
  <2>1. ~IsDrop(events[1])
    BY <1>1 DEF IsDrop
  <2>2. 0 \in Nat /\ 0 + 1 = 1
    OBVIOUS
  <2> QED
    BY <1>1, <2>1, <2>2, DoomStays, DoomNears
<1>7. PicturesKept'
  <2>1. SUFFICES ASSUME NEW key \in DOMAIN decoded'
                 PROVE  (IsItsOwn(key, {decoded[key]}))' \/ Doomed(events', owners', 0)
    BY DEF PicturesKept
  <2>2. CASE key = answer.key /\ answer.picture # {}
    <3>1. decoded'[key] \in answer.picture
      BY <1>3, <2>2
    <3>2. key \in Live' => key \in Live
      BY <1>2, <2>2, LivedBefore
    <3>3. CASE IsItsOwn(answer.key, answer.picture)
      BY <2>2, <3>1, <3>2, <3>3 DEF IsItsOwn
    <3>4. CASE Doomed(events, owners, 1)
      BY <1>6, <3>4
    <3> QED
      BY <1>5, <3>3, <3>4
  <2>3. CASE ~(key = answer.key /\ answer.picture # {})
    <3>1. key \in DOMAIN decoded /\ decoded'[key] = decoded[key]
      BY <1>3, <2>3
    <3>2. key \in Live' => key \in Live
      BY <3>1, KeysAreKnown, LivedBefore
    <3> QED
      BY <1>6, <3>1, <3>2 DEF PicturesKept, IsItsOwn
  <2> QED
    BY <2>2, <2>3
<1>8. PicturesComing'
  <2>1. SUFFICES ASSUME NEW key \in asked', key \in Live', ~IsAsked(key)'
                 PROVE  key \in DOMAIN decoded' \/ Doomed(events', owners', 0) \/ IsAnswered(key)'
    BY DEF PicturesComing
  <2>2. key \in asked /\ key \in Live
    BY <1>4, <2>1, KeysAreKnown, LivedBefore
  <2>3. ~IsAsked(key)
    BY <1>4, <2>1 DEF IsAsked, Grew
  <2>4. CASE key \in DOMAIN decoded
    BY <1>3, <2>4
  <2>5. CASE Doomed(events, owners, 0)
    BY <1>6, <2>5
  <2>6. CASE IsAnswered(key)
    <3>1. PICK i \in DOMAIN events : events[i].type = "thumbnail" /\ events[i].key = key
      BY <2>6 DEF IsAnswered
    <3>2. CASE i # 1
      <4>1. i - 1 \in DOMAIN events' /\ events'[i - 1] = events[i]
        BY <1>1, <3>2 DEF Shifted
      <4> QED
        BY <3>1, <4>1 DEF IsAnswered
    <3>3. CASE i = 1
      <4>1. key = answer.key
        BY <1>1, <3>1, <3>3
      <4>2. CASE IsItsOwn(answer.key, answer.picture)
        <5>1. answer.picture = {key.at}
          BY <2>2, <4>1, <4>2 DEF IsItsOwn
        <5> QED
          BY <1>3, <4>1, <5>1
      <4>3. CASE Doomed(events, owners, 1)
        BY <1>6, <4>3
      <4> QED
        BY <1>5, <4>2, <4>3
    <3> QED
      BY <3>2, <3>3
  <2> QED
    BY <2>2, <2>3, <2>4, <2>5, <2>6 DEF PicturesComing
<1> QED
  BY <1>7, <1>8

LEMMA EntriesKeepPictures ==
  ASSUME TypedInv, [Next]_vars, PicturesKept, PicturesComing, OnEntries, owners' = owners
  PROVE  PicturesKept' /\ PicturesComing'
<1> DEFINE R == Known
           answer == Head(events)
           kept   == Prune(answer.rows)
<1>0. /\ Queues(R) /\ R \in SUBSET Row /\ asked \in SUBSET Pictures(R)
      /\ DOMAIN decoded \in SUBSET Pictures(R)
  BY KnownAreRows DEF TypedInv, ModelIn
<1> HIDE DEF R
<1>1. /\ Shifted(events, events') /\ answer = events[1]
      /\ answer \in Event(R) /\ answer.type = "entries"
  BY <1>0, HeardIsShifted DEF OnEntries
<1>2. answer.rows \in Seq(R)
  BY <1>1, EventFacts
<1>3. ~IsDrop(events[1]) /\ events[1].type # "thumbnail"
  BY <1>1 DEF IsDrop
<1> HIDE DEF answer
<1>4. CASE ~Accepts(answer.query)
  <2>1. UNCHANGED <<asked, decoded, requests>>
    BY <1>4 DEF OnEntries, thumbVars, answer
  <2> QED
    BY <1>1, <1>3, <2>1, SameIsGrown, PicturesStayHeard
<1>5. CASE Accepts(answer.query)
  <2>1. decoded' = kept.decoded /\ FetchThumbnails(answer.rows, kept.asked)
    BY <1>5 DEF OnEntries, answer
  <2>2. /\ kept.asked \subseteq asked /\ DOMAIN kept.decoded \subseteq DOMAIN decoded
        /\ \A key \in DOMAIN kept.decoded : kept.decoded[key] = decoded[key]
        /\ \A key \in kept.asked \cap DOMAIN decoded : key \in DOMAIN kept.decoded
    BY PruneDrops
  <2> HIDE DEF kept
  <2>3. kept.asked \in SUBSET Pictures(R)
    BY <1>0, <2>2
  <2>4. Grew(requests, requests') /\ \A key \in asked' : key \in kept.asked \/ IsAsked(key)'
    BY <1>0, <1>2, <2>1, <2>3, FetchGrows
  <2>5. /\ \A key \in asked' : key \in asked \/ IsAsked(key)'
        /\ \A key \in asked' \cap DOMAIN decoded : key \in DOMAIN decoded' \/ IsAsked(key)'
        /\ \A key \in DOMAIN decoded' : key \in DOMAIN decoded /\ decoded'[key] = decoded[key]
    BY <2>1, <2>2, <2>4
  <2> QED
    BY <1>1, <1>3, <2>4, <2>5, PicturesStayHeard
<1> QED
  BY <1>4, <1>5

LEMMA PicturesOnBus ==
  ASSUME TypedInv, [Next]_vars, Begun, PicturesSaid, PicturesKept, PicturesComing, OnBus,
         owners' = owners
  PROVE  PicturesSaid' /\ PicturesKept' /\ PicturesComing'
<1> DEFINE R == Known
<1>0. Queues(R)
  BY DEF TypedInv
<1> HIDE DEF R
<1> USE DEF modelVars, thumbVars, queueVars
<1>1. PICK type : Hear(type)
  BY DEF OnBus, OnReady, OnEntries, OnRevealed, OnThumbnail, OnToggle, OnDaemonUp, OnDaemonGone,
     OnFailed
<1>2. Shifted(events, events') /\ PicturesSaid'
  BY <1>0, <1>1, HeardIsShifted, PicturesAreHeard
<1>3. ASSUME NEW heard \in {"ready", "revealed", "toggle", "up", "failed"}, Hear(heard),
             Grew(requests, requests'), UNCHANGED <<asked, decoded>>
      PROVE  PicturesKept' /\ PicturesComing'
  <2>1. events[1].type = heard
    BY <1>0, <1>3, HeardIsShifted
  <2>2. ~IsDrop(events[1]) /\ events[1].type # "thumbnail"
    BY <2>1 DEF IsDrop
  <2> QED
    BY <1>2, <1>3, <2>2, PicturesStayHeard
<1>4. CASE OnReady
  <2>1. events[1].type = "ready" /\ 1 \in DOMAIN events
    BY <1>0, <1>2, <1>4, HeardIsShifted DEF OnReady, Shifted
  <2>2. requests = << >>
    BY <2>1 DEF Begun
  <2>3. Grew(requests, requests')
    BY <2>2 DEF Grew
  <2> QED
    BY <1>2, <1>3, <1>4, <2>3 DEF OnReady
<1>5. CASE OnEntries
  BY <1>2, <1>5, EntriesKeepPictures
<1>6. CASE OnThumbnail
  BY <1>2, <1>6, ThumbnailKeepsPictures
<1>7. CASE OnRevealed \/ OnFailed
  BY <1>2, <1>3, <1>7, SameIsGrown DEF OnRevealed, OnFailed
<1>8. CASE OnToggle
  <2>1. Asking
    BY <1>0, <1>8, ToggleAsks DEF OnToggle
  <2> QED
    BY <1>2, <1>3, <1>8, <2>1 DEF OnToggle, Asking
<1>9. CASE OnDaemonUp
  <2>1. Grew(requests, requests')
    <3>1. CASE open
      <4>1. Ask(Refresh(query)) /\ Refresh(query) \in Request(R)
        BY <1>9, <3>1, RequestsAre DEF OnDaemonUp, RefreshIfVisible, TypedInv, ModelIn
      <4> QED
        BY <1>0, <4>1, AskGrows
    <3>2. CASE ~open
      BY <1>9, <3>2, SameIsGrown DEF OnDaemonUp, RefreshIfVisible
    <3> QED
      BY <3>1, <3>2
  <2> QED
    BY <1>2, <1>3, <1>9, <2>1 DEF OnDaemonUp
<1>10. CASE OnDaemonGone
  <2>1. asked' = {} /\ DOMAIN decoded' = {}
    BY <1>10 DEF OnDaemonGone
  <2> QED
    BY <1>2, <2>1 DEF PicturesKept, PicturesComing
<1> QED
  BY <1>2, <1>4, <1>5, <1>6, <1>7, <1>8, <1>9, <1>10 DEF OnBus

(* Whatever is asked of somebody who is not clippod is going to be dropped. *)
LEMMA StrangersAreDoomed ==
  ASSUME TypedInv, NewsIsInOrder, watching, worker = "running", trusted, ~IsClippod(owner), NEW k
  PROVE  Doomed(events, owners, k)
<1>1. owners # << >> /\ owners[Len(owners)] = owner
  BY DEF NewsIsInOrder
<1>2. Len(owners) \in DOMAIN owners
  BY <1>1 DEF TypedInv, WorkerTyped
<1> QED
  BY <1>1, <1>2 DEF Doomed

LEMMA ServeKeepsPictures ==
  ASSUME TypedInv, [Next]_vars, NewsIsInOrder, QuietInv, watching,
         PicturesSaid, PicturesKept, PicturesComing, Serve
  PROVE  PicturesSaid' /\ PicturesKept' /\ PicturesComing'
<1> DEFINE R == Known
           request == Head(requests)
<1>0. Queues(R) /\ asked \in SUBSET Pictures(R)
  BY DEF TypedInv, ModelIn
<1>1. /\ requests # << >> /\ request \in Request(R) /\ requests' = Tail(requests)
      /\ worker = "running" /\ UNCHANGED <<asked, decoded, owners, owner>>
      /\ \/ UNCHANGED <<history, changed>>
         \/ request.type \in Acts
      /\ \/ ~trusted /\ UNCHANGED events
         \/ trusted /\ \E e \in Event(R) : Emit(<<e>>) /\ Reply(request, e)
  BY ServedIs DEF thumbVars
<1> HIDE DEF R
<1>2. Shifted(requests, requests') /\ request = requests[1]
  BY <1>0, <1>1, TailIsShifted DEF Queues
<1> HIDE DEF request
<1>3. ASSUME NEW key, IsAsked(key), ~IsAsked(key)'
      PROVE  request = Thumbnail(key)
  <2>1. PICK i \in DOMAIN requests : requests[i] = Thumbnail(key)
    BY <1>3 DEF IsAsked
  <2>2. i = 1
    BY <1>2, <1>3, <2>1 DEF IsAsked, Shifted
  <2> QED
    BY <1>2, <2>1, <2>2
<1>4. CASE ~trusted /\ UNCHANGED events
  <2>1. Grew(events, events') /\ UNCHANGED <<asked, decoded, owners>>
    BY <1>1, <1>4 DEF Grew
  <2>2. \A n \in DOMAIN events' : n \in DOMAIN events
    BY <1>4
  <2>3. ASSUME NEW key \in asked PROVE Doomed(events', owners', 0)
    <3>1. PICK k \in DOMAIN events : IsDrop(events[k])
      BY <1>1, <1>4, <2>3 DEF QuietInv, Quiet
    <3>2. k > 0
      <4>1. events \in Seq(Event(R))
        BY <1>0 DEF Queues
      <4> QED
        BY <4>1
    <3> QED
      BY <1>1, <1>4, <3>1, <3>2 DEF Doomed
  <2>4. \A k : Doomed(events, owners, k) => Doomed(events', owners', k)
    BY <2>1, DoomLasts
  <2> QED
    BY <2>1, <2>2, <2>3, <2>4, PicturesStay
<1>5. CASE trusted /\ \E e \in Event(R) : Emit(<<e>>) /\ Reply(request, e)
  <2>1. PICK e \in Event(R) : Emit(<<e>>) /\ Reply(request, e)
    BY <1>5
  <2>2. PICK n : Extended(events, events', e, n)
    BY <1>0, <2>1, SaidIsExtended
  <2>3. /\ Grew(events, events') /\ n \in DOMAIN events' /\ events'[n] = e
        /\ \A i \in DOMAIN events' : i = n \/ i \in DOMAIN events
    BY <2>2 DEF Extended
  <2>4. \A k : Doomed(events, owners, k) => Doomed(events', owners', k)
    BY <1>1, <2>3, DoomLasts
  <2>5. ASSUME NEW key, IsAsked(key), ~IsAsked(key)' PROVE IsAnswered(key)'
    <3>1. request = Thumbnail(key)
      BY <1>3, <2>5
    <3>2. e.type = "thumbnail" /\ e.key = key
      BY <2>1, <3>1 DEF Reply, Thumbnail
    <3> QED
      BY <2>3, <3>2 DEF IsAnswered
  <2>6. ASSUME e.type = "thumbnail"
        PROVE  (IsItsOwn(events[n].key, events[n].picture))' \/ Doomed(events', owners', n)
    <3>1. /\ request.type = "thumbnail" /\ e.key = request.key
          /\ IsClippod(owner) => e.picture = {history[i].at : i \in Entry(request.key.id)} \cap Images
      BY <2>1, <2>6 DEF Reply
    <3>2. CASE IsClippod(owner)
      <4>1. e.key \in Pictures(R)
        BY <2>6, EventFacts
      <4>2. e.key \in Live => e.picture = {e.key.at}
        BY <3>1, <3>2, <4>1, AnsweredIsOwn DEF R
      <4>3. e.key \in Live' => e.key \in Live
        <5>1. e.key \in Known
          BY <4>1 DEF R, Pictures
        <5> QED
          BY <5>1, LivedBefore
      <4> QED
        BY <2>3, <4>2, <4>3 DEF IsItsOwn
    <3>3. CASE ~IsClippod(owner)
      <4>1. Doomed(events, owners, n)
        BY <1>1, <1>5, <3>3, StrangersAreDoomed
      <4> QED
        BY <2>4, <4>1
    <3> QED
      BY <3>2, <3>3
  <2>7. \A i \in DOMAIN events' :
           \/ i \in DOMAIN events \/ events'[i].type # "thumbnail"
           \/ (IsItsOwn(events[i].key, events[i].picture))' \/ Doomed(events', owners', i)
    BY <2>3, <2>6
  <2> QED
    BY <1>1, <2>3, <2>4, <2>5, <2>7, PicturesStay
<1> QED
  BY <1>1, <1>4, <1>5

(* The worker says something that is no picture.                           *)
LEMMA SayingKeepsPictures ==
  ASSUME TypedInv, [Next]_vars, PicturesSaid, PicturesKept, PicturesComing,
         UNCHANGED <<asked, decoded, requests>>, NEW type \in Saying, Emit(Says(type)),
         \A k : (k = 0 \/ k \in DOMAIN events) /\ Doomed(events, owners, k)
                  => Doomed(events', owners', k)
  PROVE  PicturesSaid' /\ PicturesKept' /\ PicturesComing'
<1>1. PICK n : Extended(events, events', [type |-> type], n)
  <2>1. Queues(Known)
    BY DEF TypedInv
  <2> QED
    BY <2>1, SayingIsExtended
<1>2. /\ Grew(events, events') /\ events'[n] = [type |-> type]
      /\ \A i \in DOMAIN events' : i = n \/ i \in DOMAIN events
  BY <1>1 DEF Extended
<1>3. events'[n].type # "thumbnail"
  BY <1>2 DEF Saying
<1>4. \A key \in asked : IsAsked(key) => IsAsked(key)'
  BY DEF IsAsked
<1> QED
  BY <1>2, <1>3, <1>4, PicturesStay

LEMMA DesktopKeepsPictures ==
  ASSUME TypedInv, [Next]_vars, PicturesSaid, PicturesKept, PicturesComing, Desktop
  PROVE  PicturesSaid' /\ PicturesKept' /\ PicturesComing'
<1>1. UNCHANGED <<asked, decoded, requests, events>>
  BY DEF Desktop, Copied, Removed, ClippodStarts, ImpostorTakes, NameIsLeft, ImpostorAnnounces,
         NameGoesTo, UnchangedApplet, pickerVars, thumbVars, queueVars
<1>2. Grew(owners, owners')
  <2>1. CASE owners' = owners
    BY <2>1 DEF Grew
  <2>2. ASSUME NEW o \in Holders, owners' = Append(owners, o) PROVE Grew(owners, owners')
    <3>1. owners \in Seq(Holders)
      BY DEF TypedInv, WorkerTyped
    <3>2. /\ DOMAIN owners = 1..Len(owners) /\ DOMAIN Append(owners, o) = 1..(Len(owners) + 1)
          /\ Len(owners) \in Nat
          /\ \A i \in 1..Len(owners) : Append(owners, o)[i] = owners[i]
      BY <2>2, <3>1, OneMore
    <3> QED
      BY <2>2, <3>2 DEF Grew
  <2>3. ASSUME NEW o \in Holders, NameGoesTo(o) PROVE Grew(owners, owners')
    BY <2>1, <2>2, <2>3 DEF NameGoesTo
  <2>4. Absent \in Holders /\ Impostor \in Holders /\ Clippod(lives + 1) \in Holders
    BY AppletAssumption DEF Holders, TypedInv, WorkerTyped
  <2> QED
    BY <2>1, <2>3, <2>4
    DEF Desktop, Copied, Removed, ClippodStarts, ImpostorTakes, NameIsLeft, ImpostorAnnounces
<1>3. \A k : Doomed(events, owners, k) => Doomed(events', owners', k)
  BY <1>1, <1>2 DEF Doomed, Grew
<1>4. Grew(events, events') /\ \A n \in DOMAIN events' : n \in DOMAIN events
  BY <1>1 DEF Grew
<1>5. \A key \in asked : IsAsked(key) => IsAsked(key)'
  BY <1>1 DEF IsAsked
<1> QED
  BY <1>1, <1>3, <1>4, <1>5, PicturesStay

LEMMA PicturesAtFirst ==
  ASSUME Begun, worker # "running"
  PROVE  PictureInv
BY DEF Begun, PictureInv, PicturesSaid, PicturesKept, PicturesComing

LEMMA PicturesWait ==
  ASSUME TypedInv, Begun, Begun', NewsIsInOrder, QuietInv, PictureInv, [Next]_vars
  PROVE  PictureInv'
<1> DEFINE Kept == PicturesSaid' /\ PicturesKept' /\ PicturesComing'
<1>1. CASE worker' # "running"
  BY <1>1 DEF Begun, PictureInv, PicturesSaid, PicturesKept, PicturesComing
<1>2. CASE AskOwner
  <2>1. PICK n : Extended(events, events', [type |-> Judged(owner)], n)
    <3>1. Judged(owner) \in Saying /\ Emit(Says(Judged(owner)))
      BY <1>2, JudgedIsSaying DEF AskOwner, Saying
    <3>2. Queues(Known)
      BY DEF TypedInv
    <3> QED
      BY <3>1, <3>2, SayingIsExtended
  <2>2. Judged(owner) # "thumbnail"
    BY JudgedIsSaying
  <2>3. /\ \A i \in DOMAIN events : events[i].type \in {"ready", "failed", "down"}
        /\ asked = {} /\ decoded = << >> /\ asked' = asked /\ decoded' = decoded
    BY <1>2 DEF AskOwner, Begun, thumbVars
  <2>4. \A i \in DOMAIN events' : events'[i].type # "thumbnail"
    BY <2>1, <2>2, <2>3 DEF Extended, Grew
  <2> QED
    BY <2>3, <2>4 DEF PictureInv, PicturesSaid, PicturesKept, PicturesComing
<1>3. CASE worker' = "running" /\ ~AskOwner
  <2>1. worker = "running" /\ (watching' <=> watching)
    BY <1>3
    DEF Next, Worker, Others, Hears, Desktop, StartWorker, FailToConnect, Subscribe, WatchName,
        Serve, HearHistoryChanged, HearOwner, HearToggle, Copied, Removed, ClippodStarts,
        ImpostorTakes, NameIsLeft, ImpostorAnnounces, NameGoesTo, UnchangedApplet, workerVars,
        vars, system
  <2>2. SUFFICES ASSUME watching PROVE Kept
    BY <2>1 DEF PictureInv
  <2>3. PicturesSaid /\ PicturesKept /\ PicturesComing
    BY <2>2 DEF PictureInv
  <2>4. ASSUME UNCHANGED <<events, owners, asked, decoded>>, Grew(requests, requests')
        PROVE  Kept
    <3>1. Grew(events, events') /\ \A n \in DOMAIN events' : n \in DOMAIN events
      BY <2>4 DEF Grew
    <3>2. \A key \in asked : IsAsked(key) => IsAsked(key)'
      BY <2>4 DEF IsAsked, Grew
    <3>3. \A k : Doomed(events, owners, k) => Doomed(events', owners', k)
      BY <2>4
    <3> QED
      BY <2>3, <2>4, <3>1, <3>2, <3>3, PicturesStay
  <2>5. CASE Keys /\ Others
    <3>1. UNCHANGED <<events, owners, asked, decoded>> /\ Grew(requests, requests')
      BY <2>5, KeysAsk DEF Asking, Others, signalVars
    <3> QED
      BY <2>4, <3>1
  <2>6. CASE Hears
    BY <2>3, <2>6, PicturesOnBus DEF Hears, Others, signalVars
  <2>7. CASE Serve
    BY <2>2, <2>3, <2>7, ServeKeepsPictures
  <2>8. CASE HearHistoryChanged
    <3>1. UNCHANGED <<owners, asked, decoded, requests>>
      BY <2>8 DEF HearHistoryChanged, thumbVars, queueVars
    <3>2. CASE trusted
      <4>1. Emit(Says("up")) /\ "up" \in Saying
        BY <2>8, <3>2 DEF HearHistoryChanged, Saying
      <4>2. PICK n : Extended(events, events', [type |-> "up"], n)
        BY <4>1, SayingIsExtended DEF TypedInv
      <4>3. \A k : Doomed(events, owners, k) => Doomed(events', owners', k)
        BY <3>1, <4>2, DoomLasts DEF Extended
      <4> QED
        BY <2>3, <3>1, <4>1, <4>3, SayingKeepsPictures
    <3>3. CASE ~trusted
      <4>1. events' = events
        BY <2>8, <3>3 DEF HearHistoryChanged
      <4> QED
        BY <2>4, <3>1, <4>1, SameIsGrown
    <3> QED
      BY <3>2, <3>3
  <2>9. CASE HearToggle
    <3>1. UNCHANGED <<owners, asked, decoded, requests>> /\ Emit(Says("toggle")) /\ "toggle" \in Saying
      BY <2>9 DEF HearToggle, thumbVars, queueVars, signalVars, Saying
    <3>2. PICK n : Extended(events, events', [type |-> "toggle"], n)
      BY <3>1, SayingIsExtended DEF TypedInv
    <3>3. \A k : Doomed(events, owners, k) => Doomed(events', owners', k)
      BY <3>1, <3>2, DoomLasts DEF Extended
    <3> QED
      BY <2>3, <3>1, <3>3, SayingKeepsPictures
  <2>10. CASE HearOwner
    <3>1. /\ UNCHANGED <<asked, decoded, requests>>
          /\ Judged(Head(owners)) \in Saying /\ Emit(Says(Judged(Head(owners))))
      BY <2>10, JudgedIsSaying DEF HearOwner, thumbVars, queueVars, Saying
    <3>2. ASSUME NEW k, k = 0 \/ k \in DOMAIN events, Doomed(events, owners, k)
          PROVE  Doomed(events', owners', k)
      <4>1. events \in Seq(Event(Known))
        BY DEF TypedInv, Queues
      <4>2. k \in Nat
        BY <3>2, <4>1
      <4> QED
        BY <2>10, <3>2, <4>2, DoomIsSaid
    <3> QED
      BY <2>3, <3>1, <3>2, SayingKeepsPictures
  <2>11. CASE Desktop
    BY <2>3, <2>11, DesktopKeepsPictures
  <2>12. CASE UNCHANGED vars
    <3>1. UNCHANGED <<events, owners, asked, decoded, requests>>
      BY <2>12 DEF vars, system, pickerVars, signalVars, thumbVars, queueVars
    <3> QED
      BY <2>4, <3>1, SameIsGrown
  <2>13. CASE StartWorker \/ FailToConnect \/ Subscribe \/ WatchName
    BY <1>3, <2>13 DEF StartWorker, FailToConnect, Subscribe, WatchName
  <2> QED
    BY <1>3, <2>5, <2>6, <2>7, <2>8, <2>9, <2>10, <2>11, <2>12, <2>13 DEF Next, Worker
<1> QED
  BY <1>1, <1>2, <1>3

(* What holds of the worker and of its pictures, and is kept by every step. *)
PicturesHold == TypedInv /\ Begun /\ NewsIsInOrder /\ QuietInv /\ PictureInv

LEMMA PicturesHoldAtFirst == Init => PicturesHold
<1> SUFFICES ASSUME Init PROVE PicturesHold
  OBVIOUS
<1>1. Begun
  <2>1. /\ worker = "starting" /\ inbox = TRUE /\ watching = FALSE /\ link = FALSE
        /\ events = << >> /\ requests = << >> /\ asked = {} /\ decoded = << >> /\ rows = << >>
        /\ revealed = {}
    BY DEF Init, PickerInit
  <2>2. \A i \in DOMAIN events : FALSE
    BY <2>1
  <2>3. inbox = (worker # "gone")
    BY <2>1
  <2> QED
    BY <2>1, <2>2, <2>3 DEF Begun
<1>2. worker = "starting" /\ owners = << >>
  BY DEF Init
<1>3. PictureInv
  BY <1>1, <1>2, PicturesAtFirst
<1> QED
  BY <1>1, <1>2, <1>3, TypesAtFirst DEF PicturesHold, NewsIsInOrder, QuietInv

LEMMA PicturesHoldAfter == PicturesHold /\ [Next]_vars => PicturesHold'
<1> SUFFICES ASSUME PicturesHold, [Next]_vars PROVE PicturesHold'
  OBVIOUS
<1>1. TypedInv /\ Begun /\ NewsIsInOrder /\ QuietInv /\ PictureInv
  BY DEF PicturesHold
<1>2. TypedInv'
  BY <1>1, TypesKept
<1>3. Begun'
  BY <1>1, BegunKept
<1>4. NewsIsInOrder'
  BY <1>1, NewsKept
<1>5. QuietInv'
  BY <1>1, QuietKept
<1>6. PictureInv'
  BY <1>1, <1>3, PicturesWait
<1> QED
  BY <1>2, <1>3, <1>4, <1>5, <1>6 DEF PicturesHold

LEMMA DoomIsComing ==
  ASSUME Doomed(events, owners, 0)
  PROVE  DropIsComing
BY DEF Doomed, DropIsComing, Said, IsDrop

(* A picture drawn beside an entry that is there is that entry's: ids are  *)
(* given out again, but not with the same captured_at, and what came from  *)
(* a peer that is no clippod goes with the news of it (model.rs EntryKey,  *)
(* thumbs.rs clear).                                                       *)
THEOREM PictureIsAlwaysItsOwn == Spec => []PictureIsItsOwn
<1>1. PicturesHold => PictureIsItsOwn
  <2> SUFFICES ASSUME PicturesHold, ~DropIsComing, NEW i \in DOMAIN rows,
                      rows[i] \in ToSet(history)
               PROVE  DrawnRow(rows[i]).picture \subseteq {rows[i].at}
    BY DEF PictureIsItsOwn, OnScreen, DrawnRow
  <2> DEFINE key == KeyOf(rows[i])
  <2>1. PicturesKept
    BY DEF PicturesHold, PictureInv, DropIsComing
  <2>2. key \in Live /\ key.at = rows[i].at
    BY DEF Live, KeysOf, KeyOf, ToSet
  <2>3. key \in DOMAIN decoded => {decoded[key]} = {key.at}
    BY <2>1, <2>2, DoomIsComing DEF PicturesKept, IsItsOwn
  <2>4. DrawnRow(rows[i]).picture = {decoded[k] : k \in {key} \cap DOMAIN decoded}
    BY DEF DrawnRow
  <2> HIDE DEF key
  <2> QED
    BY <2>2, <2>3, <2>4
<1> QED
  BY <1>1, PicturesHoldAtFirst, PicturesHoldAfter, PTL DEF Spec

(* A picture that was asked for is there, or asked for, or answered: no    *)
(* request is lost between a queue that is full, a worker that does not    *)
(* trust the owner and a cache that is pruned (app.rs fetch_thumbnails,    *)
(* bus.rs worker, thumbs.rs Thumbnails::prune).                            *)
THEOREM PictureIsAlwaysOnItsWay == Spec => []PictureIsOnItsWay
<1>1. PicturesHold => PictureIsOnItsWay
  <2> SUFFICES ASSUME PicturesHold, ~DropIsComing, NEW key \in asked \cap Live,
                      key \notin DOMAIN decoded
               PROVE  IsAsked(key) \/ IsAnswered(key)
    BY DEF PictureIsOnItsWay, IsAsked, IsAnswered
  <2>1. PicturesComing
    BY DEF PicturesHold, PictureInv, DropIsComing
  <2> QED
    BY <2>1, DoomIsComing DEF PicturesComing
<1> QED
  BY <1>1, PicturesHoldAtFirst, PicturesHoldAfter, PTL DEF Spec

-----------------------------------------------------------------------------
(* The list, and what is revealed in it.                                   *)

(* A list for what is typed now; and one that comes behind the kth.        *)
Relevant(e, text)         == e.type = "entries" /\ e.query = text
ListBehind(said, text, k) == \E j \in DOMAIN said : j > k /\ Relevant(said[j], text)

(* The last list that will be drawn for the text is the answer to it.      *)
EndsWith(said, text, list, answer) ==
  \/ \E k \in DOMAIN said :
       /\ Relevant(said[k], text) /\ said[k].rows = answer
       /\ \A j \in DOMAIN said : j > k => ~Relevant(said[j], text)
  \/ (\A k \in DOMAIN said : ~Relevant(said[k], text)) /\ list = answer

IsTheEntrys(held, id, value) ==
  \A i \in DOMAIN held : held[i].id = id => held[i].at = value

(* A value is that of the entry it is drawn beside, or it goes with a list. *)
IsTruthful(said, text, held, drawn) ==
  /\ \A value \in drawn : IsTheEntrys(held, value.id, value.value) \/ ListBehind(said, text, 0)
  /\ \A k \in DOMAIN said : said[k].type = "revealed" =>
       IsTheEntrys(held, said[k].id, said[k].value) \/ ListBehind(said, text, k)

LEMMA ListIsSaid ==
  ASSUME NEW old, NEW new, NEW e, NEW n, Extended(old, new, e, n), NEW text, NEW list, NEW answer,
         NEW held, NEW drawn, Relevant(e, text), e.rows = answer
  PROVE  EndsWith(new, text, list, answer) /\ IsTruthful(new, text, held, drawn)
<1>1. /\ n \in DOMAIN new /\ new[n] = e /\ n \in Nat \ {0} /\ DOMAIN old \subseteq Nat \ {0}
      /\ \A i \in DOMAIN new : i = n \/ i < n
  BY DEF Extended
<1>2. \A j \in DOMAIN new : ~(j > n)
  <2>1. ASSUME NEW j \in DOMAIN new, j > n PROVE FALSE
    <3>1. j \in Nat
      BY <1>1 DEF Extended
    <3> QED
      BY <1>1, <2>1, <3>1
  <2> QED
    BY <2>1
<1>3. EndsWith(new, text, list, answer)
  BY <1>1, <1>2 DEF EndsWith
<1>4. ListBehind(new, text, 0) /\ \A k \in DOMAIN new : k # n => ListBehind(new, text, k)
  <2>1. n > 0
    BY <1>1
  <2>2. \A k \in DOMAIN new : k # n => n > k
    <3>1. \A k \in DOMAIN new : k \in Nat
      BY <1>1 DEF Extended
    <3> QED
      BY <1>1, <3>1
  <2> QED
    BY <1>1, <2>1, <2>2 DEF ListBehind
<1>5. new[n].type # "revealed"
  BY <1>1 DEF Relevant
<1> QED
  BY <1>3, <1>4, <1>5 DEF IsTruthful

LEMMA OtherIsSaid ==
  ASSUME NEW old, NEW new, NEW e, NEW n, Extended(old, new, e, n), NEW text, NEW list, NEW answer,
         NEW held, NEW drawn, ~Relevant(e, text),
         e.type = "revealed" => IsTheEntrys(held, e.id, e.value),
         EndsWith(old, text, list, answer), IsTruthful(old, text, held, drawn)
  PROVE  EndsWith(new, text, list, answer) /\ IsTruthful(new, text, held, drawn)
<1>1. /\ Grew(old, new) /\ new[n] = e /\ n \in DOMAIN new
      /\ \A i \in DOMAIN new : i = n \/ i \in DOMAIN old
  BY DEF Extended
<1>2. \A i \in DOMAIN new : Relevant(new[i], text) => i \in DOMAIN old /\ Relevant(old[i], text)
  BY <1>1 DEF Grew
<1>3. EndsWith(new, text, list, answer)
  <2>1. CASE \E k \in DOMAIN old :
               /\ Relevant(old[k], text) /\ old[k].rows = answer
               /\ \A j \in DOMAIN old : j > k => ~Relevant(old[j], text)
    <3>1. PICK k \in DOMAIN old :
               /\ Relevant(old[k], text) /\ old[k].rows = answer
               /\ \A j \in DOMAIN old : j > k => ~Relevant(old[j], text)
      BY <2>1
    <3>2. k \in DOMAIN new /\ new[k] = old[k]
      BY <1>1 DEF Grew
    <3>3. \A j \in DOMAIN new : j > k => ~Relevant(new[j], text)
      BY <1>2, <3>1
    <3> QED
      BY <3>1, <3>2, <3>3 DEF EndsWith
  <2>2. CASE (\A k \in DOMAIN old : ~Relevant(old[k], text)) /\ list = answer
    BY <1>2, <2>2 DEF EndsWith
  <2> QED
    BY <2>1, <2>2 DEF EndsWith
<1>4. \A k : ListBehind(old, text, k) => ListBehind(new, text, k)
  BY <1>1 DEF ListBehind, Grew
<1>5. IsTruthful(new, text, held, drawn)
  BY <1>1, <1>4 DEF IsTruthful, Grew
<1> QED
  BY <1>3, <1>5

LEMMA ListIsHeard ==
  ASSUME NEW old, NEW new, Shifted(old, new), NEW text, NEW list, NEW answer, NEW held, NEW drawn,
         Relevant(old[1], text),
         EndsWith(old, text, list, answer), IsTruthful(old, text, held, drawn)
  PROVE  EndsWith(new, text, old[1].rows, answer) /\ IsTruthful(new, text, held, {})
<1>1. /\ 1 \in DOMAIN old /\ DOMAIN old \subseteq Nat \ {0}
      /\ \A i \in DOMAIN new : i \in Nat \ {0} /\ i + 1 \in DOMAIN old /\ new[i] = old[i + 1]
      /\ \A i \in DOMAIN old : i # 1 => i - 1 \in DOMAIN new /\ new[i - 1] = old[i]
  BY DEF Shifted
<1>2. PICK k \in DOMAIN old :
        /\ Relevant(old[k], text) /\ old[k].rows = answer
        /\ \A j \in DOMAIN old : j > k => ~Relevant(old[j], text)
  BY <1>1 DEF EndsWith
<1>3. EndsWith(new, text, old[1].rows, answer)
  <2>1. CASE k = 1
    <3>1. \A j \in DOMAIN new : ~Relevant(new[j], text)
      BY <1>1, <1>2, <2>1
    <3> QED
      BY <1>2, <2>1, <3>1 DEF EndsWith
  <2>2. CASE k # 1
    <3>1. k - 1 \in DOMAIN new /\ new[k - 1] = old[k] /\ k \in Nat
      BY <1>1, <2>2
    <3>2. \A j \in DOMAIN new : j > k - 1 => ~Relevant(new[j], text)
      BY <1>1, <1>2, <3>1
    <3> QED
      BY <1>2, <3>1, <3>2 DEF EndsWith
  <2> QED
    BY <2>1, <2>2
<1>4. \A i \in DOMAIN new : ListBehind(old, text, i + 1) => ListBehind(new, text, i)
  <2>1. SUFFICES ASSUME NEW i \in DOMAIN new, NEW j \in DOMAIN old, j > i + 1, Relevant(old[j], text)
                 PROVE  ListBehind(new, text, i)
    BY DEF ListBehind
  <2>2. i \in Nat /\ j \in Nat
    BY <1>1
  <2>3. j # 1 /\ j - 1 > i
    BY <2>1, <2>2
  <2> QED
    BY <1>1, <2>1, <2>3 DEF ListBehind
<1>5. IsTruthful(new, text, held, {})
  BY <1>1, <1>4 DEF IsTruthful
<1> QED
  BY <1>3, <1>5

LEMMA OtherIsHeard ==
  ASSUME NEW old, NEW new, Shifted(old, new), NEW text, NEW list, NEW answer, NEW held, NEW drawn,
         NEW drawn2, ~Relevant(old[1], text),
         \A value \in drawn2 :
           value \in drawn \/ (old[1].type = "revealed" /\ value = [id |-> old[1].id, value |-> old[1].value]),
         EndsWith(old, text, list, answer), IsTruthful(old, text, held, drawn)
  PROVE  EndsWith(new, text, list, answer) /\ IsTruthful(new, text, held, drawn2)
<1>1. /\ 1 \in DOMAIN old /\ DOMAIN old \subseteq Nat \ {0}
      /\ \A i \in DOMAIN new : i \in Nat \ {0} /\ i + 1 \in DOMAIN old /\ new[i] = old[i + 1]
      /\ \A i \in DOMAIN old : i # 1 => i - 1 \in DOMAIN new /\ new[i - 1] = old[i]
  BY DEF Shifted
<1>2. EndsWith(new, text, list, answer)
  <2>1. CASE \E k \in DOMAIN old :
               /\ Relevant(old[k], text) /\ old[k].rows = answer
               /\ \A j \in DOMAIN old : j > k => ~Relevant(old[j], text)
    <3>1. PICK k \in DOMAIN old :
               /\ Relevant(old[k], text) /\ old[k].rows = answer
               /\ \A j \in DOMAIN old : j > k => ~Relevant(old[j], text)
      BY <2>1
    <3>2. k # 1 /\ k \in Nat
      BY <1>1, <3>1
    <3>3. k - 1 \in DOMAIN new /\ new[k - 1] = old[k]
      BY <1>1, <3>2
    <3>4. \A j \in DOMAIN new : j > k - 1 => ~Relevant(new[j], text)
      BY <1>1, <3>1, <3>2
    <3> QED
      BY <3>1, <3>3, <3>4 DEF EndsWith
  <2>2. CASE (\A k \in DOMAIN old : ~Relevant(old[k], text)) /\ list = answer
    BY <1>1, <2>2 DEF EndsWith
  <2> QED
    BY <2>1, <2>2 DEF EndsWith
<1>3. \A i \in Nat : ListBehind(old, text, i + 1) => ListBehind(new, text, i)
  <2>1. SUFFICES ASSUME NEW i \in Nat, NEW j \in DOMAIN old, j > i + 1, Relevant(old[j], text)
                 PROVE  ListBehind(new, text, i)
    BY DEF ListBehind
  <2>2. j \in Nat
    BY <1>1
  <2>3. j # 1 /\ j - 1 > i
    BY <2>1, <2>2
  <2> QED
    BY <1>1, <2>1, <2>3 DEF ListBehind
<1>4. ListBehind(old, text, 0) => ListBehind(new, text, 0)
  <2>1. SUFFICES ASSUME NEW j \in DOMAIN old, Relevant(old[j], text)
                 PROVE  ListBehind(new, text, 0)
    BY DEF ListBehind
  <2>2. j # 1 /\ j \in Nat \ {0}
    BY <1>1, <2>1
  <2>3. j - 1 > 0
    BY <2>2
  <2> QED
    BY <1>1, <2>1, <2>2, <2>3 DEF ListBehind
<1>5. ListBehind(old, text, 1) => ListBehind(new, text, 0)
  <2>1. 0 \in Nat /\ 0 + 1 = 1
    OBVIOUS
  <2> QED
    BY <1>3, <2>1
<1>6. \A value \in drawn2 : IsTheEntrys(held, value.id, value.value) \/ ListBehind(new, text, 0)
  <2>1. SUFFICES ASSUME NEW value \in drawn2
                 PROVE  IsTheEntrys(held, value.id, value.value) \/ ListBehind(new, text, 0)
    OBVIOUS
  <2>2. CASE value \in drawn
    BY <1>4, <2>2 DEF IsTruthful
  <2>3. CASE old[1].type = "revealed" /\ value = [id |-> old[1].id, value |-> old[1].value]
    <3>1. value.id = old[1].id /\ value.value = old[1].value
      BY <2>3
    <3> QED
      BY <1>1, <1>5, <2>3, <3>1 DEF IsTruthful
  <2> QED
    BY <2>2, <2>3
<1>7. \A k \in DOMAIN new : new[k].type = "revealed" =>
        IsTheEntrys(held, new[k].id, new[k].value) \/ ListBehind(new, text, k)
  BY <1>1, <1>3 DEF IsTruthful
<1> QED
  BY <1>2, <1>6, <1>7 DEF IsTruthful

(* clippod has the name, the worker watches it, and there is no news to    *)
(* read.                                                                   *)
Serving == worker = "running" /\ watching /\ IsClippod(owner) /\ owners = << >>

(* What makes the UI forget is followed by what makes it ask again.        *)
UpFollows ==
  Serving => \A k \in DOMAIN events : IsDrop(events[k]) =>
    \E j \in DOMAIN events : j > k /\ events[j].type = "up"

LEMMA UpIsSaid ==
  ASSUME TypedInv, NewsIsInOrder, Serving', AskOwner \/ HearOwner
  PROVE  \E n : Extended(events, events', [type |-> "up"], n)
<1>0. Queues(Known) /\ owners \in Seq(Holders) /\ owner \in Holders /\ owner' = owner
  BY DEF TypedInv, WorkerTyped, AskOwner, HearOwner, daemonVars
<1>1. IsClippod(owner)
  BY <1>0 DEF Serving, IsClippod
<1>2. Judged(owner) = "up"
  BY <1>0, <1>1, ClippodIsUp
<1>3. Emit(Says("up"))
  <2>1. CASE AskOwner
    BY <1>2, <2>1 DEF AskOwner
  <2>2. CASE HearOwner
    <3>1. owners # << >> /\ owners' = Tail(owners) /\ owners' = << >>
      BY <2>2 DEF HearOwner, Serving
    <3>2. Len(Tail(owners)) = Len(owners) - 1 /\ Len(owners) \in Nat /\ Head(owners) = owners[1]
      BY <1>0, <3>1, RestIs
    <3>3. Len(owners) = 1
      BY <3>1, <3>2
    <3>4. Head(owners) = owner
      BY <3>1, <3>2, <3>3 DEF NewsIsInOrder
    <3> QED
      BY <1>2, <2>2, <3>4 DEF HearOwner
  <2> QED
    BY <2>1, <2>2
<1>4. "up" \in Saying
  BY DEF Saying
<1> QED
  BY <1>0, <1>3, <1>4, SayingIsExtended

LEMMA ServingBefore ==
  ASSUME TypedInv, [Next]_vars, Serving'
  PROVE  \/ AskOwner \/ HearOwner
         \/ /\ Serving
            /\ \/ Keys /\ Others
               \/ Hears \/ Serve \/ HearHistoryChanged \/ HearToggle \/ Copied \/ Removed
               \/ UNCHANGED vars
<1> USE DEF workerVars, signalVars, daemonVars
<1>1. CASE (Keys /\ Others) \/ Hears \/ UNCHANGED vars
  BY <1>1 DEF Hears, Others, vars, system, Serving, IsClippod
<1>2. CASE StartWorker \/ FailToConnect \/ Subscribe \/ WatchName
  BY <1>2 DEF StartWorker, FailToConnect, Subscribe, WatchName, Serving
<1>3. CASE Serve \/ HearHistoryChanged \/ HearToggle
  BY <1>3 DEF Serve, HearHistoryChanged, HearToggle, Serving, IsClippod
<1>4. CASE Copied \/ Removed
  BY <1>4 DEF Copied, Removed, UnchangedApplet, Serving, IsClippod
<1>5. CASE ImpostorAnnounces
  <2>1. owner' = Impostor /\ ~IsClippod(Impostor)
    BY <1>5 DEF ImpostorAnnounces, IsClippod, Impostor
  <2> QED
    BY <2>1 DEF Serving, IsClippod
<1>6. CASE ClippodStarts \/ ImpostorTakes \/ NameIsLeft
  <2>1. PICK o : NameGoesTo(o)
    BY <1>6 DEF ClippodStarts, ImpostorTakes, NameIsLeft
  <2>2. worker = "running" /\ watching
    BY <2>1 DEF NameGoesTo, UnchangedApplet, Serving
  <2>3. owners' = Append(owners, o)
    BY <2>1, <2>2 DEF NameGoesTo
  <2>4. owners' # << >>
    BY <2>3
  <2> QED
    BY <2>4 DEF Serving
<1> QED
  BY <1>1, <1>2, <1>3, <1>4, <1>5, <1>6 DEF Next, Worker, Desktop

(* Once clippod serves, the worker trusts it, and what it says is no drop. *)
LEMMA ServedBy ==
  ASSUME TypedInv, NewsIsInOrder, Serving, Serve
  PROVE  /\ requests # << >> /\ Shifted(requests, requests')
         /\ UNCHANGED <<rows, revealed, query, open, missed>>
         /\ UNCHANGED <<history, changed>> \/ changed'
         /\ \E e \in Event(Known) : \E n :
              Extended(events, events', e, n) /\ ~IsDrop(e) /\ Reply(requests[1], e)
<1>1. trusted /\ IsClippod(owner)
  BY DEF NewsIsInOrder, Serving
<1>2. /\ requests # << >> /\ requests' = Tail(requests)
      /\ UNCHANGED <<rows, revealed, query, open, missed>>
      /\ UNCHANGED <<history, changed>> \/ changed'
      /\ \E e \in Event(Known) : Emit(<<e>>) /\ Reply(Head(requests), e)
  BY <1>1, ServedIs DEF modelVars
<1>3. Queues(Known)
  BY DEF TypedInv
<1>4. Shifted(requests, requests') /\ Head(requests) = requests[1]
  BY <1>2, <1>3, TailIsShifted DEF Queues
<1>5. PICK e \in Event(Known) : Emit(<<e>>) /\ Reply(Head(requests), e)
  BY <1>2
<1>6. PICK n : Extended(events, events', e, n)
  BY <1>3, <1>5, SaidIsExtended
<1>7. ~IsDrop(e)
  BY <1>1, <1>5 DEF Reply, IsDrop
<1> QED
  BY <1>2, <1>4, <1>5, <1>6, <1>7

LEMMA UpKept ==
  ASSUME TypedInv, NewsIsInOrder, UpFollows, [Next]_vars
  PROVE  UpFollows'
<1>0. Queues(Known)
  BY DEF TypedInv
<1>1. SUFFICES ASSUME Serving'
               PROVE  \A k \in DOMAIN events' : IsDrop(events'[k]) =>
                        \E j \in DOMAIN events' : j > k /\ events'[j].type = "up"
  BY DEF UpFollows
<1>2. ASSUME NEW e, NEW n, Extended(events, events', e, n), ~IsDrop(e), Serving
      PROVE  \A k \in DOMAIN events' : IsDrop(events'[k]) =>
               \E j \in DOMAIN events' : j > k /\ events'[j].type = "up"
  BY <1>2 DEF Extended, Grew, UpFollows
<1>3. CASE AskOwner \/ HearOwner
  <2>1. PICK n : Extended(events, events', [type |-> "up"], n)
    BY <1>1, <1>3, UpIsSaid
  <2>2. /\ n \in DOMAIN events' /\ events'[n].type = "up" /\ ~IsDrop(events'[n])
        /\ \A k \in DOMAIN events' : k = n \/ (k < n /\ k \in Nat /\ n \in Nat)
    BY <2>1 DEF Extended, IsDrop
  <2>3. \A k \in DOMAIN events' : IsDrop(events'[k]) => n > k
    BY <2>2
  <2> QED
    BY <2>2, <2>3
<1>4. CASE Serving /\ ((Keys /\ Others) \/ Copied \/ Removed \/ UNCHANGED vars)
  <2>1. events' = events
    BY <1>4, KeysAsk DEF Copied, Removed, UnchangedApplet, pickerVars, vars, system
  <2> QED
    BY <1>4, <2>1 DEF UpFollows
<1>5. CASE Serving /\ Hears
  <2>1. PICK type : Hear(type)
    BY <1>5
    DEF Hears, OnBus, OnReady, OnEntries, OnRevealed, OnThumbnail, OnToggle, OnDaemonUp,
        OnDaemonGone, OnFailed
  <2>2. Shifted(events, events')
    BY <1>0, <2>1, HeardIsShifted
  <2>3. ASSUME NEW k \in DOMAIN events', IsDrop(events'[k])
        PROVE  \E j \in DOMAIN events' : j > k /\ events'[j].type = "up"
    <3>1. k \in Nat /\ k + 1 \in DOMAIN events /\ IsDrop(events[k + 1])
      BY <2>2, <2>3 DEF Shifted
    <3>2. PICK j \in DOMAIN events : j > k + 1 /\ events[j].type = "up"
      BY <1>5, <3>1 DEF UpFollows
    <3>3. j \in Nat /\ j # 1 /\ j - 1 > k
      BY <2>2, <3>1, <3>2 DEF Shifted
    <3>4. j - 1 \in DOMAIN events' /\ events'[j - 1] = events[j]
      BY <2>2, <3>3 DEF Shifted
    <3> QED
      BY <3>2, <3>3, <3>4
  <2> QED
    BY <2>3
<1>6. CASE Serving /\ Serve
  BY <1>2, <1>6, ServedBy
<1>7. CASE Serving /\ HearHistoryChanged
  <2>1. trusted
    BY <1>7 DEF Serving, NewsIsInOrder
  <2>2. Emit(Says("up")) /\ "up" \in Saying /\ ~IsDrop([type |-> "up"])
    BY <1>7, <2>1 DEF HearHistoryChanged, Saying, IsDrop
  <2>3. PICK n : Extended(events, events', [type |-> "up"], n)
    BY <1>0, <2>2, SayingIsExtended
  <2> QED
    BY <1>2, <1>7, <2>2, <2>3
<1>8. CASE Serving /\ HearToggle
  <2>1. Emit(Says("toggle")) /\ "toggle" \in Saying /\ ~IsDrop([type |-> "toggle"])
    BY <1>8 DEF HearToggle, Saying, IsDrop
  <2>2. PICK n : Extended(events, events', [type |-> "toggle"], n)
    BY <1>0, <2>1, SayingIsExtended
  <2> QED
    BY <1>2, <1>8, <2>1, <2>2
<1> QED
  BY <1>1, <1>3, <1>4, <1>5, <1>6, <1>7, <1>8, ServingBefore

(* The picker shows what there is, as far as the worker has read it.       *)
Watched == Serving /\ open /\ ~missed /\ ~changed

RefreshIsComing == Said("up") \/ Said("ready") \/ RefreshAsked

IsRight ==
  /\ EndsWith(events, query, rows, Answer(query))
  /\ IsTruthful(events, query, history, revealed)

ShownInv == Watched => RefreshIsComing \/ IsRight

LEMMA AnswerSame ==
  ASSUME UNCHANGED <<history, query>>
  PROVE  Answer(query)' = Answer(query)
BY DEF Answer, Keep, NoQuery

(* Nothing is heard and nothing said: what is revealed may be forgotten.   *)
LEMMA ShownSame ==
  ASSUME RefreshIsComing \/ IsRight, UNCHANGED <<events, history, query, rows>>,
         revealed' \in {revealed, {}}, Grew(requests, requests')
  PROVE  RefreshIsComing' \/ IsRight'
<1>1. CASE RefreshIsComing
  BY <1>1 DEF RefreshIsComing, Said, RefreshAsked, Refresh, Grew
<1>2. CASE IsRight
  <2>1. EndsWith(events', query', rows', Answer(query)')
    BY <1>2, AnswerSame DEF IsRight
  <2>2. IsTruthful(events', query', history', revealed')
    BY <1>2 DEF IsRight, IsTruthful
  <2> QED
    BY <2>1, <2>2 DEF IsRight
<1> QED
  BY <1>1, <1>2

(* Anything is said that is not a list for what is typed.                  *)
LEMMA ShownWhenSaid ==
  ASSUME RefreshIsComing \/ IsRight, UNCHANGED <<history, query, rows, revealed>>,
         NEW e, NEW n, Extended(events, events', e, n), ~Relevant(e, query),
         e.type = "revealed" => IsTheEntrys(history, e.id, e.value),
         RefreshAsked => RefreshAsked'
  PROVE  RefreshIsComing' \/ IsRight'
<1>1. CASE RefreshIsComing
  <2>1. Grew(events, events')
    BY DEF Extended
  <2> QED
    BY <1>1, <2>1 DEF RefreshIsComing, Said, Grew
<1>2. CASE IsRight
  <2>1. /\ EndsWith(events', query, rows, Answer(query))
        /\ IsTruthful(events', query, history, revealed)
    BY <1>2, OtherIsSaid DEF IsRight
  <2> QED
    BY <2>1, AnswerSame DEF IsRight
<1> QED
  BY <1>1, <1>2

(* Anything is heard that is neither a list for what is typed nor what     *)
(* makes the UI ask for one.                                               *)
LEMMA ShownWhenHeard ==
  ASSUME RefreshIsComing \/ IsRight, UNCHANGED <<history, query, rows>>,
         Shifted(events, events'), ~Relevant(events[1], query),
         events[1].type \notin {"up", "ready"}, Grew(requests, requests'),
         \/ revealed' \in {revealed, {}}
         \/ /\ events[1].type = "revealed"
            /\ revealed' = {[id |-> events[1].id, value |-> events[1].value]}
  PROVE  RefreshIsComing' \/ IsRight'
<1>1. CASE RefreshIsComing
  <2>1. \A type \in {"up", "ready"} : Said(type) => Said(type)'
    BY DEF Said, Shifted
  <2>2. RefreshAsked => RefreshAsked'
    BY DEF RefreshAsked, Refresh, Grew
  <2> QED
    BY <1>1, <2>1, <2>2 DEF RefreshIsComing
<1>2. CASE IsRight
  <2>1. \A value \in revealed' :
          \/ value \in revealed
          \/ /\ events[1].type = "revealed"
             /\ value = [id |-> events[1].id, value |-> events[1].value]
    OBVIOUS
  <2>2. /\ EndsWith(events', query, rows, Answer(query))
        /\ IsTruthful(events', query, history, revealed')
    BY <1>2, <2>1, OtherIsHeard DEF IsRight
  <2> QED
    BY <2>2, AnswerSame DEF IsRight
<1> QED
  BY <1>1, <1>2

LEMMA EntriesKeepShown ==
  ASSUME TypedInv, OnEntries, RefreshIsComing \/ IsRight, UNCHANGED history
  PROVE  RefreshIsComing' \/ IsRight'
<1> DEFINE R == Known
           answer == Head(events)
           kept   == Prune(answer.rows)
<1>0. Queues(R) /\ R \in SUBSET Row /\ asked \in SUBSET Pictures(R)
  BY KnownAreRows DEF TypedInv, ModelIn
<1> HIDE DEF R
<1>1. /\ Shifted(events, events') /\ answer = events[1]
      /\ answer \in Event(R) /\ answer.type = "entries"
  BY <1>0, HeardIsShifted DEF OnEntries
<1>2. answer.rows \in Seq(R)
  BY <1>1, EventFacts
<1> HIDE DEF answer
<1>3. CASE ~Accepts(answer.query)
  <2>1. UNCHANGED <<rows, revealed, query, requests>>
    BY <1>3 DEF OnEntries, modelVars, answer
  <2>2. ~Relevant(events[1], query) /\ events[1].type \notin {"up", "ready"}
    BY <1>1, <1>3 DEF Relevant, Accepts
  <2> QED
    BY <1>1, <2>1, <2>2, SameIsGrown, ShownWhenHeard
<1>4. CASE Accepts(answer.query)
  <2>1. /\ rows' = answer.rows /\ revealed' = {} /\ query' = query
        /\ FetchThumbnails(answer.rows, kept.asked)
    BY <1>4 DEF OnEntries, SetEntries, answer
  <2>2. kept.asked \in SUBSET Pictures(R)
    BY <1>0, PruneDrops
  <2> HIDE DEF kept
  <2>3. Grew(requests, requests')
    BY <1>0, <1>2, <2>1, <2>2, FetchGrows
  <2>4. Relevant(events[1], query)
    BY <1>1, <1>4 DEF Relevant, Accepts
  <2>5. CASE RefreshIsComing
    <3>1. \A type \in {"up", "ready"} : Said(type) => Said(type)'
      BY <1>1, <2>4 DEF Said, Shifted, Relevant
    <3>2. RefreshAsked => RefreshAsked'
      BY <2>1, <2>3 DEF RefreshAsked, Refresh, Grew
    <3> QED
      BY <2>5, <3>1, <3>2 DEF RefreshIsComing
  <2>6. CASE IsRight
    <3>1. /\ EndsWith(events', query, events[1].rows, Answer(query))
          /\ IsTruthful(events', query, history, {})
      BY <1>1, <2>4, <2>6, ListIsHeard DEF IsRight
    <3> QED
      BY <1>1, <2>1, <3>1, AnswerSame DEF IsRight
  <2> QED
    BY <2>5, <2>6
<1> QED
  BY <1>3, <1>4

(* Behind a drop comes what makes the UI ask again.                        *)
LEMMA UpIsStillSaid ==
  ASSUME Serving, UpFollows, Shifted(events, events'), IsDrop(events[1])
  PROVE  Said("up")'
<1>1. 1 \in DOMAIN events /\ DOMAIN events \subseteq Nat \ {0}
  BY DEF Shifted
<1>2. PICK j \in DOMAIN events : j > 1 /\ events[j].type = "up"
  BY <1>1 DEF UpFollows
<1>3. j # 1
  BY <1>1, <1>2
<1>4. j - 1 \in DOMAIN events' /\ events'[j - 1] = events[j]
  BY <1>3 DEF Shifted
<1> QED
  BY <1>2, <1>4 DEF Said

LEMMA ShownOnBus ==
  ASSUME TypedInv, Begun, UpFollows, ShownInv, Serving, OnBus, Others, Watched'
  PROVE  RefreshIsComing' \/ IsRight'
<1> DEFINE R == Known
<1>0. Queues(R) /\ query \in Queries
  BY DEF TypedInv, ModelIn
<1> HIDE DEF R
<1>1. UNCHANGED <<history, changed>> /\ open' /\ ~missed' /\ ~changed
  BY DEF Others, daemonVars, signalVars, Watched
<1> USE DEF modelVars, thumbVars, queueVars
<1>2. CASE OnReady
  <2>1. open /\ inbox
    BY <1>1, <1>2 DEF OnReady, Begun, Serving
  <2>2. requests' = <<Refresh(query)>> /\ query' = query
    BY <1>2, <2>1 DEF OnReady
  <2>3. 1 \in DOMAIN requests' /\ requests'[1] = Refresh(query)
    BY <2>2
  <2>4. RefreshAsked'
    BY <2>2, <2>3 DEF RefreshAsked, Refresh
  <2> QED
    BY <2>4 DEF RefreshIsComing
<1>3. CASE OnDaemonUp
  <2>1. open /\ query' = query
    BY <1>1, <1>3 DEF OnDaemonUp, SetStatus
  <2>2. Ask(Refresh(query)) /\ Refresh(query) \in Request(R) /\ Refresh(query).type = "refresh"
    BY <1>0, <1>3, <2>1, RequestsAre DEF OnDaemonUp, RefreshIfVisible
  <2>3. \E i \in DOMAIN requests' : requests'[i] = Refresh(query)
    BY <1>0, <1>1, <2>2, AskGrows
  <2>4. RefreshAsked'
    BY <2>1, <2>3 DEF RefreshAsked, Refresh
  <2> QED
    BY <2>4 DEF RefreshIsComing
<1>4. CASE OnDaemonGone
  <2>1. PICK type \in {"down", "untrusted"} : Hear(type)
    BY <1>4 DEF OnDaemonGone
  <2>2. Shifted(events, events') /\ IsDrop(events[1])
    BY <1>0, <2>1, HeardIsShifted DEF IsDrop
  <2> QED
    BY <2>2, UpIsStillSaid DEF RefreshIsComing
<1>5. ASSUME open, missed' = missed PROVE RefreshIsComing \/ IsRight
  BY <1>1, <1>5 DEF ShownInv, Watched
<1>6. CASE OnEntries
  <2>1. open /\ missed' = missed
    BY <1>1, <1>6 DEF OnEntries
  <2> QED
    BY <1>1, <1>5, <1>6, <2>1, EntriesKeepShown
<1>7. ASSUME NEW type \in {"revealed", "thumbnail", "toggle", "failed"}, Hear(type),
             open, missed' = missed, UNCHANGED <<query, rows>>, Grew(requests, requests'),
             \/ revealed' \in {revealed, {}}
             \/ type = "revealed" /\ revealed' = {[id |-> Head(events).id, value |-> Head(events).value]}
      PROVE  RefreshIsComing' \/ IsRight'
  <2>1. Shifted(events, events') /\ Head(events) = events[1] /\ events[1].type = type
    BY <1>0, <1>7, HeardIsShifted
  <2>2. ~Relevant(events[1], query) /\ events[1].type \notin {"up", "ready"}
    BY <2>1 DEF Relevant
  <2>3. RefreshIsComing \/ IsRight
    BY <1>5, <1>7
  <2> QED
    BY <1>1, <1>7, <2>1, <2>2, <2>3, ShownWhenHeard
<1>8. CASE OnRevealed
  <2>1. /\ Hear("revealed") /\ open /\ missed' = missed /\ UNCHANGED <<query, rows>>
        /\ requests' = requests
        /\ revealed' = {[id |-> Head(events).id, value |-> Head(events).value]}
    BY <1>1, <1>8 DEF OnRevealed
  <2> QED
    BY <1>7, <2>1, SameIsGrown
<1>9. CASE OnThumbnail
  <2>1. /\ Hear("thumbnail") /\ open /\ missed' = missed /\ UNCHANGED <<query, rows, revealed>>
        /\ FetchThumbnails(rows, asked)
    BY <1>1, <1>9 DEF OnThumbnail
  <2>2. rows \in Seq(R) /\ R \in SUBSET Row /\ asked \in SUBSET Pictures(R)
    BY KnownAreRows DEF TypedInv, ModelIn, R
  <2>3. Grew(requests, requests')
    BY <1>0, <2>1, <2>2, FetchGrows
  <2> QED
    BY <1>7, <2>1, <2>3
<1>10. CASE OnToggle
  <2>1. Hear("toggle") /\ Asking
    BY <1>0, <1>10, ToggleAsks DEF OnToggle
  <2>2. CASE RefreshAsked'
    BY <2>2 DEF RefreshIsComing
  <2>3. CASE open /\ UNCHANGED <<query, missed>>
    BY <1>7, <2>1, <2>3 DEF Asking
  <2> QED
    BY <1>1, <2>1, <2>2, <2>3 DEF Asking
<1>11. CASE OnFailed
  <2>1. /\ Hear("failed") /\ open /\ missed' = missed /\ UNCHANGED <<query, rows, revealed>>
        /\ requests' = requests
    BY <1>1, <1>11 DEF OnFailed
  <2> QED
    BY <1>7, <2>1, SameIsGrown
<1> QED
  BY <1>2, <1>3, <1>4, <1>6, <1>8, <1>9, <1>10, <1>11 DEF OnBus

LEMMA ServeKeepsShown ==
  ASSUME TypedInv, NewsIsInOrder, ShownInv, Serving, Serve, Watched'
  PROVE  RefreshIsComing' \/ IsRight'
<1>1. /\ requests # << >> /\ Shifted(requests, requests')
      /\ UNCHANGED <<rows, revealed, query, open, missed>>
      /\ UNCHANGED <<history, changed>> \/ changed'
      /\ \E e \in Event(Known) : \E n :
           Extended(events, events', e, n) /\ ~IsDrop(e) /\ Reply(requests[1], e)
  BY ServedBy
<1>2. UNCHANGED <<history, changed>> /\ Watched
  BY <1>1 DEF Watched
<1>3. PICK e \in Event(Known) : \E n :
        Extended(events, events', e, n) /\ ~IsDrop(e) /\ Reply(requests[1], e)
  BY <1>1
<1>4. PICK n : Extended(events, events', e, n)
  BY <1>3
<1>5. IsClippod(owner) /\ Reply(requests[1], e) /\ ~IsDrop(e)
  BY <1>3 DEF Serving
<1>6. CASE Relevant(e, query)
  <2>1. requests[1].type = "refresh" /\ e.type = "entries" /\ e.query = query
    BY <1>5, <1>6 DEF Reply, Relevant
  <2>2. e.rows = Answer(query)
    BY <1>5, <2>1 DEF Reply
  <2>3. /\ EndsWith(events', query, rows, Answer(query))
        /\ IsTruthful(events', query, history, revealed)
    BY <1>4, <1>6, <2>2, ListIsSaid
  <2>4. IsRight'
    BY <1>1, <1>2, <2>3, AnswerSame DEF IsRight
  <2> QED
    BY <2>4
<1>7. CASE ~Relevant(e, query)
  <2>1. requests[1] # Refresh(query)
    <3>1. SUFFICES ASSUME requests[1] = Refresh(query) PROVE FALSE
      OBVIOUS
    <3>2. requests[1].type = "refresh" /\ requests[1].query = query
      BY <3>1 DEF Refresh
    <3>3. e.type # "down"
      BY <1>5 DEF IsDrop
    <3> QED
      BY <1>5, <1>7, <3>2, <3>3 DEF Reply, Relevant
  <2>2. RefreshAsked => RefreshAsked'
    <3>1. SUFFICES ASSUME NEW i \in DOMAIN requests, requests[i] = Refresh(query) PROVE RefreshAsked'
      BY DEF RefreshAsked
    <3>2. i # 1
      BY <2>1, <3>1
    <3>3. i - 1 \in DOMAIN requests' /\ requests'[i - 1] = Refresh(query)
      BY <1>1, <3>1, <3>2 DEF Shifted
    <3> QED
      BY <1>1, <3>3 DEF RefreshAsked, Refresh
  <2>3. e.type = "revealed" => IsTheEntrys(history, e.id, e.value)
    <3>1. SUFFICES ASSUME e.type = "revealed" PROVE IsTheEntrys(history, e.id, e.value)
      OBVIOUS
    <3>2. PICK i \in DOMAIN history : history[i].id = e.id /\ history[i].at = e.value
      BY <1>5, <3>1 DEF Reply
    <3> QED
      BY <3>2 DEF IsTheEntrys, TypedInv, HistoryTyped
  <2>4. RefreshIsComing \/ IsRight
    BY <1>2 DEF ShownInv
  <2> QED
    BY <1>1, <1>2, <1>4, <1>7, <2>2, <2>3, <2>4, ShownWhenSaid
<1> QED
  BY <1>6, <1>7

LEMMA ShownKept ==
  ASSUME TypedInv, Begun, NewsIsInOrder, UpFollows, ShownInv, [Next]_vars
  PROVE  ShownInv'
<1>0. Queues(Known)
  BY DEF TypedInv
<1>1. SUFFICES ASSUME Watched' PROVE RefreshIsComing' \/ IsRight'
  BY DEF ShownInv
<1>2. Serving' /\ open' /\ ~missed' /\ ~changed'
  BY <1>1 DEF Watched
<1>3. ASSUME NEW n, Extended(events, events', [type |-> "up"], n) PROVE RefreshIsComing'
  BY <1>3 DEF RefreshIsComing, Said, Extended
<1>4. CASE AskOwner \/ HearOwner
  BY <1>2, <1>3, <1>4, UpIsSaid
<1>5. CASE Serving /\ Keys /\ Others
  <2>1. Asking /\ events' = events /\ UNCHANGED <<history, changed>>
    BY <1>5, KeysAsk DEF Others, signalVars, daemonVars
  <2>2. CASE RefreshAsked'
    BY <2>2 DEF RefreshIsComing
  <2>3. CASE open /\ UNCHANGED <<query, missed>>
    <3>1. Watched
      BY <1>2, <1>5, <2>1, <2>3 DEF Watched
    <3> QED
      BY <2>1, <2>3, <3>1, ShownSame DEF Asking, ShownInv
  <2> QED
    BY <1>2, <2>1, <2>2, <2>3 DEF Asking
<1>6. CASE Serving /\ Hears
  BY <1>1, <1>6, ShownOnBus DEF Hears
<1>7. CASE Serving /\ Serve
  BY <1>1, <1>7, ServeKeepsShown
<1>8. CASE Serving /\ HearHistoryChanged
  <2>1. trusted
    BY <1>8 DEF Serving, NewsIsInOrder
  <2>2. Emit(Says("up")) /\ "up" \in Saying
    BY <1>8, <2>1 DEF HearHistoryChanged, Saying
  <2> QED
    BY <1>0, <1>3, <2>2, SayingIsExtended
<1>9. CASE Serving /\ HearToggle
  <2>1. /\ UNCHANGED <<history, query, rows, revealed, requests, open, missed, changed>>
        /\ Emit(Says("toggle")) /\ "toggle" \in Saying
    BY <1>9 DEF HearToggle, modelVars, queueVars, signalVars, daemonVars, Saying
  <2>2. PICK n : Extended(events, events', [type |-> "toggle"], n)
    BY <1>0, <2>1, SayingIsExtended
  <2>3. /\ ~Relevant([type |-> "toggle"], query)
        /\ [type |-> "toggle"].type # "revealed"
    BY DEF Relevant
  <2>4. RefreshAsked => RefreshAsked'
    BY <2>1 DEF RefreshAsked, Refresh
  <2>5. RefreshIsComing \/ IsRight
    BY <1>2, <1>9, <2>1 DEF ShownInv, Watched
  <2> QED
    BY <2>1, <2>2, <2>3, <2>4, <2>5, ShownWhenSaid
<1>10. CASE Serving /\ (Copied \/ Removed)
  <2>1. changed' = Heard
    BY <1>10 DEF Copied, Removed
  <2>2. Heard
    BY <1>10 DEF Heard, Serving
  <2> QED
    BY <1>2, <2>1, <2>2
<1>11. CASE Serving /\ UNCHANGED vars
  <2>1. UNCHANGED <<events, history, query, rows, revealed, requests, open, missed, changed>>
    BY <1>11 DEF vars, system, pickerVars, modelVars, queueVars, signalVars, daemonVars
  <2>2. RefreshIsComing \/ IsRight
    BY <1>2, <1>11, <2>1 DEF ShownInv, Watched
  <2> QED
    BY <2>1, <2>2, ShownSame, SameIsGrown
<1> QED
  BY <1>2, <1>4, <1>5, <1>6, <1>7, <1>8, <1>9, <1>10, <1>11, ServingBefore

(* What holds of the list as well, and is kept by every step.              *)
ListsHold == PicturesHold /\ UpFollows /\ ShownInv

LEMMA ListsHoldAtFirst == Init => ListsHold
BY PicturesHoldAtFirst DEF ListsHold, Init, UpFollows, ShownInv, Watched, Serving

LEMMA ListsHoldAfter == ListsHold /\ [Next]_vars => ListsHold'
BY PicturesHoldAfter, UpKept, ShownKept DEF ListsHold, PicturesHold

(* With nothing on its way the picker shows the answer to what is typed,   *)
(* and what it has revealed is of the entries it shows.                    *)
LEMMA NothingIsComing ==
  ASSUME ListsHold, ~ListIsComing, open, worker = "running", watching, IsClippod(owner), ~missed
  PROVE  /\ rows = Answer(query)
         /\ \A value \in revealed : IsTheEntrys(history, value.id, value.value)
<1>1. Watched
  BY DEF Watched, Serving, ListIsComing
<1>2. ~RefreshIsComing
  BY DEF RefreshIsComing, RefreshAsked, Refresh, ListIsComing, Asked
<1>3. IsRight
  BY <1>1, <1>2 DEF ListsHold, ShownInv
<1>4. \A k \in DOMAIN events : events[k].type = "entries" =>
        events[k] = [type |-> "entries", query |-> events[k].query, rows |-> events[k].rows]
  <2>1. events \in Seq(Event(Known))
    BY DEF ListsHold, PicturesHold, TypedInv, Queues
  <2>2. \A k \in DOMAIN events : events[k] \in Event(Known)
    BY <2>1
  <2> QED
    BY <2>2, EventFacts
<1>5. Entries(query, Answer(query))[1] = [type |-> "entries", query |-> query, rows |-> Answer(query)]
  BY DEF Entries
<1>6. \A k \in DOMAIN events : ~(Relevant(events[k], query) /\ events[k].rows = Answer(query))
  BY <1>4, <1>5 DEF Relevant, ListIsComing
<1>7. rows = Answer(query) /\ \A k \in DOMAIN events : ~Relevant(events[k], query)
  BY <1>3, <1>6 DEF IsRight, EndsWith
<1>8. ~ListBehind(events, query, 0)
  BY <1>7 DEF ListBehind
<1> QED
  BY <1>3, <1>7, <1>8 DEF IsRight, IsTruthful

(* The list on screen is clippod's answer to what is typed, or what will   *)
(* make it so is on its way, however the worker's answers and the user's   *)
(* keys, copies made elsewhere and restarts of clippod fall (app.rs        *)
(* refresh_if_visible, model.rs accepts).                                  *)
THEOREM ListIsAlwaysCurrent == Spec => []ListIsCurrent
<1>1. ListsHold => ListIsCurrent
  BY NothingIsComing DEF ListIsCurrent
<1> QED
  BY <1>1, ListsHoldAtFirst, ListsHoldAfter, PTL DEF Spec

(* A revealed value is drawn in the row of the entry it belongs to, or the *)
(* list that says whose its id is now is on its way (model.rs set_entries, *)
(* set_revealed).                                                          *)
THEOREM DrawnIsAlwaysTheRows == Spec => []DrawnIsTheRows
<1>1. ListsHold => DrawnIsTheRows
  <2> SUFFICES ASSUME ListsHold, worker = "running", watching, IsClippod(owner), ~missed,
                      ~ListIsComing, Body = "list", NEW i \in DOMAIN rows
               PROVE  DrawnRow(rows[i]).value \subseteq {rows[i].at}
    BY DEF DrawnIsTheRows, OnScreen, DrawnRow
  <2>1. open
    <3>1. status \in Statuses
      BY DEF ListsHold, PicturesHold, TypedInv, ModelIn
    <3> QED
      BY <3>1 DEF Body, Statuses
  <2>2. /\ rows = Answer(query)
        /\ \A value \in revealed : IsTheEntrys(history, value.id, value.value)
    BY <2>1, NothingIsComing
  <2>3. captures \in Nat /\ HistoryTyped
    BY DEF ListsHold, PicturesHold, TypedInv, WorkerTyped
  <2>4. PICK j \in DOMAIN history : rows[i] = history[j]
    BY <2>2, <2>3, AnswerIs
  <2>5. SUFFICES ASSUME rows[i].id = selected, NEW value \in revealed, value.id = selected
                 PROVE  value.value = rows[i].at
    BY DEF DrawnRow, DrawnValue
  <2> QED
    BY <2>2, <2>4, <2>5 DEF IsTheEntrys
<1> QED
  BY <1>1, ListsHoldAtFirst, ListsHoldAfter, PTL DEF Spec

(* The rows of a list have heights.                                        *)
LEMMA RowsHaveHeights ==
  ASSUME rows \in Seq(Row)
  PROVE  RowHeights \in Seq(Nat) /\ DOMAIN RowHeights = DOMAIN rows
<1>1. \A i \in DOMAIN rows : RowHeight(IsImage(rows[i]), DrawnRow(rows[i]).picture # {}) \in Nat
  BY DEF RowHeight, Taller, RowPadding, Thumb, Icon, TextLine
<1>2. DOMAIN rows = 1..Len(rows) /\ Len(rows) \in Nat
  OBVIOUS
<1> QED
  BY <1>1, <1>2, IsASeq DEF RowHeights

(* Wherever the list was left, the row that is highlighted can be brought  *)
(* on screen by scroll_offset.                                             *)
LEMMA TypedRowsAreShown ==
  ASSUME rows \in Seq(Row)
  PROVE  RowIsShown
<1> DEFINE heights == RowHeights
<1>1. heights \in Seq(Nat) /\ DOMAIN heights = DOMAIN rows
  BY RowsHaveHeights
<1> HIDE DEF heights
<1>2. ASSUME NEW i \in RowOf(selected), NEW viewport \in Viewports,
             NEW offset \in 0..(ContentHeight(heights) - viewport),
             NEW list, list = [viewport |-> viewport, offset |-> offset, scale |-> 1]
      PROVE  LET to == ScrolledTo(heights, i, list)
             IN  /\ IF heights[i] > viewport THEN to = RowTop(heights, i) ELSE Shows(heights, i, list, to)
                 /\ Shows(heights, i, list, offset) => to = offset
  <2>1. i \in DOMAIN heights
    BY <1>1 DEF RowOf
  <2>2. RowTop(heights, i) \in Nat /\ heights[i] \in Nat /\ ContentHeight(heights) \in Nat
    BY <1>1, <2>1, RowsFit
  <2>3. /\ viewport \in Nat /\ offset \in Nat /\ offset + viewport <= ContentHeight(heights)
    BY <2>2, AppletAssumption
  <2>4. /\ list \in [viewport : Nat, offset : Nat, scale : Nat \ {0}]
        /\ list.viewport = viewport /\ list.offset = offset /\ list.scale = 1
    BY <1>2, <2>3
  <2>5. /\ ContentHeight(heights) * list.scale = ContentHeight(heights)
        /\ heights[i] * list.scale = heights[i]
        /\ RowTop(heights, i) * list.scale = RowTop(heights, i)
    BY <2>2, <2>4
  <2>6. list.offset + list.viewport <= ContentHeight(heights) * list.scale
    BY <2>3, <2>4, <2>5
  <2> QED
    BY <1>1, <2>1, <2>4, <2>5, <2>6, ScrollShowsTheRow
<1>3. RowIsShown <=>
        \A i \in RowOf(selected), viewport \in Viewports :
          \A offset \in {n \in 0..(ContentHeight(heights) - viewport) : n % 10 = 0} :
            LET list == [viewport |-> viewport, offset |-> offset, scale |-> 1]
                to   == ScrolledTo(heights, i, list)
            IN  /\ IF heights[i] > viewport THEN to = RowTop(heights, i)
                                            ELSE Shows(heights, i, list, to)
                /\ Shows(heights, i, list, offset) => to = offset
  BY DEF RowIsShown, heights
<1> QED
  BY <1>2, <1>3

(* When the highlight has moved its row is on screen, or its top if it is  *)
(* taller than the list, wherever the list was left; and a list that shows *)
(* the row has not moved (app.rs scroll_to_selection).                     *)
THEOREM ScrollAlwaysShowsTheRow == Spec => ScrollShowsRow
<1>1. AppletTypeOK => RowIsShown
  BY TypedRowsAreShown DEF AppletTypeOK, PickerTypeOK
<1> QED
  BY <1>1, AppletIsTyped, PTL DEF ScrollShowsRow
=============================================================================
