---------------------------- MODULE DaemonProofs ----------------------------
(***************************************************************************)
(* What holds of clippod, with its watcher, the compositor and the other   *)
(* applications around it, for every set of contents and of calls, every   *)
(* limit and every capacity, through crashes and restarts: that the cache  *)
(* is the history, that no change goes unannounced, that what the store    *)
(* keeps sound stays sound under everything the clipboard can hand it, and *)
(* that the guard is never armed for nothing.                              *)
(***************************************************************************)
EXTENDS Daemon, HistoryProofs, FiniteSetTheorems, WellFoundedInduction

(* A set of places has a first one.                                        *)
LEMMA FirstExists ==
  ASSUME NEW S, S \subseteq Nat, S # {}
  PROVE  \E p \in S : \A i \in S : p <= i
<1>1. PICK p \in S : \A i \in S : ~(<<i, p>> \in OpToRel(<, Nat))
  BY NatLessThanWellFounded, WFMin
<1>2. \A i \in S : ~(i < p) /\ i \in Nat /\ p \in Nat
  BY <1>1 DEF OpToRel
<1>3. \A i \in S : p <= i
  BY <1>2
<1> QED
  BY <1>3

(* A set in which all are the same has one member at most.                 *)
IsLone(S) == \A x, y \in S : x = y

LEMMA LoneCardinality ==
  ASSUME NEW S, IsLone(S)
  PROVE  Cardinality(S) <= 1
<1>1. CASE S = {}
  BY <1>1, FS_EmptySet
<1>2. CASE S # {}
  <2>1. PICK x \in S : S = {x}
    BY <1>2 DEF IsLone
  <2> QED
    BY <2>1, FS_Singleton
<1> QED
  BY <1>1, <1>2

-----------------------------------------------------------------------------
(* What a selection is described as (preview.rs new_entry): by one entry   *)
(* at most, since kind, canonical flavor and preview source are each one.  *)

LEMMA DescribedAs ==
  ASSUME NEW sel, NEW at, NEW new
  PROVE  new \in NewEntries(sel, at) <=>
           \E k \in Kinds, c \in DOMAIN sel.flavors, p \in DOMAIN sel.flavors :
             /\ IsKindOf(k, sel.flavors)
             /\ IsCanonical(k, sel.flavors, c)
             /\ IsPreviewSource(k, sel.flavors, p)
             /\ new = [created_at |-> at, kind |-> k, hash |-> Identity(sel.flavors[c]),
                       sensitive |-> IsSensitive(sel),
                       preview |-> [of |-> sel.flavors[p].data,
                                    masked |-> IsSensitive(sel) /\ k # "image"],
                       flavors |-> sel.flavors]
<1> DEFINE Fits(k, c, p) == /\ IsKindOf(k, sel.flavors)
                            /\ IsCanonical(k, sel.flavors, c)
                            /\ IsPreviewSource(k, sel.flavors, p)
           Entry(k, c, p) == [created_at |-> at, kind |-> k, hash |-> Identity(sel.flavors[c]),
                              sensitive |-> IsSensitive(sel),
                              preview |-> [of |-> sel.flavors[p].data,
                                           masked |-> IsSensitive(sel) /\ k # "image"],
                              flavors |-> sel.flavors]
           places == Kinds \X (DOMAIN sel.flavors) \X (DOMAIN sel.flavors)
<1>1. NewEntries(sel, at) = {Entry(t[1], t[2], t[3]) : t \in {u \in places : Fits(u[1], u[2], u[3])}}
  BY DEF NewEntries
<1> HIDE DEF Fits, Entry
<1>2. new \in NewEntries(sel, at) <=>
        \E u \in places : Fits(u[1], u[2], u[3]) /\ new = Entry(u[1], u[2], u[3])
  BY <1>1
<1>3. new \in NewEntries(sel, at) <=>
        \E k \in Kinds, c \in DOMAIN sel.flavors, p \in DOMAIN sel.flavors :
          Fits(k, c, p) /\ new = Entry(k, c, p)
  <2>1. ASSUME NEW k \in Kinds, NEW c \in DOMAIN sel.flavors, NEW p \in DOMAIN sel.flavors,
               Fits(k, c, p), new = Entry(k, c, p)
        PROVE  \E u \in places : Fits(u[1], u[2], u[3]) /\ new = Entry(u[1], u[2], u[3])
    <3> WITNESS <<k, c, p>> \in places
    <3> QED
      BY <2>1
  <2> QED
    BY <1>2, <2>1
<1> QED
  BY <1>3 DEF Fits, Entry

LEMMA KindIsOne ==
  ASSUME NEW fs, NEW k, NEW l, IsKindOf(k, fs), IsKindOf(l, fs)
  PROVE  k = l
<1>1. Level["text"] = 1 /\ Level["html"] = 2 /\ Level["uris"] = 3 /\ Level["image"] = 4
  BY DEF Level, Kinds, NoKind
<1>2. k \in Kinds /\ l \in Kinds /\ Level[k] <= Level[l] /\ Level[l] <= Level[k]
  BY DEF IsKindOf
<1> QED
  BY <1>1, <1>2 DEF Kinds

LEMMA CanonicalIsOne ==
  ASSUME NEW fs, IsPartial(fs, Slots, Flavor), NEW k,
         NEW c, NEW d, IsCanonical(k, fs, c), IsCanonical(k, fs, d)
  PROVE  c = d
<1>1. c \in Int /\ d \in Int
  BY DEF IsCanonical, IsPartial, Slots
<1>2. \A i \in DOMAIN fs : Rank(k, fs[i].mime) \in Int
  BY DEF Rank
<1> QED
  BY <1>1, <1>2 DEF IsCanonical

LEMMA PreviewSourceIsOne ==
  ASSUME NEW fs, IsPartial(fs, Slots, Flavor), NEW k,
         NEW p, NEW q, IsPreviewSource(k, fs, p), IsPreviewSource(k, fs, q)
  PROVE  p = q
<1> DEFINE plain == {i \in DOMAIN fs : fs[i].mime \in PlainMimes}
<1>1. CASE k # "image" /\ plain # {}
  <2>1. p \in plain /\ q \in plain /\ p <= q /\ q <= p
    BY <1>1 DEF IsPreviewSource
  <2>2. plain \subseteq Int
    BY DEF IsPartial, Slots
  <2> QED
    BY <2>1, <2>2
<1>2. CASE ~(k # "image" /\ plain # {})
  <2>1. IsCanonical(k, fs, p) /\ IsCanonical(k, fs, q)
    BY <1>2 DEF IsPreviewSource
  <2> QED
    BY <2>1, CanonicalIsOne
<1> QED
  BY <1>1, <1>2

LEMMA NewEntriesAreOne ==
  ASSUME NEW sel, IsSelection(sel), NEW at
  PROVE  IsLone(NewEntries(sel, at))
<1> SUFFICES ASSUME NEW a \in NewEntries(sel, at), NEW b \in NewEntries(sel, at)
             PROVE  a = b
  BY DEF IsLone
<1> QED
  BY DescribedAs, KindIsOne, CanonicalIsOne, PreviewSourceIsOne DEF IsSelection

LEMMA NewHashesAreHashes ==
  ASSUME NEW sel, IsSelection(sel), NEW at, NEW new \in NewEntries(sel, at)
  PROVE  new.hash \in Hashes
<1>1. PICK c \in DOMAIN sel.flavors : new.hash = Identity(sel.flavors[c])
  BY DescribedAs
<1> QED
  BY <1>1 DEF IsSelection, IsPartial, Hashes

LEMMA PreviewSourceExists ==
  ASSUME NEW fs, IsPartial(fs, Slots, Flavor), NEW k, NEW c, IsCanonical(k, fs, c)
  PROVE  \E p \in DOMAIN fs : IsPreviewSource(k, fs, p)
<1> DEFINE plain == {i \in DOMAIN fs : fs[i].mime \in PlainMimes}
<1>1. CASE k # "image" /\ plain # {}
  <2>1. plain \subseteq Nat
    BY FlavorsAssumption DEF IsPartial, Slots
  <2>2. PICK p \in plain : \A i \in plain : p <= i
    BY <1>1, <2>1, FirstExists
  <2> QED
    BY <1>1, <2>2 DEF IsPreviewSource
<1>2. CASE ~(k # "image" /\ plain # {})
  BY <1>2 DEF IsPreviewSource, IsCanonical
<1> QED
  BY <1>1, <1>2

(* A selection is captured when its flavors have a kind and a canonical    *)
(* flavor, and under the identity of that.                                 *)
IsDescribable(fs) == \E k \in Kinds : IsKindOf(k, fs) /\ \E c : IsCanonical(k, fs, c)

LEMMA CapturedAs ==
  ASSUME NEW sel, IsSelection(sel), NEW at, NEW k \in Kinds, NEW c,
         IsKindOf(k, sel.flavors), IsCanonical(k, sel.flavors, c)
  PROVE  \E new \in NewEntries(sel, at) : new.hash = Identity(sel.flavors[c])
<1>1. PICK p \in DOMAIN sel.flavors : IsPreviewSource(k, sel.flavors, p)
  BY PreviewSourceExists DEF IsSelection
<1>2. c \in DOMAIN sel.flavors
  BY DEF IsCanonical
<1> DEFINE new == [created_at |-> at, kind |-> k, hash |-> Identity(sel.flavors[c]),
                   sensitive |-> IsSensitive(sel),
                   preview |-> [of |-> sel.flavors[p].data,
                                masked |-> IsSensitive(sel) /\ k # "image"],
                   flavors |-> sel.flavors]
<1>3. new \in NewEntries(sel, at)
  BY <1>1, <1>2, DescribedAs
<1> QED
  BY <1>3

LEMMA DescribableIsCaptured ==
  ASSUME NEW sel, IsSelection(sel), NEW at
  PROVE  NewEntries(sel, at) # {} <=> IsDescribable(sel.flavors)
BY DescribedAs, CapturedAs DEF IsDescribable

(* A flavor that is cut short is still a flavor of its type, so that what  *)
(* could be described still can be.                                        *)
LEMMA SameTypesAreDescribable ==
  ASSUME NEW fs, NEW gs, DOMAIN gs = DOMAIN fs,
         \A i \in DOMAIN fs : gs[i].mime = fs[i].mime, IsDescribable(fs)
  PROVE  IsDescribable(gs)
BY DEF IsDescribable, IsKindOf, IsCanonical

LEMMA CutIsSelection ==
  ASSUME NEW sel, IsSelection(sel), NEW got \in CutShort(sel)
  PROVE  /\ IsSelection(got)
         /\ IsDescribable(sel.flavors) => IsDescribable(got.flavors)
<1>1. PICK d \in Cut :
        got = [sel EXCEPT !.flavors = [i \in DOMAIN sel.flavors |-> [sel.flavors[i] EXCEPT !.data = d]]]
  BY DEF CutShort
<1> DEFINE gs == [i \in DOMAIN sel.flavors |-> [sel.flavors[i] EXCEPT !.data = d]]
<1>2. d \in Data
  BY ClipboardAssumption
<1>3. got = [flavors |-> gs, hinted |-> sel.hinted] /\ sel.hinted \in BOOLEAN
  BY <1>1 DEF IsSelection
<1>4. \A i \in DOMAIN sel.flavors : sel.flavors[i] \in Flavor
  BY DEF IsSelection, IsPartial
<1>5. \A i \in DOMAIN sel.flavors : gs[i] \in Flavor /\ gs[i].mime = sel.flavors[i].mime
  BY <1>2, <1>4 DEF Flavor
<1>6. IsPartial(gs, Slots, Flavor)
  BY <1>5 DEF IsSelection, IsPartial
<1>7. DOMAIN gs = DOMAIN sel.flavors
  OBVIOUS
<1>8. got.flavors = gs
  BY <1>3
<1> HIDE DEF gs
<1>9. IsSelection(got)
  BY <1>3, <1>6, <1>8 DEF IsSelection
<1> QED
  BY <1>5, <1>7, <1>8, <1>9, SameTypesAreDescribable

(* A read yields a selection, and when no flavor of it can be lost, one    *)
(* that can be described if the clip could be.                             *)
LEMMA ReadIsSelection ==
  ASSUME NEW clip, IsSelection(clip.sel), NEW got \in Reads(clip)
  PROVE  /\ IsSelection(got)
         /\ Droppable = {} /\ IsDescribable(clip.sel.flavors) => IsDescribable(got.flavors)
<1> DEFINE lossy == {i \in DOMAIN clip.sel.flavors : clip.sel.flavors[i].data \in Droppable}
<1>1. CASE got \in CutShort(clip.sel)
  BY <1>1, CutIsSelection
<1>2. ASSUME NEW lost \in SUBSET lossy,
             got = [clip.sel EXCEPT !.flavors = Restrict(@, DOMAIN @ \ lost)]
      PROVE  /\ IsSelection(got)
             /\ Droppable = {} /\ IsDescribable(clip.sel.flavors) => IsDescribable(got.flavors)
  <2> DEFINE gs == Restrict(clip.sel.flavors, DOMAIN clip.sel.flavors \ lost)
  <2>1. got = [flavors |-> gs, hinted |-> clip.sel.hinted] /\ clip.sel.hinted \in BOOLEAN
    BY <1>2 DEF IsSelection
  <2>2. IsPartial(gs, Slots, Flavor)
    BY DEF Restrict, IsSelection, IsPartial
  <2>3. got.flavors = gs
    BY <2>1
  <2>4. IsSelection(got)
    BY <2>1, <2>2, <2>3 DEF IsSelection
  <2>5. ASSUME Droppable = {} PROVE gs = clip.sel.flavors
    <3>1. lost = {}
      BY <2>5
    <3> QED
      BY <3>1 DEF Restrict, IsSelection, IsPartial
  <2> QED
    BY <2>3, <2>4, <2>5
<1> QED
  BY <1>1, <1>2 DEF Reads

-----------------------------------------------------------------------------
(* What a row's flavors tell of it: that its kind is the richest of them,  *)
(* and that nothing but the derived thumbnail is where that is written.    *)

IsOfItsFlavors(kind, fs) ==
  /\ IsKindOf(kind, fs)
  /\ \A p \in DOMAIN fs : p = ThumbSlot => fs[p].mime = ThumbMime

RowsAreOfTheirFlavors == \A i \in DOMAIN entries : IsOfItsFlavors(entries[i].kind, flavors[i])

(* What insert writes was copied, or is the thumbnail of an image.         *)
LEMMA StoredFrom ==
  ASSUME NEW fs, IsPartial(fs, Slots, Flavor), NEW k, NEW p \in DOMAIN StorableFlavors(k, fs)
  PROVE  \/ p \in DOMAIN fs /\ StorableFlavors(k, fs)[p] = fs[p]
         \/ p = ThumbSlot /\ k = "image" /\ StorableFlavors(k, fs)[p].mime = ThumbMime
<1> DEFINE kept == WithinCap(Distinct(fs))
<1>1. /\ DOMAIN kept \subseteq DOMAIN fs
      /\ \A i \in DOMAIN kept : kept[i] = fs[i]
  BY DEF WithinCap, Distinct, Restrict
<1> HIDE DEF kept
<1>2. StorableFlavors(k, fs) = WithThumbnail(k, kept)
  BY DEF StorableFlavors, kept
<1>3. CASE WithThumbnail(k, kept) = kept
  BY <1>1, <1>2, <1>3
<1>4. CASE WithThumbnail(k, kept) # kept
  <2>1. /\ k = "image"
        /\ \E d : WithThumbnail(k, kept) =
             [i \in DOMAIN kept \cup {ThumbSlot} |->
                IF i \in DOMAIN kept THEN kept[i] ELSE [mime |-> ThumbMime, data |-> d]]
    BY <1>4 DEF WithThumbnail
  <2> QED
    BY <1>1, <1>2, <2>1
<1> QED
  BY <1>3, <1>4

LEMMA StoredIsOfItsFlavors ==
  ASSUME NEW new, IsCopy(new), IsKindOf(new.kind, new.flavors), ~IsRefused(new.kind, new.flavors)
  PROVE  IsOfItsFlavors(new.kind, StorableFlavors(new.kind, new.flavors))
<1> DEFINE k == new.kind
           fs == new.flavors
           stored == StorableFlavors(k, fs)
<1>1. PICK c : IsCanonical(k, stored, c)
  BY StorableFlavorsKeepCanonical DEF IsCopy
<1>2. c \in DOMAIN stored /\ FromMime(stored[c].mime) = k
  BY <1>1 DEF IsCanonical, Rank
<1>3. ThumbSlot \notin DOMAIN fs
  BY FlavorsAssumption DEF IsCopy, IsPartial, Slots, ThumbSlot
<1>4. \A p \in DOMAIN stored : \/ p \in DOMAIN fs /\ stored[p] = fs[p]
                               \/ p = ThumbSlot /\ k = "image" /\ stored[p].mime = ThumbMime
  BY StoredFrom DEF IsCopy
<1> HIDE DEF stored
<1>5. k = "image" => Level[FromMime(ThumbMime)] <= Level[k]
  <2>1. FromMime(ThumbMime) = "image"
    BY DEF FromMime, ImageMimes, PlainMimes, ThumbMime, NoKind
  <2>2. Level["image"] = 4
    BY DEF Level, Kinds, NoKind
  <2> QED
    BY <2>1, <2>2
<1>6. \A p \in DOMAIN stored : Level[FromMime(stored[p].mime)] <= Level[k]
  BY <1>4, <1>5 DEF IsKindOf
<1>7. IsKindOf(k, stored)
  BY <1>2, <1>6 DEF IsKindOf
<1> QED
  BY <1>3, <1>4, <1>7 DEF IsOfItsFlavors, stored

(* A row that is left by an operation is the one that was there, or the    *)
(* one that was inserted.                                                  *)
IsAsItWas(i) ==
  /\ i \in DOMAIN entries
  /\ entries'[i].kind = entries[i].kind
  /\ flavors'[i] = flavors[i]

LEMMA LeftAsTheyWere ==
  ASSUME IInv, NEW es, Leave(es, flavors),
         \A i \in DOMAIN es : i \in DOMAIN entries /\ es[i].kind = entries[i].kind,
         NEW i \in DOMAIN entries'
  PROVE  IsAsItWas(i)
BY DEF IsAsItWas, Leave, Restrict, IInv

LEMMA RemovedAsTheyWere ==
  ASSUME IInv, NEW es, Leave(es, flavors),
         \/ es = << >>
         \/ \E S : es = Without(entries, S)
         \/ \E now : es = Swept(entries, now),
         NEW i \in DOMAIN entries'
  PROVE  IsAsItWas(i)
<1>1. \A j \in DOMAIN es : j \in DOMAIN entries /\ es[j] = entries[j]
  <2>1. CASE es = << >>
    BY <2>1
  <2>2. CASE \E S : es = Without(entries, S)
    BY <2>2 DEF Without, Restrict
  <2>3. CASE \E now : es = Swept(entries, now)
    BY <2>3, SweptKeeps
  <2> QED
    BY <2>1, <2>2, <2>3
<1>2. \A j \in DOMAIN es : j \in DOMAIN entries /\ es[j].kind = entries[j].kind
  BY <1>1
<1> QED
  BY <1>2, LeftAsTheyWere

LEMMA AsTheyWere ==
  ASSUME IInv, RowsAreOfTheirFlavors, \A i \in DOMAIN entries' : IsAsItWas(i)
  PROVE  RowsAreOfTheirFlavors'
BY DEF RowsAreOfTheirFlavors, IsAsItWas

LEMMA BumpedAsTheyWere ==
  ASSUME IInv, NEW new, InsertBumps(new), NEW i \in DOMAIN entries'
  PROVE  IsAsItWas(i)
<1>1. PICK id \in DOMAIN entries :
        Leave(Swept([entries EXCEPT ![id] = BumpedRow(entries[id], new)], new.created_at), flavors)
  BY DEF InsertBumps
<1> DEFINE bumped == [entries EXCEPT ![id] = BumpedRow(entries[id], new)]
           es     == Swept(bumped, new.created_at)
<1>2. BumpedRow(entries[id], new).kind = entries[id].kind
  BY DEF BumpedRow, IInv, AreSound, IsPartial, Row
<1>3. \A j \in DOMAIN bumped : j \in DOMAIN entries /\ bumped[j].kind = entries[j].kind
  BY <1>2
<1> HIDE DEF bumped
<1>4. \A j \in DOMAIN es : j \in DOMAIN entries /\ es[j].kind = entries[j].kind
  BY <1>3, SweptKeeps
<1>5. Leave(es, flavors)
  BY <1>1 DEF bumped
<1> HIDE DEF es
<1> QED
  BY <1>4, <1>5, LeftAsTheyWere

LEMMA InsertKeepsRows ==
  ASSUME NEW new, IInv, RowsAreOfTheirFlavors, IsCopy(new), IsKindOf(new.kind, new.flavors),
         Insert(new)
  PROVE  RowsAreOfTheirFlavors'
<1>1. CASE InsertRefused(new)
  BY <1>1 DEF InsertRefused, RowsAreOfTheirFlavors
<1>2. CASE InsertBumps(new)
  BY <1>2, BumpedAsTheyWere, AsTheyWere
<1>3. CASE InsertCreates(new)
  <2>1. PICK id \in EntryIds :
          LET written == [i \in DOMAIN entries \cup {id} |->
                            IF i = id THEN NewRow(new) ELSE entries[i]]
              stored  == [i \in DOMAIN flavors \cup {id} |->
                            IF i = id THEN StorableFlavors(new.kind, new.flavors) ELSE flavors[i]]
          IN  Leave(Swept(written, new.created_at), stored)
    BY <1>3 DEF InsertCreates
  <2> DEFINE fs == StorableFlavors(new.kind, new.flavors)
             written == [i \in DOMAIN entries \cup {id} |-> IF i = id THEN NewRow(new) ELSE entries[i]]
             stored  == [i \in DOMAIN flavors \cup {id} |-> IF i = id THEN fs ELSE flavors[i]]
  <2>2. Leave(Swept(written, new.created_at), stored)
    BY <2>1
  <2>3. IsOfItsFlavors(new.kind, fs)
    BY <1>3, StoredIsOfItsFlavors DEF InsertCreates
  <2>4. DOMAIN flavors = DOMAIN entries
    BY DEF IInv
  <2> HIDE DEF fs
  <2>5. NewRow(new).kind = new.kind
    BY DEF NewRow
  <2>6. \A i \in DOMAIN written : IsOfItsFlavors(written[i].kind, stored[i])
    BY <2>3, <2>4, <2>5 DEF RowsAreOfTheirFlavors
  <2>7. DOMAIN stored = DOMAIN written
    BY <2>4
  <2> HIDE DEF written, stored
  <2>8. \A i \in DOMAIN entries' : /\ i \in DOMAIN written
                                   /\ entries'[i] = written[i] /\ flavors'[i] = stored[i]
    BY <2>2, <2>7, SweptKeeps DEF Leave, Restrict
  <2> QED
    BY <2>6, <2>8 DEF RowsAreOfTheirFlavors
<1> QED
  BY <1>1, <1>2, <1>3 DEF Insert

-----------------------------------------------------------------------------
(* The queues between the threads and the compositor.                      *)

IsQueue(s) == \E S : s \in Seq(S)

LEMMA Appended ==
  ASSUME NEW s, IsQueue(s), NEW e
  PROVE  /\ IsQueue(Append(s, e))
         /\ Len(s) \in Nat /\ DOMAIN s = 1..Len(s)
         /\ Len(Append(s, e)) = Len(s) + 1
         /\ \A k \in 1..Len(s) : Append(s, e)[k] = s[k]
         /\ Append(s, e)[Len(s) + 1] = e
<1>1. PICK S : s \in Seq(S)
  BY DEF IsQueue
<1>2. s \in Seq(S \cup {e}) /\ e \in S \cup {e}
  BY <1>1
<1>3. Append(s, e) \in Seq(S \cup {e})
  BY <1>2
<1> QED
  BY <1>2, <1>3 DEF IsQueue

LEMMA Dequeued ==
  ASSUME NEW s, IsQueue(s), s # << >>
  PROVE  /\ IsQueue(Tail(s))
         /\ Len(s) \in Nat \ {0} /\ DOMAIN s = 1..Len(s)
         /\ Len(Tail(s)) = Len(s) - 1
         /\ \A k \in 1..Len(Tail(s)) : k + 1 \in 1..Len(s) /\ Tail(s)[k] = s[k + 1]
         /\ Head(s) = s[1]
<1>1. PICK S : s \in Seq(S)
  BY DEF IsQueue
<1>2. Tail(s) \in Seq(S)
  BY <1>1
<1> QED
  BY <1>1, <1>2 DEF IsQueue

LEMMA EmptyQueue == IsQueue(<< >>) /\ Len(<< >>) = 0
<1>1. << >> \in Seq({})
  OBVIOUS
<1> QED
  BY <1>1 DEF IsQueue

(* A clip of clippo's own stays one that is captured, however it is cut    *)
(* short, when no read loses a flavor.                                     *)
ClipOK(c) ==
  IsClip(c) /\ (Droppable = {} /\ IsOwn(c) => IsDescribable(c.sel.flavors))

HolderOK(S)   == IsLone(S) /\ \A c \in S : ClipOK(c)
WireEventOK(e) == e.type = "selection" => \A c \in e.clips : ClipOK(c)
EventOK(e)    == e.type = "captured" => ClipOK(e.clip)
CommandOK(fs) == IsPartial(fs, Slots, Flavor)

IsWire(w)  == IsQueue(w) /\ Len(w) <= WireBound /\ \A k \in 1..Len(w) : WireEventOK(w[k])
WireOK     == IsWire(wire)
EventsOK   == IsQueue(events) /\ Len(events) <= EventCap /\ \A k \in 1..Len(events) : EventOK(events[k])
CommandsOK == IsQueue(commands) /\ Len(commands) <= CommandCap
              /\ \A k \in 1..Len(commands) : CommandOK(commands[k])

ClipboardSound ==
  HolderOK(clipboard) /\ HolderOK(reading) /\ WireOK /\ EventsOK /\ CommandsOK

LEMMA ClipboardSoundTypes == ClipboardSound => ClipboardTypeOK
<1> SUFFICES ASSUME ClipboardSound PROVE ClipboardTypeOK
  OBVIOUS
<1>1. /\ DOMAIN wire = 1..Len(wire) /\ DOMAIN events = 1..Len(events)
      /\ DOMAIN commands = 1..Len(commands)
  BY Appended DEF ClipboardSound, WireOK, IsWire, EventsOK, CommandsOK
<1>2. Cardinality(clipboard) <= 1 /\ Cardinality(reading) <= 1
  BY LoneCardinality DEF ClipboardSound, HolderOK
<1> QED
  BY <1>1, <1>2
  DEF ClipboardSound, ClipboardTypeOK, HolderOK, WireOK, IsWire, EventsOK, CommandsOK,
      WireEventOK, EventOK, ClipOK, CommandOK

(* What is put at the end of a queue, and what is taken from its head.     *)
LEMMA WireGrows ==
  ASSUME NEW w, IsWire(w), NEW e, WireEventOK(e), Len(w) < WireBound
  PROVE  IsWire(Append(w, e)) /\ Len(Append(w, e)) = Len(w) + 1
BY Appended, ClipboardAssumption DEF IsWire

LEMMA WireShrinks ==
  ASSUME WireOK, wire # << >>
  PROVE  IsWire(Tail(wire)) /\ WireEventOK(Head(wire))
BY Dequeued, ClipboardAssumption DEF WireOK, IsWire

LEMMA EventsGrow ==
  ASSUME EventsOK, NEW e, EventOK(e), Emit(e)
  PROVE  EventsOK'
<1>1. CASE Len(events) < EventCap
  <2>1. events' = Append(events, e)
    BY <1>1 DEF Emit
  <2> QED
    BY <1>1, <2>1, Appended, ClipboardAssumption DEF EventsOK
<1>2. CASE ~(Len(events) < EventCap)
  BY <1>2 DEF EventsOK, Emit
<1> QED
  BY <1>1, <1>2

LEMMA EventsShrink ==
  ASSUME EventsOK, events # << >>, events' = Tail(events)
  PROVE  EventsOK' /\ EventOK(Head(events))
BY Dequeued, ClipboardAssumption DEF EventsOK

LEMMA CommandsGrow ==
  ASSUME CommandsOK, NEW fs, CommandOK(fs), Len(commands) < CommandCap,
         commands' = Append(commands, fs)
  PROVE  CommandsOK'
BY Appended, ClipboardAssumption DEF CommandsOK

LEMMA CommandsShrink ==
  ASSUME CommandsOK, commands # << >>, commands' = Tail(commands)
  PROVE  CommandsOK' /\ CommandOK(Head(commands))
BY Dequeued, ClipboardAssumption DEF CommandsOK

LEMMA EmptyWire == IsWire(<< >>) /\ Len(<< >>) < WireBound
BY EmptyQueue, ClipboardAssumption DEF IsWire

-----------------------------------------------------------------------------
(* Every step of the clipboard leaves it sound.                            *)

LEMMA OthersTakeWire ==
  ASSUME ClipboardSound, NEW clips, NEW watched \in BOOLEAN, OthersTake(clips, watched)
  PROVE  wire' = IF watched
                 THEN Append(IF Owned THEN Append(wire, Cancelled) ELSE wire, Selected(clips))
                 ELSE wire
<1>1. PICK S : wire \in Seq(S)
  BY DEF ClipboardSound, WireOK, IsWire, IsQueue
<1> DEFINE c == Cancelled
           d == Selected(clips)
           T == S \cup {c, d}
<1> HIDE DEF c, d
<1>2. wire \in Seq(T) /\ c \in T /\ d \in T
  BY <1>1
<1> HIDE DEF T
<1>3. wire \o <<c>> \o <<d>> = Append(Append(wire, c), d)
  BY <1>2
<1>4. wire \o << >> \o <<d>> = Append(wire, d)
  BY <1>2
<1> QED
  BY <1>3, <1>4 DEF OthersTake, c, d

LEMMA OthersTakeSound ==
  ASSUME ClipboardSound, NEW clips, HolderOK(clips), NEW watched \in BOOLEAN,
         OthersTake(clips, watched)
  PROVE  ClipboardSound'
<1>1. IsWire(wire) /\ Len(wire) \in Nat /\ Len(wire) + 2 <= WireBound
  BY Appended DEF ClipboardSound, WireOK, IsWire, OthersTake
<1>2. WireEventOK(Selected(clips)) /\ WireEventOK(Cancelled)
  BY DEF WireEventOK, Selected, Cancelled, HolderOK
<1>3. IsWire(Append(wire, Selected(clips)))
  BY <1>1, <1>2, WireGrows, ClipboardAssumption
<1>4. IsWire(Append(wire, Cancelled)) /\ Len(Append(wire, Cancelled)) < WireBound
  BY <1>1, <1>2, WireGrows, ClipboardAssumption
<1>5. IsWire(Append(Append(wire, Cancelled), Selected(clips)))
  BY <1>2, <1>4, WireGrows
<1>6. IsWire(wire')
  BY <1>1, <1>3, <1>5, OthersTakeWire
<1> QED
  BY <1>6 DEF ClipboardSound, WireOK, IsWire, OthersTake, HolderOK, EventsOK, CommandsOK

LEMMA PrimaryChangesSound ==
  ASSUME ClipboardSound, NEW clips, HolderOK(clips), PrimaryChanges(clips)
  PROVE  ClipboardSound'
<1>1. WireEventOK(Selected(clips))
  BY DEF WireEventOK, Selected, HolderOK
<1>2. IsWire(wire')
  BY <1>1, WireGrows DEF ClipboardSound, WireOK, PrimaryChanges
<1> QED
  BY <1>2 DEF ClipboardSound, WireOK, IsWire, PrimaryChanges, HolderOK, EventsOK, CommandsOK

LEMMA OnSelectionSound ==
  ASSUME ClipboardSound, OnSelection
  PROVE  ClipboardSound'
<1>1. IsWire(Tail(wire)) /\ WireEventOK(Head(wire))
  BY WireShrinks DEF ClipboardSound, OnSelection
<1>2. HolderOK(reading')
  <2>1. CASE reading' = {}
    BY <2>1 DEF HolderOK, IsLone
  <2>2. ASSUME NEW clip \in Head(wire).clips, NEW served \in Served(clip), reading' = {served}
        PROVE  HolderOK(reading')
    <3>1. ClipOK(clip)
      BY <1>1 DEF OnSelection, WireEventOK
    <3>2. CASE served = clip
      BY <2>2, <3>1, <3>2 DEF HolderOK, IsLone
    <3>3. ASSUME NEW got \in CutShort(clip.sel), served = Clip(clip.own, got)
          PROVE  ClipOK(served)
      BY <3>1, <3>3, CutIsSelection DEF ClipOK, IsClip, IsOwn, Clip
    <3>4. ClipOK(served)
      BY <3>1, <3>3 DEF Served
    <3> QED
      BY <2>2, <3>4 DEF HolderOK, IsLone
  <2> QED
    BY <2>1, <2>2 DEF OnSelection
<1> QED
  BY <1>1, <1>2 DEF ClipboardSound, WireOK, OnSelection, HolderOK, EventsOK, CommandsOK

LEMMA OnCancelledSound ==
  ASSUME ClipboardSound, OnCancelled
  PROVE  ClipboardSound'
<1>1. IsWire(Tail(wire))
  BY WireShrinks DEF ClipboardSound, OnCancelled
<1>2. EventsOK'
  <2>1. EventOK(SelectionLost)
    BY DEF EventOK, SelectionLost
  <2>2. CASE Emit(SelectionLost)
    BY <2>1, <2>2, EventsGrow DEF ClipboardSound
  <2>3. CASE UNCHANGED events
    BY <2>3 DEF ClipboardSound, EventsOK
  <2> QED
    BY <2>2, <2>3 DEF OnCancelled
<1> QED
  BY <1>1, <1>2 DEF ClipboardSound, WireOK, OnCancelled, HolderOK, CommandsOK

LEMMA ReadDoneSound ==
  ASSUME ClipboardSound, ReadDone
  PROVE  ClipboardSound'
<1>0. PICK clip \in reading : \E got \in Reads(clip) :
        /\ Emit(Captured(Clip(clip.own, got)))
        /\ reading' = {}
        /\ UNCHANGED <<clipboard, wire, commands>>
  BY DEF ReadDone
<1>1. PICK got \in Reads(clip) :
        /\ Emit(Captured(Clip(clip.own, got)))
        /\ reading' = {}
        /\ UNCHANGED <<clipboard, wire, commands>>
  BY <1>0
<1>2. ClipOK(Clip(clip.own, got))
  BY ReadIsSelection DEF ClipboardSound, HolderOK, ClipOK, IsClip, IsOwn, Clip
<1>3. EventOK(Captured(Clip(clip.own, got)))
  BY <1>2 DEF EventOK, Captured
<1>4. EventsOK'
  BY <1>1, <1>3, EventsGrow DEF ClipboardSound
<1> QED
  BY <1>1, <1>4 DEF ClipboardSound, WireOK, IsWire, HolderOK, IsLone, CommandsOK

(* What clippo offers is a clip whose identities are its own.              *)
LEMMA OfferedIsClip ==
  ASSUME NEW fs, CommandOK(fs), NEW hinted \in BOOLEAN
  PROVE  LET sel == [flavors |-> fs, hinted |-> hinted] IN
         IsSelection(sel) /\ ClipOK(Clip(HashOf(sel), sel))
<1> DEFINE sel == [flavors |-> fs, hinted |-> hinted]
<1>1. IsSelection(sel)
  BY DEF IsSelection, CommandOK
<1>2. HashOf(sel) \subseteq Hashes
  BY <1>1, NewHashesAreHashes DEF HashOf
<1>3. HashOf(sel) # {} => IsDescribable(fs)
  BY <1>1, DescribableIsCaptured DEF HashOf
<1> QED
  BY <1>1, <1>2, <1>3 DEF ClipOK, IsClip, IsOwn, Clip

(* The cancellations on their way become those of a superseded source.     *)
Late(w) == [k \in DOMAIN w |-> IF w[k].type = "cancelled" THEN Superseded ELSE w[k]]

LEMMA LateIsWire ==
  ASSUME NEW w, IsWire(w)
  PROVE  /\ IsWire(Late(w)) /\ Len(Late(w)) = Len(w) /\ Len(w) \in Nat
         /\ \A k \in 1..Len(w) :
              Late(w)[k] = IF w[k].type = "cancelled" THEN Superseded ELSE w[k]
<1>1. PICK S : w \in Seq(S)
  BY DEF IsWire, IsQueue
<1>2. DOMAIN w = 1..Len(w) /\ Len(w) \in Nat
  BY <1>1
<1> DEFINE late == [k \in 1..Len(w) |-> IF w[k].type = "cancelled" THEN Superseded ELSE w[k]]
<1>3. Late(w) = late
  BY <1>2 DEF Late
<1>4. \A k \in 1..Len(w) : w[k] \in S
  BY <1>1
<1>5. late \in [1..Len(w) -> S \cup {Superseded}]
  BY <1>4
<1>6. late \in Seq(S \cup {Superseded}) /\ Len(late) = Len(w)
  BY <1>2, <1>5
<1>7. WireEventOK(Superseded)
  BY DEF WireEventOK, Superseded
<1>8. \A k \in 1..Len(w) : WireEventOK(late[k])
  BY <1>7 DEF IsWire
<1> QED
  BY <1>2, <1>3, <1>6, <1>8 DEF IsWire, IsQueue

LEMMA TakeSelectionSound ==
  ASSUME ClipboardSound, TakeSelection
  PROVE  ClipboardSound'
<1> DEFINE fs   == Head(commands)
           hint == \E i \in DOMAIN fs : fs[i].mime = HintMime
           sel  == [flavors |-> fs, hinted |-> hint]
           clip == Clip(HashOf(sel), sel)
<1>1. CommandsOK' /\ CommandOK(fs)
  BY CommandsShrink DEF ClipboardSound, TakeSelection
<1>2. ClipOK(clip)
  BY <1>1, OfferedIsClip
<1>3. clipboard' = {clip} /\ wire' = Append(Late(wire), Selected({clip}))
  BY DEF TakeSelection, Late
<1> HIDE DEF clip
<1>4. WireEventOK(Selected({clip})) /\ HolderOK({clip})
  BY <1>2 DEF WireEventOK, Selected, HolderOK, IsLone
<1>5. IsWire(Append(Late(wire), Selected({clip})))
  BY <1>4, WireGrows, LateIsWire DEF ClipboardSound, WireOK, TakeSelection
<1> QED
  BY <1>1, <1>3, <1>4, <1>5
  DEF ClipboardSound, WireOK, IsWire, TakeSelection, HolderOK, EventsOK

LEMMA OfferSound ==
  ASSUME ClipboardSound, NEW fs, CommandOK(fs), Offer(fs)
  PROVE  ClipboardSound'
<1>1. CommandsOK'
  BY CommandsGrow DEF ClipboardSound, Offer, CanOffer
<1> QED
  BY <1>1 DEF ClipboardSound, WireOK, IsWire, Offer, HolderOK, EventsOK

LEMMA ReceiveSound ==
  ASSUME ClipboardSound, NEW type, IsNext(type), Receive
  PROVE  ClipboardSound' /\ EventOK(Head(events))
<1>1. EventsOK' /\ EventOK(Head(events))
  BY EventsShrink DEF ClipboardSound, Receive, IsNext
<1> QED
  BY <1>1 DEF ClipboardSound, WireOK, IsWire, Receive, HolderOK, CommandsOK

LEMMA StartWatchingSound ==
  ASSUME ClipboardSound, StartWatching
  PROVE  ClipboardSound'
<1>1. WireEventOK(Selected(clipboard))
  BY DEF ClipboardSound, HolderOK, WireEventOK, Selected
<1>2. Append(<< >>, Selected(clipboard)) = <<Selected(clipboard)>>
  <2> DEFINE e == Selected(clipboard)
  <2> HIDE DEF e
  <2>1. Append(<< >>, e) = <<e>>
    OBVIOUS
  <2> QED
    BY <2>1 DEF e
<1>3. IsWire(<<Selected(clipboard)>>)
  BY <1>1, <1>2, EmptyWire, WireGrows
<1> QED
  BY <1>3 DEF ClipboardSound, WireOK, IsWire, StartWatching, HolderOK, EventsOK, CommandsOK

LEMMA WatcherDiesSound ==
  ASSUME ClipboardSound, WatcherDies
  PROVE  ClipboardSound'
<1>1. IsWire(<< >>)
  BY EmptyWire
<1>2. EventsOK' /\ CommandsOK'
  BY EmptyQueue, ClipboardAssumption DEF WatcherDies, EventsOK, CommandsOK
<1>3. HolderOK(clipboard') /\ HolderOK(reading')
  BY DEF ClipboardSound, WatcherDies, HolderOK, IsLone
<1> QED
  BY <1>1, <1>2, <1>3 DEF ClipboardSound, WireOK, WatcherDies

LEMMA UnchangedSound ==
  ASSUME ClipboardSound, UNCHANGED clipboardVars
  PROVE  ClipboardSound'
BY DEF clipboardVars, ClipboardSound, WireOK, IsWire, HolderOK, EventsOK, CommandsOK

(* The flavors of a row that are put on the clipboard are ones a selection *)
(* can carry: the thumbnail is left behind, wherever it came from.         *)
LEMMA OfferableIsCommand ==
  ASSUME IInv, RowsAreOfTheirFlavors, NEW id \in DOMAIN entries
  PROVE  CommandOK(Offerable(flavors[id]))
<1>1. IsFlavorList(flavors[id]) /\ IsOfItsFlavors(entries[id].kind, flavors[id])
  BY DEF IInv, AreSound, IsSound, RowsAreOfTheirFlavors
<1> DEFINE fs == flavors[id]
           gs == Offerable(fs)
<1>2. /\ DOMAIN gs = {i \in DOMAIN fs : fs[i].mime # ThumbMime}
      /\ gs = [i \in DOMAIN gs |-> fs[i]]
  BY DEF Offerable, Restrict
<1>3. \A i \in DOMAIN gs : i \in Slots /\ fs[i] \in Flavor
  BY <1>1, <1>2 DEF IsFlavorList, IsPartial, IsOfItsFlavors
<1> HIDE DEF gs
<1>4. gs \in [DOMAIN gs -> Flavor]
  BY <1>2, <1>3
<1> QED
  BY <1>3, <1>4 DEF CommandOK, IsPartial, gs

(* What the clipboard's steps do, whichever the daemon takes.              *)
LEMMA LoneClipsAreOK ==
  /\ HolderOK({})
  /\ \A sel \in Captures : HolderOK({Clip({}, sel)})
BY HistoryAssumption DEF HolderOK, IsLone, ClipOK, IsClip, IsOwn, Clip

-----------------------------------------------------------------------------
(* The store under the daemon.                                             *)

StoreOK == IInv /\ RowsAreOfTheirFlavors

CopyOK(copy) ==
  IsCopy(copy.new) /\ IsKindOf(copy.new.kind, copy.new.flavors) /\ copy.own \subseteq Hashes

LEMMA NoStoreKeeps ==
  ASSUME StoreOK, NoStore
  PROVE  StoreOK' /\ entries' = entries
BY DEF StoreOK, NoStore, IInv, AreSound, RowsAreOfTheirFlavors

LEMMA UnchangedStoreKeeps ==
  ASSUME StoreOK, UNCHANGED vars
  PROVE  StoreOK' /\ entries' = entries
BY DEF StoreOK, vars, IInv, AreSound, RowsAreOfTheirFlavors

LEMMA InsertKeeps ==
  ASSUME StoreOK, NEW new, IsCopy(new), IsKindOf(new.kind, new.flavors), Insert(new)
  PROVE  StoreOK' /\ (answered' = 0 => entries' = entries)
<1>1. StoreOK'
  BY InsertKeepsIInv, InsertKeepsRows DEF StoreOK
<1>2. ASSUME answered' = 0 PROVE entries' = entries
  <2>1. DOMAIN entries \subseteq EntryIds
    BY DEF StoreOK, IInv, AreSound, IsPartial
  <2>2. \A id \in EntryIds : id # 0
    BY HistoryAssumption DEF EntryIds
  <2>3. ~InsertCreates(new)
    BY <1>2, <2>2 DEF InsertCreates
  <2>4. ~InsertBumps(new)
    BY <1>2, <2>1, <2>2 DEF InsertBumps
  <2>5. InsertRefused(new)
    BY <2>3, <2>4 DEF Insert
  <2> QED
    BY <2>5 DEF InsertRefused
<1> QED
  BY <1>1, <1>2

LEMMA RemovalKeeps ==
  ASSUME StoreOK, NEW es, Leave(es, flavors), answered' = 0,
         \/ es = << >>
         \/ \E S : es = Without(entries, S)
         \/ \E now : es = Swept(entries, now)
  PROVE  StoreOK'
<1>1. IInv'
  BY RemovalKeepsIInv DEF StoreOK
<1>2. RowsAreOfTheirFlavors'
  BY RemovedAsTheyWere, AsTheyWere DEF StoreOK
<1> QED
  BY <1>1, <1>2 DEF StoreOK

LEMMA UpdateKeepsRows ==
  ASSUME StoreOK, NEW es, Leave(es, flavors), DOMAIN es = DOMAIN entries,
         \A i \in DOMAIN es : es[i].kind = entries[i].kind
  PROVE  RowsAreOfTheirFlavors'
BY LeftAsTheyWere, AsTheyWere DEF StoreOK

LEMMA TouchKeeps ==
  ASSUME StoreOK, NEW id, NEW at \in Stamps, Touch(id, at)
  PROVE  StoreOK'
<1> DEFINE es == [entries EXCEPT ![id].last_used_at = at]
<1>1. Leave(es, flavors) /\ id \in DOMAIN entries
  BY DEF Touch
<1>2. \A i \in DOMAIN es : es[i].kind = entries[i].kind
  BY DEF StoreOK, IInv, AreSound, IsPartial, Row
<1>3. DOMAIN es = DOMAIN entries
  OBVIOUS
<1> HIDE DEF es
<1> QED
  BY <1>1, <1>2, <1>3, UpdateKeepsRows, TouchKeepsIInv DEF StoreOK

LEMMA SetPinnedKeeps ==
  ASSUME StoreOK, NEW id, NEW pinned \in BOOLEAN, SetPinned(id, pinned)
  PROVE  StoreOK'
<1> DEFINE es == [entries EXCEPT ![id].pinned = pinned]
<1>1. Leave(es, flavors) /\ id \in DOMAIN entries
  BY DEF SetPinned
<1>2. \A i \in DOMAIN es : es[i].kind = entries[i].kind
  BY DEF StoreOK, IInv, AreSound, IsPartial, Row
<1>3. DOMAIN es = DOMAIN entries
  OBVIOUS
<1> HIDE DEF es
<1> QED
  BY <1>1, <1>2, <1>3, UpdateKeepsRows, SetPinnedKeepsIInv DEF StoreOK

LEMMA SweepKeeps ==
  ASSUME StoreOK, NEW now, EnforceRetention(now) \/ EnforceRetentionFails(now)
  PROVE  StoreOK'
BY RemovalKeeps DEF EnforceRetention, EnforceRetentionFails

LEMMA MutationKeeps ==
  ASSUME StoreOK,
         \/ \E id \in EntryIds : Delete(id)
         \/ \E id \in EntryIds, pinned \in PinArgs : SetPinned(id, pinned)
         \/ \E includePinned \in BOOLEAN : Clear(includePinned)
  PROVE  StoreOK'
<1>1. ASSUME NEW id, Delete(id) PROVE StoreOK'
  BY <1>1, RemovalKeeps DEF Delete
<1>2. ASSUME NEW id, NEW pinned \in PinArgs, SetPinned(id, pinned) PROVE StoreOK'
  BY <1>2, SetPinnedKeeps, DaemonAssumption
<1>3. ASSUME NEW includePinned, Clear(includePinned) PROVE StoreOK'
  BY <1>3, RemovalKeeps DEF Clear
<1> QED
  BY <1>1, <1>2, <1>3

-----------------------------------------------------------------------------
(* The inductive invariant: the store is sound, the clipboard's queues     *)
(* carry what they are meant to, the cache is the history, and the copy    *)
(* the capture task holds is one the store can take.                       *)

TakenOK == IsLone(taken) /\ \A copy \in taken : CopyOK(copy)
CacheOK == CacheIsHistory /\ IsPartial(cache, EntryIds, Row)
FlagsOK ==
  /\ phase \in Phases /\ armed \in Hashes \cup {NoHash}
  /\ paused \in BOOLEAN /\ signalled \in BOOLEAN /\ stale \in BOOLEAN
  /\ announcing \subseteq Tasks /\ wanted \subseteq Hashes

DaemonIInv == StoreOK /\ ClipboardSound /\ TakenOK /\ CacheOK /\ FlagsOK

LEMMA DaemonIInvImplies == DaemonIInv => DaemonIsSound
<1> SUFFICES ASSUME DaemonIInv PROVE DaemonIsSound
  OBVIOUS
<1>1. TypeOK /\ ClipboardTypeOK
  BY IInvImplies, ClipboardSoundTypes DEF DaemonIInv, StoreOK
<1>2. Cardinality(taken) <= 1
  BY LoneCardinality DEF DaemonIInv, TakenOK
<1> QED
  BY <1>1, <1>2 DEF DaemonIInv, DaemonIsSound, DaemonTypeOK, CacheOK, FlagsOK

LEMMA DaemonInitSound == DaemonInit => DaemonIInv
<1> SUFFICES ASSUME DaemonInit PROVE DaemonIInv
  OBVIOUS
<1>1. StoreOK
  BY InitIInv DEF DaemonInit, Init, StoreOK, RowsAreOfTheirFlavors
<1>2. ClipboardSound
  <2>1. WireOK
    BY EmptyWire DEF DaemonInit, ClipboardInit, WireOK
  <2>2. EventsOK /\ CommandsOK
    BY EmptyQueue, ClipboardAssumption DEF DaemonInit, ClipboardInit, EventsOK, CommandsOK
  <2> QED
    BY <2>1, <2>2 DEF DaemonInit, ClipboardInit, ClipboardSound, HolderOK, IsLone
<1>3. TakenOK /\ FlagsOK
  BY DEF DaemonInit, TakenOK, IsLone, FlagsOK, Phases
<1>4. CacheOK
  BY DEF DaemonInit, CacheOK, CacheIsHistory, IsPartial
<1> QED
  BY <1>1, <1>2, <1>3, <1>4 DEF DaemonIInv

LEMMA CacheKept ==
  ASSUME CacheOK, cache' = cache, entries' = entries, phase # "down" \/ phase' = phase
  PROVE  CacheOK'
BY DEF CacheOK, CacheIsHistory

LEMMA CacheReloaded ==
  ASSUME StoreOK', cache' = entries'
  PROVE  CacheOK'
BY DEF CacheOK, CacheIsHistory, StoreOK, IInv, AreSound

LEMMA TakenKept == ASSUME TakenOK, taken' = taken PROVE TakenOK'
BY DEF TakenOK

LEMMA TakenNone == ASSUME taken' = {} PROVE TakenOK'
BY DEF TakenOK, IsLone

LEMMA CaptureSound ==
  ASSUME DaemonIInv, Capture
  PROVE  DaemonIInv'
<1>1. StoreOK' /\ entries' = entries
  BY NoStoreKeeps DEF DaemonIInv, Capture
<1>2. ClipboardSound' /\ EventOK(Head(events))
  BY ReceiveSound DEF DaemonIInv, Capture
<1>3. IsSelection(Head(events).clip.sel) /\ Head(events).clip.own \subseteq Hashes
  BY <1>2 DEF EventOK, Capture, IsNext, ClipOK, IsClip
<1>4. TakenOK'
  <2> DEFINE clip == Head(events).clip
  <2>1. PICK at \in Stamps : taken' = {[own |-> clip.own, new |-> new] : new \in NewEntries(clip.sel, at)}
    BY DEF Capture
  <2>2. \A copy \in taken' : CopyOK(copy)
    <3> SUFFICES ASSUME NEW new \in NewEntries(clip.sel, at)
                 PROVE  CopyOK([own |-> clip.own, new |-> new])
      BY <2>1
    <3>1. IsCopy(new)
      BY <1>3, NewEntriesAreCopies
    <3>2. IsKindOf(new.kind, new.flavors)
      BY DescribedAs
    <3> QED
      BY <1>3, <3>1, <3>2 DEF CopyOK
  <2>3. IsLone(NewEntries(clip.sel, at))
    BY <1>3, NewEntriesAreOne
  <2> HIDE DEF clip
  <2>4. IsLone(taken')
    BY <2>1, <2>3 DEF IsLone
  <2> QED
    BY <2>2, <2>4 DEF TakenOK
<1>5. CacheOK'
  BY <1>1, CacheKept DEF DaemonIInv, Capture, CapturerIsFree
<1>6. FlagsOK'
  BY DEF DaemonIInv, FlagsOK, Capture
<1> QED
  BY <1>1, <1>2, <1>4, <1>5, <1>6 DEF DaemonIInv

LEMMA IgnoreCopySound ==
  ASSUME DaemonIInv, IgnoreCopy
  PROVE  DaemonIInv'
<1>1. StoreOK' /\ entries' = entries
  BY NoStoreKeeps DEF DaemonIInv, IgnoreCopy
<1>2. ClipboardSound'
  BY UnchangedSound DEF DaemonIInv, IgnoreCopy
<1>3. CacheOK'
  BY <1>1, CacheKept DEF DaemonIInv, IgnoreCopy
<1>4. TakenOK' /\ FlagsOK'
  BY TakenNone DEF DaemonIInv, FlagsOK, IgnoreCopy
<1> QED
  BY <1>1, <1>2, <1>3, <1>4 DEF DaemonIInv

(* What a step that leaves the store and the cache alone has to show.      *)
LEMMA QuietStepSound ==
  ASSUME DaemonIInv, NoStore, ClipboardSound', cache' = cache,
         phase # "down" \/ phase' = phase, taken' \in {taken, {}}, FlagsOK'
  PROVE  DaemonIInv'
<1>1. StoreOK' /\ entries' = entries
  BY NoStoreKeeps DEF DaemonIInv
<1>2. CacheOK'
  BY <1>1, CacheKept DEF DaemonIInv
<1>3. TakenOK'
  BY TakenKept, TakenNone DEF DaemonIInv
<1> QED
  BY <1>1, <1>2, <1>3 DEF DaemonIInv

LEMMA RecordCopySound ==
  ASSUME DaemonIInv, RecordCopy
  PROVE  DaemonIInv'
<1>1. PICK copy \in taken :
        /\ Insert(copy.new)
        /\ IF answered' = 0 THEN UNCHANGED <<cache, stale, announcing>> ELSE Commit(Capturer)
        /\ wanted' = IF IsOwn(copy) THEN wanted ELSE wanted \ {copy.new.hash}
        /\ armed' = NoHash /\ taken' = {}
        /\ UNCHANGED <<clipboardVars, phase, paused, signalled>>
  BY DEF RecordCopy
<1>2. StoreOK' /\ (answered' = 0 => entries' = entries)
  BY <1>1, InsertKeeps DEF DaemonIInv, TakenOK, CopyOK
<1>3. ClipboardSound'
  BY <1>1, UnchangedSound DEF DaemonIInv
<1>4. TakenOK'
  BY <1>1, TakenNone
<1>5. CacheOK'
  BY <1>1, <1>2, CacheKept, CacheReloaded DEF DaemonIInv, Commit, Reload
<1>6. FlagsOK'
  <2>1. stale' \in BOOLEAN /\ announcing' \subseteq Tasks
    BY <1>1, DaemonAssumption DEF DaemonIInv, FlagsOK, Commit, Reload, Tasks
  <2> QED
    BY <1>1, <2>1 DEF DaemonIInv, FlagsOK
<1> QED
  BY <1>2, <1>3, <1>4, <1>5, <1>6 DEF DaemonIInv

(* A step that commits: the cache is reloaded and the change announced.    *)
LEMMA CommitSound ==
  ASSUME DaemonIInv, StoreOK', ClipboardSound', NEW task \in Tasks, Commit(task),
         taken' = taken, phase' \in Phases, armed' \in Hashes \cup {NoHash},
         paused' = paused, signalled' = signalled, wanted' \subseteq wanted
  PROVE  DaemonIInv'
<1>1. CacheOK'
  BY CacheReloaded DEF Commit, Reload
<1>2. TakenOK'
  BY TakenKept DEF DaemonIInv
<1>3. stale' \in BOOLEAN /\ announcing' \subseteq Tasks
  BY DaemonAssumption DEF DaemonIInv, FlagsOK, Commit, Reload
<1> QED
  BY <1>1, <1>2, <1>3 DEF DaemonIInv, FlagsOK

LEMMA CopySound ==
  ASSUME DaemonIInv, NEW call \in Calls, NEW id, NEW at \in Stamps, Copy(call, id, at)
  PROVE  DaemonIInv'
<1>1. id \in DOMAIN entries
  BY DEF Copy, Touch
<1>2. StoreOK'
  BY TouchKeeps DEF DaemonIInv, Copy
<1>3. ClipboardSound'
  BY <1>1, OfferableIsCommand, OfferSound DEF DaemonIInv, StoreOK, Copy
<1>4. entries[id].hash \in Hashes
  BY <1>1 DEF DaemonIInv, StoreOK, IInv, AreSound, IsPartial, Row
<1> QED
  BY <1>2, <1>3, <1>4, CommitSound DEF Copy, Tasks, DaemonIInv, FlagsOK

LEMMA MutateSound ==
  ASSUME DaemonIInv, NEW call \in Calls, Mutate(call)
  PROVE  DaemonIInv'
<1>1. StoreOK'
  BY MutationKeeps DEF DaemonIInv, Mutate
<1>2. ClipboardSound'
  BY UnchangedSound DEF DaemonIInv, Mutate
<1> QED
  BY <1>1, <1>2, CommitSound DEF Mutate, Forget, Tasks, DaemonIInv, FlagsOK

LEMMA CopyRefusedSound ==
  ASSUME DaemonIInv, NEW call, NEW id, CopyRefused(call, id)
  PROVE  DaemonIInv'
<1>1. ClipboardSound'
  BY UnchangedSound DEF DaemonIInv, CopyRefused
<1>2. FlagsOK'
  BY DEF DaemonIInv, FlagsOK, CopyRefused
<1> QED
  BY <1>1, <1>2, QuietStepSound DEF CopyRefused

LEMMA LoseSelectionSound ==
  ASSUME DaemonIInv, LoseSelection
  PROVE  DaemonIInv'
<1>1. ClipboardSound'
  BY ReceiveSound DEF DaemonIInv, LoseSelection
<1>2. FlagsOK'
  BY DEF DaemonIInv, FlagsOK, LoseSelection
<1> QED
  BY <1>1, <1>2, QuietStepSound DEF LoseSelection

LEMMA SetPausedSound ==
  ASSUME DaemonIInv, NEW to \in BOOLEAN, SetPaused(to)
  PROVE  DaemonIInv'
<1>1. ClipboardSound'
  BY UnchangedSound DEF DaemonIInv, SetPaused
<1>2. FlagsOK'
  BY DEF DaemonIInv, FlagsOK, SetPaused
<1> QED
  BY <1>1, <1>2, QuietStepSound DEF SetPaused

LEMMA AnnounceSound ==
  ASSUME DaemonIInv, NEW task, Announce(task)
  PROVE  DaemonIInv'
<1>1. ClipboardSound'
  BY UnchangedSound DEF DaemonIInv, Announce
<1>2. FlagsOK'
  BY DEF DaemonIInv, FlagsOK, Announce
<1> QED
  BY <1>1, <1>2, QuietStepSound DEF Announce

LEMMA ListSound ==
  ASSUME DaemonIInv, List
  PROVE  DaemonIInv'
<1>1. ClipboardSound'
  BY UnchangedSound DEF DaemonIInv, List
<1>2. FlagsOK'
  BY DEF DaemonIInv, FlagsOK, List
<1> QED
  BY <1>1, <1>2, QuietStepSound DEF List

LEMMA StartSound ==
  ASSUME DaemonIInv, Start
  PROVE  DaemonIInv'
<1>1. StoreOK' /\ entries' = entries
  BY NoStoreKeeps DEF DaemonIInv, Start
<1>2. ClipboardSound'
  BY UnchangedSound DEF DaemonIInv, Start
<1>3. CacheOK'
  BY <1>1, CacheReloaded DEF Start
<1>4. FlagsOK'
  BY DaemonAssumption DEF DaemonIInv, FlagsOK, Start, Phases
<1> QED
  BY <1>1, <1>2, <1>3, <1>4, TakenKept DEF DaemonIInv, Start

LEMMA SweepRetentionSound ==
  ASSUME DaemonIInv, NEW at, SweepRetention(at)
  PROVE  DaemonIInv'
<1>1. StoreOK'
  BY SweepKeeps DEF DaemonIInv, SweepRetention
<1>2. ClipboardSound'
  BY UnchangedSound DEF DaemonIInv, SweepRetention
<1>3. CASE entries' = entries
  <2>1. CacheOK'
    BY <1>3, CacheKept DEF DaemonIInv, SweepRetention
  <2>2. FlagsOK'
    BY <1>3 DEF DaemonIInv, FlagsOK, SweepRetention, Phases
  <2> QED
    BY <1>1, <1>2, <2>1, <2>2, TakenKept DEF DaemonIInv, SweepRetention
<1>4. CASE entries' # entries
  BY <1>1, <1>2, <1>4, CommitSound DEF SweepRetention, Tasks, Phases, DaemonIInv, FlagsOK
<1> QED
  BY <1>3, <1>4

LEMMA WatchSound ==
  ASSUME DaemonIInv, Watch
  PROVE  DaemonIInv'
<1>1. ClipboardSound'
  BY StartWatchingSound DEF DaemonIInv, Watch
<1>2. FlagsOK'
  BY DEF DaemonIInv, FlagsOK, Watch, Phases
<1> QED
  BY <1>1, <1>2, QuietStepSound DEF Watch

LEMMA DieSound ==
  ASSUME DaemonIInv, StoreOK', Die
  PROVE  DaemonIInv'
<1>1. ClipboardSound'
  BY WatcherDiesSound DEF DaemonIInv, Die
<1>2. CacheOK'
  BY DEF Die, CacheOK, CacheIsHistory, IsPartial
<1>3. FlagsOK'
  BY DEF Die, FlagsOK, Phases
<1> QED
  BY <1>1, <1>2, <1>3, TakenNone DEF DaemonIInv, Die

LEMMA AppStepSound ==
  ASSUME DaemonIInv,
         \/ \E sel \in Captures : AppCopies(sel) \/ AppSelects({Clip({}, sel)})
         \/ AppClears \/ AppSelects({})
  PROVE  DaemonIInv'
<1>1. ASSUME NEW sel \in Captures, AppCopies(sel) PROVE DaemonIInv'
  <2>1. ClipboardSound'
    BY <1>1, LoneClipsAreOK, OthersTakeSound DEF DaemonIInv, AppCopies
  <2>2. wanted' \subseteq Hashes
    BY <1>1, NewHashesAreHashes, HistoryAssumption DEF AppCopies
  <2>3. FlagsOK'
    BY <1>1, <2>2 DEF DaemonIInv, FlagsOK, AppCopies
  <2> QED
    BY <1>1, <2>1, <2>3, QuietStepSound DEF AppCopies
<1>2. ASSUME NEW clips, HolderOK(clips), AppSelects(clips) PROVE DaemonIInv'
  <2>1. ClipboardSound'
    BY <1>2, PrimaryChangesSound DEF DaemonIInv, AppSelects
  <2>2. FlagsOK'
    BY <1>2 DEF DaemonIInv, FlagsOK, AppSelects, daemonVars
  <2> QED
    BY <1>2, <2>1, <2>2, QuietStepSound DEF AppSelects, daemonVars
<1>3. ASSUME AppClears PROVE DaemonIInv'
  <2>1. ClipboardSound'
    BY <1>3, LoneClipsAreOK, OthersTakeSound DEF DaemonIInv, AppClears
  <2>2. FlagsOK'
    BY <1>3 DEF DaemonIInv, FlagsOK, AppClears
  <2> QED
    BY <1>3, <2>1, <2>2, QuietStepSound DEF AppClears
<1> QED
  BY <1>1, <1>2, <1>3, LoneClipsAreOK

LEMMA WatcherSound ==
  ASSUME DaemonIInv, Watcher
  PROVE  DaemonIInv'
<1>1. ClipboardSound'
  BY OnSelectionSound, OnCancelledSound, ReadDoneSound DEF DaemonIInv, Watcher, WatcherStep
<1>2. FlagsOK'
  BY DEF DaemonIInv, FlagsOK, Watcher, daemonVars
<1> QED
  BY <1>1, <1>2, QuietStepSound DEF Watcher, daemonVars

LEMMA TakeClipboardSound ==
  ASSUME DaemonIInv, TakeClipboard
  PROVE  DaemonIInv'
<1>1. ClipboardSound'
  BY TakeSelectionSound DEF DaemonIInv, TakeClipboard
<1>2. FlagsOK'
  BY DEF DaemonIInv, FlagsOK, TakeClipboard
<1> QED
  BY <1>1, <1>2, QuietStepSound DEF TakeClipboard

LEMMA DaemonNextSound == DaemonIInv /\ [DaemonNext]_allVars => DaemonIInv'
<1> SUFFICES ASSUME DaemonIInv, [DaemonNext]_allVars PROVE DaemonIInv'
  OBVIOUS
<1>1. CASE \/ \E sel \in Captures : AppCopies(sel) \/ AppSelects({Clip({}, sel)})
           \/ AppClears \/ AppSelects({})
  BY <1>1, AppStepSound
<1>2. CASE Watcher \/ TakeClipboard
  BY <1>2, WatcherSound, TakeClipboardSound
<1>3. CASE Capture \/ IgnoreCopy \/ RecordCopy \/ LoseSelection
  BY <1>3, CaptureSound, IgnoreCopySound, RecordCopySound, LoseSelectionSound
<1>4. ASSUME NEW call \in Calls,
             \/ \E id \in EntryIds, at \in Stamps : ClockReads(at) /\ Copy(call, id, at)
             \/ \E id \in EntryIds : CopyRefused(call, id)
             \/ Mutate(call)
      PROVE  DaemonIInv'
  BY <1>4, CopySound, CopyRefusedSound, MutateSound
<1>5. CASE \E to \in BOOLEAN : SetPaused(to)
  BY <1>5, SetPausedSound
<1>6. CASE (\E task \in Tasks : Announce(task)) \/ List
  BY <1>6, AnnounceSound, ListSound
<1>7. CASE Start \/ Watch
  BY <1>7, StartSound, WatchSound
<1>8. CASE Crash
  BY <1>8, DieSound, NoStoreKeeps DEF Crash, DaemonIInv
<1>9. ASSUME NEW at \in Stamps, SweepRetention(at) \/ SweepFails(at) PROVE DaemonIInv'
  BY <1>9, SweepRetentionSound, SweepKeeps, DieSound DEF SweepFails, DaemonIInv
<1>10. CASE UNCHANGED allVars
  <2>1. StoreOK' /\ entries' = entries /\ ClipboardSound'
    BY <1>10, UnchangedStoreKeeps, UnchangedSound DEF allVars, DaemonIInv
  <2>2. CacheOK' /\ TakenOK' /\ FlagsOK'
    BY <1>10, <2>1, CacheKept, TakenKept DEF allVars, daemonVars, DaemonIInv, FlagsOK
  <2> QED
    BY <2>1, <2>2 DEF DaemonIInv
<1> QED
  BY <1>1, <1>2, <1>3, <1>4, <1>5, <1>6, <1>7, <1>8, <1>9, <1>10 DEF DaemonNext

THEOREM DaemonInductive == DaemonSpec => []DaemonIInv
BY DaemonInitSound, DaemonNextSound, PTL DEF DaemonSpec

(* The cache is the history whenever the daemon answers (reload under the  *)
(* lock after every committed change, state.rs and daemon.rs commit), and  *)
(* every queue, guard and flag keeps its type, through every interleaving, *)
(* crash and restart.                                                      *)
THEOREM DaemonSound == DaemonSpec => []DaemonIsSound
BY DaemonInductive, DaemonIInvImplies, PTL

(* What the store promises of identities and of secrets it promises under  *)
(* the daemon too: nothing the watcher can hand over, a clip cut short or  *)
(* read in part or a copy-back of clippo's own included, breaks it.        *)
THEOREM DaemonKeepsStore == DaemonSpec => [](IdentityHolds /\ SecretsAreMasked)
<1>1. DaemonIInv => IdentityHolds /\ SecretsAreMasked
  BY IInvImplies DEF DaemonIInv, StoreOK, IdentityHolds, SecretsAreMasked
<1> QED
  BY <1>1, DaemonInductive, PTL

(* No change is left unannounced: whoever commits it, a frontend whose     *)
(* list it makes stale has been signalled or is about to be.               *)
THEOREM StaleAnnounced == DaemonSpec => []StaleListIsAnnounced
<1>1. DaemonInit => StaleListIsAnnounced
  BY DEF DaemonInit, StaleListIsAnnounced
<1>2. StaleListIsAnnounced /\ [DaemonNext]_allVars => StaleListIsAnnounced'
  <2> SUFFICES ASSUME StaleListIsAnnounced, [DaemonNext]_allVars
               PROVE  StaleListIsAnnounced'
    OBVIOUS
  <2>1. ASSUME (stale' => signalled') \/ UNCHANGED <<stale, signalled, announcing>>
        PROVE  StaleListIsAnnounced'
    BY <2>1 DEF StaleListIsAnnounced
  <2>2. ASSUME NEW task, Commit(task), signalled' = signalled
        PROVE  StaleListIsAnnounced'
    BY <2>2 DEF StaleListIsAnnounced, Commit, Reload
  <2>3. ASSUME \/ \E sel \in Captures : AppCopies(sel) \/ AppSelects({Clip({}, sel)})
               \/ AppClears \/ AppSelects({}) \/ Watcher \/ TakeClipboard
        PROVE  StaleListIsAnnounced'
    BY <2>1, <2>3 DEF AppCopies, AppSelects, AppClears, Watcher, TakeClipboard, daemonVars
  <2>4. ASSUME Capture \/ IgnoreCopy \/ LoseSelection PROVE StaleListIsAnnounced'
    BY <2>1, <2>4 DEF Capture, IgnoreCopy, LoseSelection
  <2>5. ASSUME RecordCopy PROVE StaleListIsAnnounced'
    BY <2>1, <2>2, <2>5 DEF RecordCopy
  <2>6. ASSUME NEW call, NEW id, NEW at, Copy(call, id, at) \/ CopyRefused(call, id) \/ Mutate(call)
        PROVE  StaleListIsAnnounced'
    BY <2>1, <2>2, <2>6 DEF Copy, CopyRefused, Mutate
  <2>7. ASSUME NEW to, SetPaused(to) PROVE StaleListIsAnnounced'
    BY <2>1, <2>7 DEF SetPaused
  <2>8. ASSUME (\E task \in Tasks : Announce(task)) \/ List \/ Start \/ Watch \/ Crash
        PROVE  StaleListIsAnnounced'
    BY <2>1, <2>8 DEF Announce, List, Start, Watch, Crash, Die
  <2>9. ASSUME NEW at, SweepRetention(at) \/ SweepFails(at) PROVE StaleListIsAnnounced'
    BY <2>1, <2>2, <2>9 DEF SweepRetention, SweepFails, Die
  <2>10. ASSUME NEW call,
                \/ \E id \in EntryIds, at \in Stamps : ClockReads(at) /\ Copy(call, id, at)
                \/ \E id \in EntryIds : CopyRefused(call, id)
                \/ Mutate(call)
         PROVE  StaleListIsAnnounced'
    BY <2>6, <2>10
  <2>11. ASSUME UNCHANGED allVars PROVE StaleListIsAnnounced'
    BY <2>1, <2>11 DEF allVars, daemonVars
  <2> QED
    BY <2>3, <2>4, <2>5, <2>7, <2>8, <2>9, <2>10, <2>11 DEF DaemonNext
<1> QED
  BY <1>1, <1>2, PTL DEF DaemonSpec

-----------------------------------------------------------------------------
(* The self-echo guard.  What the watcher is told of the clipboard is in    *)
(* order: the last selection on its way is what the clipboard holds, and    *)
(* when none is on its way, what is being read is what it holds.  So while  *)
(* the guard is armed its copy-back is in one place after another: the last *)
(* command, the clipboard and what the watcher is told of it, the events,   *)
(* the capture task's hands; or another took the clipboard, which is told.  *)

SelectionsIn(w) == {k \in 1..Len(w) : w[k].type = "selection"}
Latest(w, clips) == \E k \in SelectionsIn(w) :
                      w[k].clips = clips /\ \A j \in SelectionsIn(w) : j <= k
HasCancelled(w) == \E k \in 1..Len(w) : w[k].type = "cancelled"

IsCurrent == \/ Latest(wire, clipboard)
             \/ SelectionsIn(wire) = {} /\ reading \subseteq clipboard

EchoAhead == \E c \in clipboard :
               /\ armed \in c.own
               /\ \/ Latest(wire, clipboard)
                  \/ SelectionsIn(wire) = {} /\ c \in reading
EchoRead  == \E k \in 1..Len(events) : events[k].type = "captured" /\ armed \in events[k].clip.own
EchoTaken == \E copy \in taken : armed \in copy.own
LossRead  == \E k \in 1..Len(events) : events[k].type = "lost"

CommandSel(fs) == [flavors |-> fs, hinted |-> FALSE]

Cancelling == \E k \in 1..Len(wire) : wire[k].type = "cancelled"

Coming == EchoAhead \/ Cancelling \/ EchoRead \/ LossRead \/ EchoTaken

Awaited ==
  IF commands # << >>
  THEN armed \in HashOf(CommandSel(commands[Len(commands)]))
  ELSE Coming

IsQuiet ==
  /\ wire = << >> /\ reading = {} /\ events = << >> /\ commands = << >>
  /\ taken = {} /\ armed = NoHash

Guarded ==
  /\ phase # "up" => IsQuiet
  /\ IsCurrent
  /\ armed # NoHash => Awaited

(* What is appended to the connection is last, and what is taken from it   *)
(* was last only when nothing follows.                                     *)
LEMMA AppendedIsLatest ==
  ASSUME NEW w, IsQueue(w), NEW clips
  PROVE  Latest(Append(w, Selected(clips)), clips)
<1> DEFINE v == Append(w, Selected(clips))
           n == Len(w) + 1
<1>1. n \in 1..Len(v) /\ Len(v) = n /\ v[n] = Selected(clips) /\ n \in Nat
  BY Appended
<1> HIDE DEF v, n
<1>2. n \in SelectionsIn(v) /\ v[n].clips = clips /\ \A j \in SelectionsIn(v) : j <= n
  BY <1>1 DEF SelectionsIn, Selected
<1> QED
  BY <1>2 DEF Latest, v

LEMMA CancelledIsKept ==
  ASSUME NEW w, IsQueue(w), NEW e, HasCancelled(w) \/ e.type = "cancelled"
  PROVE  HasCancelled(Append(w, e))
BY Appended DEF HasCancelled

LEMMA HeadIsLatest ==
  ASSUME NEW w, IsQueue(w), w # << >>, NEW clips, Latest(w, clips)
  PROVE  \/ Latest(Tail(w), clips)
         \/ /\ SelectionsIn(Tail(w)) = {}
            /\ Head(w).type = "selection" /\ Head(w).clips = clips
<1>1. PICK k \in SelectionsIn(w) : w[k].clips = clips /\ \A j \in SelectionsIn(w) : j <= k
  BY DEF Latest
<1> DEFINE v == Tail(w)
<1>2. /\ Len(w) \in Nat \ {0} /\ Len(v) = Len(w) - 1 /\ Head(w) = w[1]
      /\ \A j \in 1..Len(v) : j + 1 \in 1..Len(w) /\ v[j] = w[j + 1]
  BY Dequeued
<1> HIDE DEF v
<1>3. \A j \in SelectionsIn(v) : j + 1 \in SelectionsIn(w) /\ j \in Nat \ {0}
  BY <1>2 DEF SelectionsIn
<1>4. CASE k = 1
  <2>1. ASSUME NEW j \in SelectionsIn(v) PROVE FALSE
    <3>1. j + 1 <= 1 /\ j \in Nat \ {0}
      BY <1>1, <1>3, <1>4
    <3> QED
      BY <3>1
  <2> QED
    BY <1>1, <1>2, <1>4, <2>1 DEF SelectionsIn, v
<1>5. CASE k # 1
  <2>1. k - 1 \in SelectionsIn(v) /\ v[k - 1] = w[k]
    <3>1. k \in 1..Len(w) /\ w[k].type = "selection"
      BY DEF SelectionsIn
    <3>2. k - 1 \in 1..Len(v) /\ (k - 1) + 1 = k
      BY <1>2, <1>5, <3>1
    <3> QED
      BY <1>2, <3>1, <3>2 DEF SelectionsIn
  <2>2. \A j \in SelectionsIn(v) : j <= k - 1
    BY <1>1, <1>3 DEF SelectionsIn
  <2> QED
    BY <1>1, <2>1, <2>2 DEF Latest, v
<1> QED
  BY <1>4, <1>5

LEMMA NoneFollows ==
  ASSUME NEW w, IsQueue(w), w # << >>, SelectionsIn(w) = {}
  PROVE  SelectionsIn(Tail(w)) = {}
BY Dequeued DEF SelectionsIn

LEMMA LatestIsOne ==
  ASSUME NEW w, NEW clips, Latest(w, clips)
  PROVE  SelectionsIn(w) # {}
BY DEF Latest

LEMMA CancelledFollows ==
  ASSUME NEW w, IsQueue(w), w # << >>, HasCancelled(w)
  PROVE  Head(w).type = "cancelled" \/ HasCancelled(Tail(w))
<1>1. PICK k \in 1..Len(w) : w[k].type = "cancelled"
  BY DEF HasCancelled
<1>2. /\ Len(w) \in Nat \ {0} /\ Len(Tail(w)) = Len(w) - 1 /\ Head(w) = w[1]
      /\ \A j \in 1..Len(Tail(w)) : Tail(w)[j] = w[j + 1]
  BY Dequeued
<1>3. CASE k = 1
  BY <1>1, <1>2, <1>3
<1>4. CASE k # 1
  <2>1. k - 1 \in 1..Len(Tail(w)) /\ (k - 1) + 1 = k
    BY <1>2, <1>4
  <2>2. Tail(w)[k - 1].type = "cancelled"
    BY <1>1, <1>2, <2>1
  <2> QED
    BY <2>1, <2>2 DEF HasCancelled
<1> QED
  BY <1>3, <1>4

(* The places of a clip that travels.                                      *)
LEMMA TravellingFrom ==
  /\ \A k \in DOMAIN wire : wire[k].type = "selection" => wire[k].clips \subseteq Travelling
  /\ reading \subseteq Travelling
  /\ \A k \in DOMAIN events : events[k].type = "captured" => events[k].clip \in Travelling
  /\ \A copy \in taken :
       Clip(copy.own, [flavors |-> copy.new.flavors, hinted |-> FALSE]) \in Travelling
<1> DEFINE told  == UNION {wire[k].clips : k \in {n \in DOMAIN wire : wire[n].type = "selection"}}
           read  == {events[k].clip : k \in {n \in DOMAIN events : events[n].type = "captured"}}
           ClipOf(copy) == Clip(copy.own, [flavors |-> copy.new.flavors, hinted |-> FALSE])
           held  == {ClipOf(copy) : copy \in taken}
<1>1. Travelling = told \cup reading \cup read \cup held
  BY DEF Travelling
<1>2. \A k \in DOMAIN wire : wire[k].type = "selection" => wire[k].clips \subseteq told
  OBVIOUS
<1>3. \A k \in DOMAIN events : events[k].type = "captured" => events[k].clip \in read
  OBVIOUS
<1>4. \A copy \in taken : ClipOf(copy) \in held
  <2> HIDE DEF ClipOf
  <2> QED
    OBVIOUS
<1> HIDE DEF told, read, held
<1> QED
  BY <1>1, <1>2, <1>3, <1>4

(* A guarded state in which the guard is armed says so in the property.    *)
LEMMA GuardedAwaitsEcho ==
  ASSUME DaemonIInv, Guarded
  PROVE  GuardAwaitsEcho
<1> SUFFICES ASSUME armed # NoHash
             PROVE  Offered(armed) \/ CopyBackComes(armed) \/ LossOnItsWay
  BY DEF GuardAwaitsEcho
<1>0. /\ DOMAIN wire = 1..Len(wire) /\ DOMAIN events = 1..Len(events)
      /\ DOMAIN commands = 1..Len(commands) /\ Len(commands) \in Nat
  BY Appended DEF DaemonIInv, ClipboardSound, WireOK, IsWire, EventsOK, CommandsOK
<1>1. CASE commands # << >>
  <2>1. Len(commands) \in DOMAIN commands
    BY <1>0, <1>1, Dequeued DEF DaemonIInv, ClipboardSound, CommandsOK
  <2> QED
    BY <1>1, <2>1 DEF Guarded, Awaited, CommandSel, Offered
<1>2. CASE commands = << >>
  <2>1. CASE EchoAhead
    <3>1. PICK c \in clipboard :
            armed \in c.own /\ (Latest(wire, clipboard) \/ c \in reading)
      BY <2>1 DEF EchoAhead
    <3>2. CASE c \in reading
      BY <3>1, <3>2, TravellingFrom DEF CopyBackComes
    <3>3. CASE Latest(wire, clipboard)
      <4>1. PICK k \in SelectionsIn(wire) : wire[k].clips = clipboard
        BY <3>3 DEF Latest
      <4>2. c \in Travelling
        BY <1>0, <4>1, TravellingFrom DEF SelectionsIn
      <4> QED
        BY <3>1, <4>2 DEF CopyBackComes
    <3> QED
      BY <3>1, <3>2, <3>3
  <2>2. CASE EchoRead
    <3>1. PICK k \in 1..Len(events) : events[k].type = "captured" /\ armed \in events[k].clip.own
      BY <2>2 DEF EchoRead
    <3>2. events[k].clip \in Travelling
      BY <1>0, <3>1, TravellingFrom
    <3> QED
      BY <3>1, <3>2 DEF CopyBackComes
  <2>3. CASE EchoTaken
    <3>1. PICK copy \in taken : armed \in copy.own
      BY <2>3 DEF EchoTaken
    <3>2. Clip(copy.own, [flavors |-> copy.new.flavors, hinted |-> FALSE]) \in Travelling
      BY TravellingFrom
    <3> QED
      BY <3>1, <3>2 DEF CopyBackComes, Clip
  <2>4. CASE Cancelling \/ LossRead
    BY <1>0, <2>4 DEF Cancelling, LossRead, LossOnItsWay
  <2> QED
    BY <1>2, <2>1, <2>2, <2>3, <2>4 DEF Guarded, Awaited, Coming
<1> QED
  BY <1>1, <1>2

-----------------------------------------------------------------------------
(* The steps that keep the guard's bargain, when no read loses a flavor, no *)
(* event is dropped, and only the clipboard is watched.                     *)

LEMMA GuardParts ==
  ASSUME DaemonIInv
  PROVE  /\ IsQueue(wire) /\ IsQueue(events) /\ IsQueue(commands)
         /\ IsLone(clipboard) /\ IsLone(reading)
BY DEF DaemonIInv, ClipboardSound, WireOK, IsWire, EventsOK, CommandsOK, HolderOK

LEMMA AwaitedStays ==
  ASSUME Guarded, armed' = armed, commands' = commands, Coming => Coming'
  PROVE  armed' # NoHash => Awaited'
<1>1. CASE commands = << >>
  BY <1>1 DEF Guarded, Awaited
<1>2. CASE commands # << >>
  BY <1>2 DEF Guarded, Awaited
<1> QED
  BY <1>1, <1>2

LEMMA OthersTakeGuarded ==
  ASSUME DaemonIInv, Guarded, NEW clips, OthersTake(clips, phase = "up"),
         UNCHANGED <<phase, armed, taken>>
  PROVE  Guarded'
<1>1. CASE phase # "up"
  <2>1. IsQuiet' /\ wire' = << >> /\ reading' = {}
    BY <1>1, OthersTakeWire DEF Guarded, IsQuiet, OthersTake, DaemonIInv
  <2>2. SelectionsIn(<< >>) = {}
    BY EmptyQueue DEF SelectionsIn
  <2> QED
    BY <2>1, <2>2 DEF Guarded, IsCurrent, IsQuiet
<1>2. CASE phase = "up"
  <2> DEFINE w == IF Owned THEN Append(wire, Cancelled) ELSE wire
  <2>1. wire' = Append(w, Selected(clips))
    BY <1>2, OthersTakeWire DEF DaemonIInv
  <2>2. IsQueue(w)
    BY GuardParts, Appended
  <2>3. Latest(wire', clipboard')
    BY <2>1, <2>2, AppendedIsLatest DEF OthersTake
  <2>4. Cancelling \/ Owned => Cancelling'
    <3>1. HasCancelled(wire) \/ Owned => HasCancelled(w)
      BY GuardParts, CancelledIsKept DEF Cancelled
    <3>2. HasCancelled(w) => HasCancelled(wire')
      BY <2>1, <2>2, CancelledIsKept
    <3> QED
      BY <3>1, <3>2 DEF Cancelling, HasCancelled
  <2>5. EchoAhead => Owned
    BY DEF EchoAhead, Owned, IsOwn
  <2>6. Coming => Coming'
    BY <2>4, <2>5 DEF OthersTake, Coming, EchoRead, EchoTaken, LossRead
  <2>7. armed' # NoHash => Awaited'
    BY <2>6, AwaitedStays DEF OthersTake
  <2> QED
    BY <1>2, <2>3, <2>7 DEF Guarded, IsCurrent
<1> QED
  BY <1>1, <1>2

LEMMA OnSelectionGuarded ==
  ASSUME DaemonIInv, Guarded, OnSelection, UNCHANGED <<phase, armed, taken>>
  PROVE  Guarded'
<1>1. phase = "up" /\ IsQueue(wire) /\ wire # << >> /\ Head(wire).type = "selection"
  BY GuardParts DEF Guarded, IsQuiet, OnSelection
<1>2. Latest(wire, clipboard)
  <2>1. 1 \in SelectionsIn(wire)
    BY <1>1, Dequeued DEF SelectionsIn
  <2> QED
    BY <2>1 DEF Guarded, IsCurrent
<1>0. Cancelling => Cancelling'
  BY <1>1, CancelledFollows DEF OnSelection, Cancelling, HasCancelled
<1>3. CASE Latest(Tail(wire), clipboard)
  <2>1. IsCurrent'
    BY <1>3 DEF IsCurrent, OnSelection
  <2>2. Coming => Coming'
    BY <1>0, <1>3 DEF OnSelection, Coming, EchoAhead, EchoRead, EchoTaken, LossRead
  <2> QED
    BY <1>1, <2>1, <2>2, AwaitedStays DEF Guarded, OnSelection
<1>4. CASE SelectionsIn(Tail(wire)) = {} /\ Head(wire).clips = clipboard
  <2>1. reading' = clipboard
    <3>1. CASE Head(wire).clips = {} /\ reading' = {}
      BY <1>4, <3>1
    <3>2. ASSUME NEW clip \in Head(wire).clips, NEW served \in Served(clip), reading' = {served}
          PROVE  reading' = clipboard
      <4>1. clip \in clipboard /\ served = clip
        BY <1>4, <3>2 DEF Served
      <4> QED
        BY <3>2, <4>1, GuardParts DEF IsLone
    <3> QED
      BY <3>1, <3>2 DEF OnSelection
  <2>2. EchoAhead => EchoAhead'
    BY <1>4, <2>1 DEF OnSelection, EchoAhead
  <2>3. Coming => Coming'
    BY <1>0, <2>2 DEF OnSelection, Coming, EchoRead, EchoTaken, LossRead
  <2>4. IsCurrent'
    BY <1>4, <2>1 DEF IsCurrent, OnSelection
  <2> QED
    BY <1>1, <2>3, <2>4, AwaitedStays DEF Guarded, OnSelection
<1> QED
  BY <1>1, <1>2, <1>3, <1>4, HeadIsLatest

LEMMA EventsKeptAsTheyGrow ==
  ASSUME IsQueue(events), NEW e, events' = Append(events, e), armed' = armed
  PROVE  /\ (EchoRead => EchoRead') /\ (LossRead => LossRead')
         /\ e.type = "lost" => LossRead'
         /\ e.type = "captured" /\ armed \in e.clip.own => EchoRead'
<1>1. /\ Len(events) \in Nat /\ Len(events') = Len(events) + 1
      /\ \A k \in 1..Len(events) : events'[k] = events[k]
      /\ events'[Len(events) + 1] = e
  BY Appended
<1>2. (\A k \in 1..Len(events) : k \in 1..Len(events')) /\ Len(events) + 1 \in 1..Len(events')
  BY <1>1
<1> QED
  BY <1>1, <1>2 DEF EchoRead, LossRead

LEMMA OnCancelledGuarded ==
  ASSUME DaemonIInv, Guarded, ~Lossy, OnCancelled, UNCHANGED <<phase, armed, taken>>
  PROVE  Guarded'
<1>1. phase = "up" /\ IsQueue(wire) /\ wire # << >> /\ Head(wire).type # "selection"
  BY GuardParts DEF Guarded, IsQuiet, OnCancelled
<1>2. /\ Latest(wire, clipboard) => Latest(Tail(wire), clipboard)
      /\ SelectionsIn(wire) = {} => SelectionsIn(Tail(wire)) = {}
  BY <1>1, HeadIsLatest, NoneFollows
<1>3. wire' = Tail(wire) /\ clipboard' = clipboard /\ reading' = reading /\ commands' = commands
  BY DEF OnCancelled
<1>4. IsCurrent'
  BY <1>2, <1>3 DEF Guarded, IsCurrent
<1>5. EchoAhead => EchoAhead'
  BY <1>2, <1>3 DEF EchoAhead
<1>6. /\ (EchoRead => EchoRead') /\ (LossRead => LossRead')
      /\ Head(wire).type = "cancelled" => LossRead'
  <2>1. CASE Head(wire).type = "cancelled" /\ Emit(SelectionLost)
    <3>1. events' = Append(events, SelectionLost)
      BY <2>1 DEF Emit
    <3> QED
      BY <3>1, GuardParts, EventsKeptAsTheyGrow DEF SelectionLost
  <2>2. CASE Head(wire).type = "superseded" /\ UNCHANGED events
    BY <2>2 DEF EchoRead, LossRead
  <2> QED
    BY <2>1, <2>2 DEF OnCancelled
<1>7. Cancelling => LossRead' \/ Cancelling'
  BY <1>1, <1>3, <1>6, CancelledFollows DEF Cancelling, HasCancelled
<1>8. EchoTaken => EchoTaken'
  BY DEF EchoTaken
<1>9. ASSUME Coming PROVE Coming'
  <2>1. CASE EchoAhead
    BY <1>5, <2>1 DEF Coming
  <2>2. CASE Cancelling
    BY <1>7, <2>2 DEF Coming
  <2>3. CASE EchoRead \/ LossRead
    BY <1>6, <2>3 DEF Coming
  <2>4. CASE EchoTaken
    BY <1>8, <2>4 DEF Coming
  <2> QED
    BY <1>9, <2>1, <2>2, <2>3, <2>4 DEF Coming
<1> QED
  BY <1>1, <1>3, <1>4, <1>9, AwaitedStays DEF Guarded

LEMMA ReadDoneGuarded ==
  ASSUME DaemonIInv, Guarded, ~Lossy, ReadDone, UNCHANGED <<phase, armed, taken>>
  PROVE  Guarded'
<1>1. PICK clip \in reading : \E got \in Reads(clip) :
        /\ Emit(Captured(Clip(clip.own, got)))
        /\ reading' = {}
        /\ UNCHANGED <<clipboard, wire, commands>>
  BY DEF ReadDone
<1>2. PICK got \in Reads(clip) : Emit(Captured(Clip(clip.own, got)))
  BY <1>1
<1>3. phase = "up"
  BY <1>1 DEF Guarded, IsQuiet
<1>4. IsCurrent'
  BY <1>1 DEF Guarded, IsCurrent
<1> DEFINE e == Captured(Clip(clip.own, got))
<1>5. e.type = "captured" /\ e.clip.own = clip.own
  BY DEF Captured, Clip
<1>6. events' = Append(events, e)
  BY <1>2 DEF Emit
<1> HIDE DEF e
<1>7. /\ (EchoRead => EchoRead') /\ (LossRead => LossRead')
      /\ armed \in clip.own => EchoRead'
  BY <1>5, <1>6, GuardParts, EventsKeptAsTheyGrow
<1>8. EchoAhead => EchoAhead' \/ EchoRead'
  BY <1>1, <1>7, GuardParts DEF EchoAhead, IsLone
<1>9. (EchoTaken => EchoTaken') /\ (Cancelling => Cancelling')
  BY <1>1 DEF EchoTaken, Cancelling
<1>10. ASSUME Coming PROVE Coming'
  <2>1. CASE EchoAhead
    BY <1>8, <2>1 DEF Coming
  <2>2. CASE Cancelling \/ EchoTaken
    BY <1>9, <2>2 DEF Coming
  <2>3. CASE EchoRead \/ LossRead
    BY <1>7, <2>3 DEF Coming
  <2> QED
    BY <1>10, <2>1, <2>2, <2>3 DEF Coming
<1> QED
  BY <1>1, <1>3, <1>4, <1>10, AwaitedStays DEF Guarded

(* Whether the marker came with a selection is no part of its identity.    *)
LEMMA HashIgnoresHint ==
  ASSUME NEW fs, NEW a, NEW b
  PROVE  HashOf([flavors |-> fs, hinted |-> a]) = HashOf([flavors |-> fs, hinted |-> b])
<1> DEFINE S(h) == [flavors |-> fs, hinted |-> h]
<1>1. ASSUME NEW g, NEW h, NEW new \in NewEntries(S(g), 0)
      PROVE  \E other \in NewEntries(S(h), 0) : other.hash = new.hash
  <2>1. PICK k \in Kinds, c \in DOMAIN fs, p \in DOMAIN fs :
          /\ IsKindOf(k, fs) /\ IsCanonical(k, fs, c) /\ IsPreviewSource(k, fs, p)
          /\ new.hash = Identity(fs[c])
    BY DescribedAs
  <2> DEFINE other == [created_at |-> 0, kind |-> k, hash |-> Identity(fs[c]),
                       sensitive |-> IsSensitive(S(h)),
                       preview |-> [of |-> fs[p].data,
                                    masked |-> IsSensitive(S(h)) /\ k # "image"],
                       flavors |-> fs]
  <2>2. other \in NewEntries(S(h), 0)
    BY <2>1, DescribedAs
  <2> QED
    BY <2>1, <2>2
<1>2. ASSUME NEW g, NEW h, NEW x \in HashOf(S(g)) PROVE x \in HashOf(S(h))
  <2>1. PICK new \in NewEntries(S(g), 0) : x = new.hash
    BY DEF HashOf
  <2>2. PICK other \in NewEntries(S(h), 0) : other.hash = new.hash
    BY <1>1
  <2> HIDE DEF S
  <2> QED
    BY <2>1, <2>2 DEF HashOf
<1>3. HashOf(S(a)) \subseteq HashOf(S(b)) /\ HashOf(S(b)) \subseteq HashOf(S(a))
  <2> HIDE DEF S
  <2> QED
    BY <1>2
<1>4. HashOf(S(a)) = HashOf(S(b))
  <2> HIDE DEF S
  <2> QED
    BY <1>3
<1> QED
  BY <1>4

LEMMA LastOfTail ==
  ASSUME NEW w, IsQueue(w), w # << >>
  PROVE  /\ Tail(w) # << >> => Tail(w)[Len(Tail(w))] = w[Len(w)]
         /\ Tail(w) = << >> => Head(w) = w[Len(w)]
<1>1. /\ Len(w) \in Nat \ {0} /\ Len(Tail(w)) = Len(w) - 1 /\ Head(w) = w[1]
      /\ \A k \in 1..Len(Tail(w)) : Tail(w)[k] = w[k + 1]
      /\ IsQueue(Tail(w))
  BY Dequeued
<1>2. ASSUME Tail(w) # << >> PROVE Tail(w)[Len(Tail(w))] = w[Len(w)]
  <2>1. Len(Tail(w)) \in Nat \ {0}
    BY <1>1, <1>2, Dequeued
  <2> QED
    BY <1>1, <2>1
<1>3. ASSUME Tail(w) = << >> PROVE Head(w) = w[Len(w)]
  <2>1. Len(Tail(w)) = 0
    BY <1>3, EmptyQueue
  <2> QED
    BY <1>1, <2>1
<1> QED
  BY <1>2, <1>3

LEMMA TakeSelectionGuarded ==
  ASSUME DaemonIInv, Guarded, TakeSelection, UNCHANGED <<phase, armed, taken>>
  PROVE  Guarded'
<1> DEFINE fs   == Head(commands)
           hint == \E i \in DOMAIN fs : fs[i].mime = HintMime
           sel  == [flavors |-> fs, hinted |-> hint]
           clip == Clip(HashOf(sel), sel)
<1>1. phase = "up" /\ commands # << >>
  BY DEF Guarded, IsQuiet, TakeSelection
<1>2. clipboard' = {clip} /\ wire' = Append(Late(wire), Selected({clip})) /\ commands' = Tail(commands)
  BY DEF TakeSelection, Late
<1>3. clip.own = HashOf(CommandSel(fs))
  BY HashIgnoresHint DEF Clip, CommandSel
<1> HIDE DEF clip
<1>4. Latest(wire', clipboard')
  <2>1. IsQueue(Late(wire))
    BY LateIsWire DEF DaemonIInv, ClipboardSound, WireOK, IsWire
  <2> QED
    BY <1>2, <2>1, AppendedIsLatest
<1>5. ASSUME armed' # NoHash PROVE Awaited'
  <2>1. armed \in HashOf(CommandSel(commands[Len(commands)]))
    BY <1>1, <1>5 DEF Guarded, Awaited
  <2>2. CASE Tail(commands) # << >>
    BY <1>1, <1>2, <2>1, <2>2, GuardParts, LastOfTail DEF Awaited
  <2>3. CASE Tail(commands) = << >>
    <3>1. armed \in clip.own
      BY <1>1, <1>3, <2>1, <2>3, GuardParts, LastOfTail
    <3>2. EchoAhead'
      BY <1>2, <1>4, <3>1 DEF EchoAhead
    <3> QED
      BY <1>2, <2>3, <3>2 DEF Awaited, Coming
  <2> QED
    BY <2>2, <2>3
<1> QED
  BY <1>1, <1>4, <1>5 DEF Guarded, IsCurrent

LEMMA CaptureGuarded ==
  ASSUME DaemonIInv, Guarded, Droppable = {}, Capture
  PROVE  Guarded'
<1> DEFINE clip == Head(events).clip
<1>1. /\ phase = "up" /\ taken = {} /\ events # << >> /\ Head(events).type = "captured"
      /\ events' = Tail(events) /\ armed' = armed /\ phase' = phase
      /\ UNCHANGED <<clipboard, wire, reading, commands>>
  BY DEF Capture, CapturerIsFree, IsNext, Receive
<1>2. PICK at \in Stamps : taken' = {[own |-> clip.own, new |-> new] : new \in NewEntries(clip.sel, at)}
  BY DEF Capture
<1>3. ClipOK(clip)
  BY <1>1, ReceiveSound DEF DaemonIInv, Capture, EventOK
<1>4. armed \in clip.own => EchoTaken'
  <2> SUFFICES ASSUME armed \in clip.own PROVE EchoTaken'
    OBVIOUS
  <2>1. NewEntries(clip.sel, at) # {}
    BY <1>3, DescribableIsCaptured DEF ClipOK, IsClip, IsOwn
  <2>2. PICK new \in NewEntries(clip.sel, at) : TRUE
    BY <2>1
  <2>3. [own |-> clip.own, new |-> new] \in taken'
    BY <1>2
  <2> QED
    BY <1>1, <2>3 DEF EchoTaken
<1>5. /\ Len(events) \in Nat \ {0} /\ Len(events') = Len(events) - 1 /\ Head(events) = events[1]
      /\ \A k \in 1..Len(events') : events'[k] = events[k + 1]
  BY <1>1, GuardParts, Dequeued
<1>6. \A k \in 1..Len(events) : k # 1 => k - 1 \in 1..Len(events') /\ events'[k - 1] = events[k]
  <2> SUFFICES ASSUME NEW k \in 1..Len(events), k # 1
               PROVE  k - 1 \in 1..Len(events') /\ events'[k - 1] = events[k]
    OBVIOUS
  <2>1. k - 1 \in 1..Len(events') /\ (k - 1) + 1 = k
    BY <1>5
  <2> QED
    BY <1>5, <2>1
<1>7. EchoRead => EchoRead' \/ EchoTaken'
  <2> SUFFICES ASSUME EchoRead PROVE EchoRead' \/ EchoTaken'
    OBVIOUS
  <2>1. PICK k \in 1..Len(events) : events[k].type = "captured" /\ armed \in events[k].clip.own
    BY DEF EchoRead
  <2>2. CASE k = 1
    BY <1>4, <1>5, <2>1, <2>2
  <2>3. CASE k # 1
    BY <1>1, <1>6, <2>1, <2>3 DEF EchoRead
  <2> QED
    BY <2>2, <2>3
<1>8. LossRead => LossRead'
  <2> SUFFICES ASSUME LossRead PROVE LossRead'
    OBVIOUS
  <2>1. PICK k \in 1..Len(events) : events[k].type = "lost"
    BY DEF LossRead
  <2>2. k # 1
    BY <1>1, <1>5, <2>1
  <2> QED
    BY <1>6, <2>1, <2>2 DEF LossRead
<1>9. Coming => Coming'
  BY <1>1, <1>7, <1>8 DEF Coming, Cancelling, EchoTaken, EchoAhead
<1>10. IsCurrent'
  BY <1>1 DEF Guarded, IsCurrent
<1> QED
  BY <1>1, <1>9, <1>10, AwaitedStays DEF Guarded

(* What Copy offers has the identity of the row it is of.                  *)
LEMMA OfferedIdentity ==
  ASSUME StoreOK, NEW id \in DOMAIN entries
  PROVE  entries[id].hash \in HashOf(CommandSel(Offerable(flavors[id])))
<1> DEFINE fs  == flavors[id]
           k   == entries[id].kind
           gs  == Offerable(fs)
           sel == CommandSel(gs)
<1>1. PICK c \in DOMAIN fs : IsCanonical(k, fs, c) /\ Identity(fs[c]) = entries[id].hash
  BY DEF StoreOK, IInv, AreSound, IsSound
<1>2. IsOfItsFlavors(k, fs)
  BY DEF StoreOK, RowsAreOfTheirFlavors
<1>3. fs[c].mime # ThumbMime /\ FromMime(fs[c].mime) = k
  BY <1>1 DEF IsCanonical, Rank
<1>4. IsCanonical(k, gs, c)
  BY <1>1, <1>3, CanonicalSurvives DEF Offerable
<1>5. /\ DOMAIN gs \subseteq DOMAIN fs /\ c \in DOMAIN gs
      /\ \A i \in DOMAIN gs : gs[i] = fs[i]
  BY <1>1, <1>3 DEF Offerable, Restrict
<1>6. IsSelection(sel)
  BY OfferableIsCommand, OfferedIsClip DEF StoreOK, CommandSel
<1> HIDE DEF gs, fs, k
<1>7. IsKindOf(k, gs)
  BY <1>2, <1>3, <1>5 DEF IsOfItsFlavors, IsKindOf
<1>8. k \in Kinds
  BY <1>7 DEF IsKindOf
<1>9. sel.flavors = gs
  BY DEF CommandSel
<1> HIDE DEF sel
<1>10. PICK new \in NewEntries(sel, 0) : new.hash = Identity(gs[c])
  BY <1>4, <1>6, <1>7, <1>8, <1>9, CapturedAs
<1>11. entries[id].hash \in HashOf(sel)
  BY <1>1, <1>5, <1>10 DEF HashOf
<1> QED
  BY <1>11 DEF sel, gs, fs

LEMMA CopyGuarded ==
  ASSUME DaemonIInv, Guarded, NEW call, NEW id, NEW at, Copy(call, id, at)
  PROVE  Guarded'
<1> DEFINE fs == Offerable(flavors[id])
<1>1. /\ phase = "up" /\ phase' = phase /\ armed' = entries[id].hash /\ id \in DOMAIN entries
      /\ UNCHANGED <<clipboard, wire, reading>>
      /\ commands' = Append(commands, fs)
  BY DEF Copy, Touch, Offer
<1>2. armed' \in HashOf(CommandSel(fs))
  BY <1>1, OfferedIdentity DEF DaemonIInv
<1> HIDE DEF fs
<1>3. /\ Len(commands') = Len(commands) + 1 /\ Len(commands) \in Nat
      /\ commands'[Len(commands')] = fs
  BY <1>1, GuardParts, Appended
<1>4. commands' # << >>
  BY <1>3, EmptyQueue
<1>5. Awaited'
  BY <1>2, <1>3, <1>4 DEF Awaited
<1> QED
  BY <1>1, <1>5 DEF Guarded, IsCurrent

(* A step the guard has no part in, and one that spends or clears it.      *)
LEMMA QuietStepGuarded ==
  ASSUME Guarded, UNCHANGED <<clipboardVars, armed, taken>>,
         phase' = phase \/ phase # "up"
  PROVE  Guarded'
<1>1. IsCurrent'
  BY DEF clipboardVars, Guarded, IsCurrent
<1>2. IsQuiet => IsQuiet'
  BY DEF clipboardVars, IsQuiet
<1>3. Coming => Coming'
  BY DEF clipboardVars, Coming, EchoAhead, Cancelling, EchoRead, LossRead, EchoTaken
<1> QED
  BY <1>1, <1>2, <1>3, AwaitedStays DEF clipboardVars, Guarded

LEMMA ClearingStepGuarded ==
  ASSUME Guarded, armed' = NoHash, phase = "up", phase' = phase,
         UNCHANGED <<clipboard, wire, reading>>
  PROVE  Guarded'
BY DEF Guarded, IsCurrent

LEMMA WatchGuarded ==
  ASSUME DaemonIInv, Guarded, Watch
  PROVE  Guarded'
<1>1. armed' = NoHash /\ phase' = "up" /\ clipboard' = clipboard /\ wire' = <<Selected(clipboard)>>
  BY DEF Watch, StartWatching, Guarded, IsQuiet
<1>2. <<Selected(clipboard)>> = Append(<< >>, Selected(clipboard))
  <2> DEFINE e == Selected(clipboard)
  <2> HIDE DEF e
  <2>1. Append(<< >>, e) = <<e>>
    OBVIOUS
  <2> QED
    BY <2>1 DEF e
<1>3. Latest(wire', clipboard')
  BY <1>1, <1>2, EmptyQueue, AppendedIsLatest
<1> QED
  BY <1>1, <1>3 DEF Guarded, IsCurrent

LEMMA EmptyIsCurrent == wire = << >> /\ reading = {} => IsCurrent
BY EmptyQueue DEF IsCurrent, SelectionsIn

LEMMA DieGuarded ==
  ASSUME Die
  PROVE  Guarded'
<1>1. IsQuiet' /\ armed' = NoHash /\ wire' = << >> /\ reading' = {}
  BY DEF Die, WatcherDies, IsQuiet
<1>2. SelectionsIn(<< >>) = {}
  BY EmptyQueue DEF SelectionsIn
<1> QED
  BY <1>1, <1>2 DEF Guarded, IsCurrent

(* No flavor is lost when a selection is read, no event is dropped, and    *)
(* the primary selection is not captured.                                  *)
Faultless == Droppable = {} /\ ~Lossy /\ ~Primary

LEMMA DaemonInitGuarded == DaemonInit => Guarded
BY EmptyIsCurrent DEF DaemonInit, ClipboardInit, Guarded, IsQuiet

LEMMA DaemonNextGuarded ==
  DaemonIInv /\ (Faultless => Guarded) /\ [DaemonNext]_allVars => (Faultless => Guarded')
<1> SUFFICES ASSUME DaemonIInv, Guarded, [DaemonNext]_allVars,
                    Droppable = {}, ~Lossy, ~Primary
             PROVE  Guarded'
  BY DEF Faultless
<1>1. ASSUME NEW clips, AppSelects(clips) PROVE FALSE
  BY <1>1 DEF AppSelects, PrimaryChanges
<1>2. ASSUME NEW sel, AppCopies(sel) PROVE Guarded'
  BY <1>2, OthersTakeGuarded DEF AppCopies
<1>3. ASSUME AppClears PROVE Guarded'
  BY <1>3, OthersTakeGuarded DEF AppClears
<1>4. ASSUME Watcher PROVE Guarded'
  BY <1>4, OnSelectionGuarded, OnCancelledGuarded, ReadDoneGuarded
  DEF Watcher, WatcherStep, daemonVars
<1>5. ASSUME TakeClipboard PROVE Guarded'
  BY <1>5, TakeSelectionGuarded DEF TakeClipboard
<1>6. ASSUME Capture PROVE Guarded'
  BY <1>6, CaptureGuarded
<1>7. ASSUME IgnoreCopy \/ RecordCopy \/ LoseSelection PROVE Guarded'
  <2>1. phase = "up"
    BY <1>7 DEF IgnoreCopy, RecordCopy, LoseSelection, CapturerIsFree, Guarded, IsQuiet
  <2> QED
    BY <1>7, <2>1, ClearingStepGuarded
    DEF IgnoreCopy, RecordCopy, LoseSelection, Receive, clipboardVars
<1>8. ASSUME NEW call,
             \/ \E id \in EntryIds, at \in Stamps : ClockReads(at) /\ Copy(call, id, at)
             \/ \E id \in EntryIds : CopyRefused(call, id)
             \/ Mutate(call)
      PROVE  Guarded'
  <2>1. ASSUME NEW id, CopyRefused(call, id) PROVE Guarded'
    BY <2>1, ClearingStepGuarded DEF CopyRefused, clipboardVars
  <2>2. ASSUME Mutate(call) PROVE Guarded'
    BY <2>2, QuietStepGuarded DEF Mutate
  <2> QED
    BY <1>8, <2>1, <2>2, CopyGuarded
<1>9. ASSUME NEW to, SetPaused(to) PROVE Guarded'
  BY <1>9, QuietStepGuarded DEF SetPaused
<1>10. ASSUME NEW task, Announce(task) PROVE Guarded'
  BY <1>10, QuietStepGuarded DEF Announce
<1>11. ASSUME List \/ Start PROVE Guarded'
  BY <1>11, QuietStepGuarded DEF List, Start
<1>12. ASSUME Watch PROVE Guarded'
  BY <1>12, WatchGuarded
<1>13. ASSUME Crash PROVE Guarded'
  BY <1>13, DieGuarded DEF Crash
<1>14. ASSUME NEW at, SweepRetention(at) \/ SweepFails(at) PROVE Guarded'
  BY <1>14, QuietStepGuarded, DieGuarded DEF SweepRetention, SweepFails
<1>15. ASSUME UNCHANGED allVars PROVE Guarded'
  BY <1>15, QuietStepGuarded DEF allVars, daemonVars
<1> QED
  BY <1>1, <1>2, <1>3, <1>4, <1>5, <1>6, <1>7, <1>8, <1>9, <1>10, <1>11, <1>12, <1>13,
     <1>14, <1>15 DEF DaemonNext

(* The self-echo guard is never armed for nothing: through every           *)
(* interleaving of copies, copy-backs, cancellations, crashes and restarts *)
(* an armed guard's copy-back, or the news that there will be none, is     *)
(* still on its way (echo.rs, watch.rs), so long as no read loses a flavor *)
(* of what clippo itself offered and no event is dropped.                  *)
THEOREM GuardIsAwaited == DaemonSpec => [](Faultless => GuardAwaitsEcho)
<1>1. DaemonInit => (Faultless => Guarded)
  BY DaemonInitGuarded
<1>2. DaemonIInv /\ (Faultless => Guarded) => (Faultless => GuardAwaitsEcho)
  BY GuardedAwaitsEcho
<1>3. DaemonIInv /\ (Faultless => Guarded) /\ [DaemonNext]_allVars => (Faultless => Guarded)'
  BY DaemonNextGuarded DEF Faultless
<1> QED
  BY <1>1, <1>2, <1>3, DaemonInductive, PTL DEF DaemonSpec

-----------------------------------------------------------------------------
(* The last copy.  It is handed on from place to place: the selection last *)
(* announced, the read under way, the last event, the capture task's       *)
(* hands.  In the last place the guard could still swallow it, and would   *)
(* only if a copy-back of the same content were asked for and not yet on   *)
(* the clipboard, since anything else the guard can be waiting for would   *)
(* be behind the copy.  No cancellation is last on the wire: what took the *)
(* clipboard from clippo follows it.                                       *)

CancelFollowed(w) ==
  \A k \in 1..Len(w) : w[k].type = "cancelled" => \E j \in SelectionsIn(w) : k < j

IsLastEvent(h) ==
  /\ SelectionsIn(wire) = {} /\ reading = {} /\ events # << >>
  /\ LET e == events[Len(events)]
     IN  e.type = "captured" /\ ~IsOwn(e.clip) /\ h \in HashOf(e.clip.sel)
IsHeld(h) ==
  /\ SelectionsIn(wire) = {} /\ reading = {} /\ events = << >>
  /\ \E copy \in taken :
       ~IsOwn(copy) /\ copy.new.hash = h /\ h \in HashOf(CommandSel(copy.new.flavors))

OnItsWay(h) ==
  \E c \in clipboard :
    /\ ~IsOwn(c) /\ h \in HashOf(c.sel)
    /\ \/ Latest(wire, clipboard)
       \/ SelectionsIn(wire) = {} /\ reading = {c}
       \/ IsLastEvent(h)
       \/ IsHeld(h)

Kept ==
  /\ CancelFollowed(wire)
  /\ paused \/ phase # "up" => wanted = {}
  /\ \A h \in wanted : Offered(h) \/ OnItsWay(h)

LEMMA SelectionFollows ==
  ASSUME NEW w, IsQueue(w), NEW clips
  PROVE  CancelFollowed(Append(w, Selected(clips)))
<1> DEFINE v == Append(w, Selected(clips))
           n == Len(w) + 1
<1>1. n \in 1..Len(v) /\ Len(v) = n /\ v[n] = Selected(clips) /\ n \in Nat
  BY Appended
<1> HIDE DEF v, n
<1>2. n \in SelectionsIn(v)
  BY <1>1 DEF SelectionsIn, Selected
<1>3. ASSUME NEW k \in 1..Len(v), v[k].type = "cancelled" PROVE k < n
  <2>1. k # n
    BY <1>1, <1>3 DEF Selected
  <2> QED
    BY <1>1, <2>1
<1> QED
  BY <1>2, <1>3 DEF CancelFollowed, v

LEMMA CancelFollowedInTail ==
  ASSUME NEW w, IsQueue(w), w # << >>, CancelFollowed(w)
  PROVE  CancelFollowed(Tail(w))
<1> DEFINE v == Tail(w)
<1>1. /\ Len(w) \in Nat \ {0} /\ Len(v) = Len(w) - 1
      /\ \A k \in 1..Len(v) : k + 1 \in 1..Len(w) /\ v[k] = w[k + 1]
  BY Dequeued
<1> HIDE DEF v
<1>2. ASSUME NEW k \in 1..Len(v), v[k].type = "cancelled"
      PROVE  \E j \in SelectionsIn(v) : k < j
  <2>1. k + 1 \in 1..Len(w) /\ w[k + 1].type = "cancelled"
    BY <1>1, <1>2
  <2>2. PICK j \in SelectionsIn(w) : k + 1 < j
    BY <2>1 DEF CancelFollowed
  <2>3. j \in 1..Len(w) /\ w[j].type = "selection"
    BY DEF SelectionsIn
  <2>4. j - 1 \in 1..Len(v) /\ (j - 1) + 1 = j /\ k < j - 1
    BY <1>1, <2>2, <2>3
  <2>5. j - 1 \in SelectionsIn(v)
    BY <1>1, <2>3, <2>4 DEF SelectionsIn
  <2> QED
    BY <2>4, <2>5
<1> QED
  BY <1>2 DEF CancelFollowed, v

LEMMA NoneCancelled ==
  ASSUME NEW w, CancelFollowed(w), SelectionsIn(w) = {}
  PROVE  ~HasCancelled(w)
BY DEF CancelFollowed, HasCancelled

(* The identity of a selection is the same whenever it is captured.        *)
LEMMA HashIgnoresTime ==
  ASSUME NEW sel, NEW h \in HashOf(sel), NEW at
  PROVE  \E new \in NewEntries(sel, at) : new.hash = h /\ new.flavors = sel.flavors
<1>1. PICK old \in NewEntries(sel, 0) : h = old.hash
  BY DEF HashOf
<1>2. PICK k \in Kinds, c \in DOMAIN sel.flavors, p \in DOMAIN sel.flavors :
        /\ IsKindOf(k, sel.flavors) /\ IsCanonical(k, sel.flavors, c)
        /\ IsPreviewSource(k, sel.flavors, p)
        /\ h = Identity(sel.flavors[c])
  BY <1>1, DescribedAs
<1> DEFINE new == [created_at |-> at, kind |-> k, hash |-> Identity(sel.flavors[c]),
                   sensitive |-> IsSensitive(sel),
                   preview |-> [of |-> sel.flavors[p].data,
                                masked |-> IsSensitive(sel) /\ k # "image"],
                   flavors |-> sel.flavors]
<1>3. new \in NewEntries(sel, at)
  BY <1>2, DescribedAs
<1> QED
  BY <1>2, <1>3

LEMMA HashOfFlavors ==
  ASSUME NEW sel, IsSelection(sel)
  PROVE  HashOf(CommandSel(sel.flavors)) = HashOf(sel)
<1>1. sel = [flavors |-> sel.flavors, hinted |-> sel.hinted]
  BY DEF IsSelection
<1>2. HashOf([flavors |-> sel.flavors, hinted |-> FALSE])
        = HashOf([flavors |-> sel.flavors, hinted |-> sel.hinted])
  BY HashIgnoresHint
<1> QED
  BY <1>1, <1>2 DEF CommandSel

(* A copy on its way is one that LastCopyIsKept finds.                     *)
LEMMA KeptIsKept ==
  ASSUME DaemonIInv, Kept
  PROVE  LastCopyIsKept
<1>1. /\ DOMAIN wire = 1..Len(wire) /\ DOMAIN events = 1..Len(events)
      /\ Len(events) \in Nat
  BY GuardParts, Appended
<1>2. ASSUME NEW h, OnItsWay(h) PROVE AppCopyComes(h)
  <2>1. PICK c \in clipboard :
          /\ ~IsOwn(c) /\ h \in HashOf(c.sel)
          /\ \/ Latest(wire, clipboard)
             \/ reading = {c}
             \/ IsLastEvent(h)
             \/ IsHeld(h)
    BY <1>2 DEF OnItsWay
  <2>2. CASE Latest(wire, clipboard)
    <3>1. PICK k \in SelectionsIn(wire) : wire[k].clips = clipboard
      BY <2>2 DEF Latest
    <3>2. c \in Travelling
      BY <1>1, <3>1, TravellingFrom DEF SelectionsIn
    <3> QED
      BY <2>1, <3>2 DEF AppCopyComes
  <2>3. CASE reading = {c}
    BY <2>1, <2>3, TravellingFrom DEF AppCopyComes
  <2>4. CASE IsLastEvent(h)
    <3>1. Len(events) \in DOMAIN events
      BY <1>1, <2>4, GuardParts, Dequeued DEF IsLastEvent
    <3>2. events[Len(events)].clip \in Travelling
      BY <2>4, <3>1, TravellingFrom DEF IsLastEvent
    <3> QED
      BY <2>4, <3>2 DEF IsLastEvent, AppCopyComes
  <2>5. CASE IsHeld(h)
    <3>1. PICK copy \in taken : ~IsOwn(copy) /\ h \in HashOf(CommandSel(copy.new.flavors))
      BY <2>5 DEF IsHeld
    <3>2. Clip(copy.own, CommandSel(copy.new.flavors)) \in Travelling
      BY TravellingFrom DEF CommandSel
    <3> QED
      BY <3>1, <3>2 DEF AppCopyComes, Clip, IsOwn
  <2> QED
    BY <2>1, <2>2, <2>3, <2>4, <2>5
<1> QED
  BY <1>2 DEF Kept, LastCopyIsKept

-----------------------------------------------------------------------------
(* The steps that hand the copy on, when no read loses a flavor, no event  *)
(* is dropped, and only the clipboard is watched.                          *)

LEMMA OnItsWayStays ==
  ASSUME NEW h, OnItsWay(h), UNCHANGED <<clipboardVars, taken>>
  PROVE  OnItsWay(h)'
BY DEF clipboardVars, OnItsWay, IsLastEvent, IsHeld

LEMMA QuietStepKept ==
  ASSUME Kept, UNCHANGED <<clipboardVars, taken>>, wanted' \subseteq wanted,
         paused' \/ phase' # "up" => wanted' = {}
  PROVE  Kept'
<1>1. CancelFollowed(wire)'
  BY DEF clipboardVars, Kept
<1>2. \A h \in wanted' : Offered(h)' \/ OnItsWay(h)'
  BY OnItsWayStays DEF clipboardVars, Kept, Offered
<1> QED
  BY <1>1, <1>2 DEF Kept

LEMMA NoneWanted ==
  ASSUME CancelFollowed(wire)', wanted' = {}
  PROVE  Kept'
BY DEF Kept

LEMMA OthersTakeFollowed ==
  ASSUME DaemonIInv, Kept, NEW clips, OthersTake(clips, phase = "up")
  PROVE  /\ CancelFollowed(wire)'
         /\ phase = "up" => Latest(wire', clips)
<1>1. CASE phase # "up"
  <2>1. wire' = wire
    BY <1>1, OthersTakeWire DEF DaemonIInv
  <2> QED
    BY <1>1, <2>1 DEF Kept
<1>2. CASE phase = "up"
  <2> DEFINE w == IF Owned THEN Append(wire, Cancelled) ELSE wire
  <2>1. wire' = Append(w, Selected(clips))
    BY <1>2, OthersTakeWire DEF DaemonIInv
  <2>2. IsQueue(w)
    BY GuardParts, Appended
  <2> HIDE DEF w
  <2> QED
    BY <2>1, <2>2, SelectionFollows, AppendedIsLatest
<1> QED
  BY <1>1, <1>2

LEMMA AppCopiesKept ==
  ASSUME DaemonIInv, Kept, NEW sel, AppCopies(sel)
  PROVE  Kept'
<1> DEFINE clip == Clip({}, sel)
           fit  == {n \in NewEntries(sel, 0) :
                      phase = "up" /\ ~paused /\ ~IsRefused(n.kind, n.flavors)}
<1>1. /\ OthersTake({clip}, phase = "up") /\ phase' = phase /\ paused' = paused
      /\ wanted' = {new.hash : new \in fit}
  BY DEF AppCopies
<1>2. CancelFollowed(wire)' /\ (phase = "up" => Latest(wire', {clip}))
  BY <1>1, OthersTakeFollowed
<1>3. clipboard' = {clip}
  BY <1>1 DEF OthersTake
<1>4. paused' \/ phase' # "up" => wanted' = {}
  BY <1>1
<1>5. ASSUME NEW h \in wanted' PROVE OnItsWay(h)'
  <2>1. h \in HashOf(sel) /\ phase = "up"
    BY <1>1 DEF HashOf
  <2>2. clip \in clipboard' /\ ~IsOwn(clip) /\ h \in HashOf(clip.sel)
    BY <1>3, <2>1 DEF Clip, IsOwn
  <2> HIDE DEF clip
  <2> QED
    BY <1>2, <1>3, <2>1, <2>2 DEF OnItsWay
<1> QED
  BY <1>2, <1>4, <1>5 DEF Kept

LEMMA OnSelectionKept ==
  ASSUME DaemonIInv, Kept, OnSelection, UNCHANGED daemonVars
  PROVE  Kept'
<1>1. /\ IsQueue(wire) /\ wire # << >> /\ Head(wire).type = "selection" /\ wire' = Tail(wire)
      /\ clipboard' = clipboard /\ events' = events /\ commands' = commands
  BY GuardParts DEF OnSelection
<1>2. 1 \in SelectionsIn(wire)
  BY <1>1, Dequeued DEF SelectionsIn
<1>3. ASSUME NEW h, OnItsWay(h) PROVE OnItsWay(h)'
  <2>1. PICK c \in clipboard : ~IsOwn(c) /\ h \in HashOf(c.sel) /\ Latest(wire, clipboard)
    BY <1>2, <1>3 DEF OnItsWay, IsLastEvent, IsHeld
  <2>2. CASE Latest(Tail(wire), clipboard)
    BY <1>1, <2>1, <2>2 DEF OnItsWay
  <2>3. CASE SelectionsIn(Tail(wire)) = {} /\ Head(wire).clips = clipboard
    <3>1. ASSUME NEW clip \in Head(wire).clips, NEW served \in Served(clip), reading' = {served}
          PROVE  reading' = {c}
      <4>1. clip = c /\ served = clip
        BY <2>1, <2>3, <3>1, GuardParts DEF Served, IsLone
      <4> QED
        BY <3>1, <4>1
    <3>2. reading' = {c}
      BY <2>1, <2>3, <3>1 DEF OnSelection
    <3> QED
      BY <1>1, <2>1, <2>3, <3>2 DEF OnItsWay
  <2> QED
    BY <1>1, <2>1, <2>2, <2>3, HeadIsLatest
<1>4. CancelFollowed(wire)'
  BY <1>1, CancelFollowedInTail DEF Kept
<1> QED
  BY <1>1, <1>3, <1>4 DEF Kept, Offered, daemonVars

LEMMA OnCancelledKept ==
  ASSUME DaemonIInv, Kept, OnCancelled, UNCHANGED daemonVars
  PROVE  Kept'
<1>1. /\ IsQueue(wire) /\ wire # << >> /\ Head(wire).type # "selection" /\ wire' = Tail(wire)
      /\ UNCHANGED <<clipboard, reading, commands, taken>>
  BY GuardParts DEF OnCancelled, daemonVars
<1>2. /\ Latest(wire, clipboard) => Latest(Tail(wire), clipboard)
      /\ SelectionsIn(wire) = {} => SelectionsIn(Tail(wire)) = {}
  BY <1>1, HeadIsLatest, NoneFollows
<1>3. ASSUME SelectionsIn(wire) = {} PROVE events' = events
  <2>1. ~HasCancelled(wire)
    BY <1>3, NoneCancelled DEF Kept
  <2>2. Head(wire).type # "cancelled"
    BY <1>1, <2>1, Dequeued DEF HasCancelled
  <2> QED
    BY <2>2 DEF OnCancelled
<1>4. ASSUME NEW h, OnItsWay(h) PROVE OnItsWay(h)'
  BY <1>1, <1>2, <1>3, <1>4 DEF OnItsWay, IsLastEvent, IsHeld
<1>5. CancelFollowed(wire)'
  BY <1>1, CancelFollowedInTail DEF Kept
<1> QED
  BY <1>1, <1>4, <1>5 DEF Kept, Offered, daemonVars

(* An application that still owns the clipboard serves the whole of it.    *)
LEMMA ReadWhole ==
  ASSUME Droppable = {}, NEW c \in clipboard, ~IsOwn(c), IsSelection(c.sel), NEW got \in Reads(c)
  PROVE  got = c.sel
<1> DEFINE whole == c.sel
<1>1. PICK lost \in SUBSET {i \in DOMAIN whole.flavors : whole.flavors[i].data \in Droppable} :
        got = [whole EXCEPT !.flavors = Restrict(@, DOMAIN @ \ lost)]
  BY DEF Reads
<1>2. lost = {}
  BY <1>1
<1>3. Restrict(whole.flavors, DOMAIN whole.flavors) = whole.flavors
  BY DEF Restrict, IsSelection, IsPartial
<1>4. whole = [flavors |-> whole.flavors, hinted |-> whole.hinted]
  BY DEF IsSelection
<1> QED
  BY <1>1, <1>2, <1>3, <1>4

LEMMA ReadDoneKept ==
  ASSUME DaemonIInv, Kept, Droppable = {}, ~Lossy, ReadDone, UNCHANGED daemonVars
  PROVE  Kept'
<1>1. PICK clip \in reading : \E got \in Reads(clip) :
        /\ Emit(Captured(Clip(clip.own, got)))
        /\ reading' = {}
        /\ UNCHANGED <<clipboard, wire, commands>>
  BY DEF ReadDone
<1>2. PICK got \in Reads(clip) : Emit(Captured(Clip(clip.own, got)))
  BY <1>1
<1> DEFINE e == Captured(Clip(clip.own, got))
<1>3. events' = Append(events, e)
  BY <1>2 DEF Emit
<1>4. e.type = "captured" /\ e.clip.own = clip.own /\ e.clip.sel = got
  BY DEF Captured, Clip
<1> HIDE DEF e
<1>5. events' # << >> /\ events'[Len(events')] = e
  <2>1. /\ Len(events) \in Nat /\ Len(events') = Len(events) + 1
        /\ events'[Len(events) + 1] = e
    BY <1>3, GuardParts, Appended
  <2>2. Len(events') # 0
    BY <2>1
  <2> QED
    BY <2>1, <2>2, EmptyQueue
<1>6. ASSUME NEW h, OnItsWay(h) PROVE OnItsWay(h)'
  <2>1. PICK c \in clipboard :
          /\ ~IsOwn(c) /\ h \in HashOf(c.sel)
          /\ \/ Latest(wire, clipboard)
             \/ SelectionsIn(wire) = {} /\ reading = {c}
    BY <1>6, <1>1 DEF OnItsWay, IsLastEvent, IsHeld
  <2>2. CASE Latest(wire, clipboard)
    BY <1>1, <2>1, <2>2 DEF OnItsWay
  <2>3. CASE SelectionsIn(wire) = {} /\ reading = {c}
    <3>1. clip = c /\ IsSelection(c.sel)
      BY <1>1, <2>3 DEF DaemonIInv, ClipboardSound, HolderOK, ClipOK, IsClip
    <3>2. got = c.sel
      BY <2>1, <3>1, ReadWhole
    <3>3. IsLastEvent(h)'
      BY <1>1, <1>4, <1>5, <2>1, <2>3, <3>1, <3>2 DEF IsLastEvent, IsOwn
    <3> QED
      BY <1>1, <2>1, <3>3 DEF OnItsWay
  <2> QED
    BY <2>1, <2>2, <2>3
<1>7. CancelFollowed(wire)'
  BY <1>1 DEF Kept
<1> QED
  BY <1>1, <1>6, <1>7 DEF Kept, Offered, daemonVars

LEMMA TakeClipboardKept ==
  ASSUME DaemonIInv, Kept, TakeClipboard
  PROVE  Kept'
<1>1. wanted' = {} /\ \E clips : wire' = Append(Late(wire), Selected(clips))
  BY DEF TakeClipboard, TakeSelection, Late
<1>2. IsQueue(Late(wire))
  BY LateIsWire DEF DaemonIInv, ClipboardSound, WireOK, IsWire
<1> QED
  BY <1>1, <1>2, SelectionFollows, NoneWanted

(* What the daemon receives is not the last event, or is in its hands now. *)
LEMMA ReceiveKept ==
  ASSUME DaemonIInv, Kept, events # << >>, Receive, UNCHANGED <<phase, paused, wanted>>,
         taken' = taken \/ taken = {},
         \A h : IsLastEvent(h) /\ Tail(events) = << >> => IsHeld(h)'
  PROVE  Kept'
<1>1. events' = Tail(events) /\ UNCHANGED <<clipboard, wire, reading, commands>>
  BY DEF Receive
<1>2. ASSUME NEW h, IsLastEvent(h) PROVE IsLastEvent(h)' \/ IsHeld(h)'
  <2>1. CASE Tail(events) # << >>
    BY <1>1, <1>2, <2>1, GuardParts, LastOfTail DEF IsLastEvent
  <2>2. CASE Tail(events) = << >>
    BY <1>2, <2>2
  <2> QED
    BY <2>1, <2>2
<1>3. ASSUME NEW h, OnItsWay(h) PROVE OnItsWay(h)'
  <2>1. PICK c \in clipboard :
          /\ ~IsOwn(c) /\ h \in HashOf(c.sel)
          /\ \/ Latest(wire, clipboard)
             \/ SelectionsIn(wire) = {} /\ reading = {c}
             \/ IsLastEvent(h)
    BY <1>3 DEF OnItsWay, IsHeld
  <2> QED
    BY <1>1, <1>2, <2>1 DEF OnItsWay
<1>4. CancelFollowed(wire)'
  BY <1>1 DEF Kept
<1> QED
  BY <1>1, <1>3, <1>4 DEF Kept, Offered

LEMMA CaptureKept ==
  ASSUME DaemonIInv, Kept, Capture
  PROVE  Kept'
<1> DEFINE clip == Head(events).clip
<1>1. /\ taken = {} /\ IsNext("captured") /\ events # << >> /\ Receive
      /\ UNCHANGED <<phase, paused, wanted>>
  BY DEF Capture, CapturerIsFree, IsNext
<1>2. PICK at \in Stamps : taken' = {[own |-> clip.own, new |-> new] : new \in NewEntries(clip.sel, at)}
  BY DEF Capture
<1>3. ASSUME NEW h, IsLastEvent(h), Tail(events) = << >> PROVE IsHeld(h)'
  <2>1. Head(events) = events[Len(events)]
    BY <1>1, <1>3, GuardParts, LastOfTail
  <2>2. ~IsOwn(clip) /\ h \in HashOf(clip.sel)
    BY <1>3, <2>1 DEF IsLastEvent
  <2>3. IsSelection(clip.sel)
    BY <1>1, ReceiveSound DEF DaemonIInv, IsNext, EventOK, ClipOK, IsClip
  <2>4. PICK new \in NewEntries(clip.sel, at) : new.hash = h /\ new.flavors = clip.sel.flavors
    BY <2>2, HashIgnoresTime
  <2> DEFINE copy == [own |-> clip.own, new |-> new]
  <2>5. copy \in taken'
    BY <1>2
  <2>6. ~IsOwn(copy) /\ copy.new.hash = h /\ h \in HashOf(CommandSel(copy.new.flavors))
    BY <2>2, <2>3, <2>4, HashOfFlavors DEF IsOwn
  <2> HIDE DEF copy
  <2>7. SelectionsIn(wire)' = {} /\ reading' = {} /\ events' = << >>
    BY <1>1, <1>3 DEF IsLastEvent, Receive
  <2> QED
    BY <2>5, <2>6, <2>7 DEF IsHeld
<1> QED
  BY <1>1, <1>3, ReceiveKept

LEMMA LoseSelectionKept ==
  ASSUME DaemonIInv, Kept, LoseSelection
  PROVE  Kept'
<1>1. /\ events # << >> /\ Head(events).type = "lost" /\ Receive
      /\ UNCHANGED <<phase, paused, wanted, taken>>
  BY DEF LoseSelection, IsNext
<1>2. ASSUME NEW h, IsLastEvent(h), Tail(events) = << >> PROVE FALSE
  BY <1>1, <1>2, GuardParts, LastOfTail DEF IsLastEvent
<1> QED
  BY <1>1, <1>2, ReceiveKept

(* A step that empties the capture task's hands of a copy that is not the  *)
(* one wanted, or is offered again.                                        *)
LEMMA ReleasedKept ==
  ASSUME Kept, UNCHANGED <<clipboardVars, phase, paused>>, wanted' \subseteq wanted,
         \A h \in wanted' : IsHeld(h) /\ OnItsWay(h) => Offered(h)
  PROVE  Kept'
<1>1. ASSUME NEW h \in wanted' PROVE (Offered(h) \/ OnItsWay(h))'
  <2>1. CASE Offered(h)
    BY <2>1 DEF clipboardVars, Offered
  <2>2. CASE OnItsWay(h) /\ ~IsHeld(h)
    BY <2>2 DEF clipboardVars, OnItsWay, IsLastEvent
  <2> QED
    BY <2>1, <2>2 DEF Kept
<1>2. CancelFollowed(wire)'
  BY DEF clipboardVars, Kept
<1> QED
  BY <1>1, <1>2 DEF Kept

LEMMA HashesAreNotNoHash == NoHash \notin Hashes
<1> SUFFICES ASSUME NEW f, Identity(f) = << >> PROVE FALSE
  BY DEF Hashes, NoHash
<1>1. \A x, y : Len(<<x, y>>) = 2
  OBVIOUS
<1> QED
  BY <1>1, EmptyQueue DEF Identity

(* The guard swallows a copy in the capture task's hands only for the      *)
(* content last asked for: nothing else it can be armed for is behind the  *)
(* last copy.                                                              *)
LEMMA IgnoreCopyKept ==
  ASSUME DaemonIInv, Guarded, Kept, IgnoreCopy
  PROVE  Kept'
<1>1. PICK copy \in taken : IsEcho(copy.new) \/ paused
  BY DEF IgnoreCopy
<1>2. ASSUME NEW h \in wanted, IsHeld(h), OnItsWay(h) PROVE Offered(h)
  <2>1. PICK held \in taken : ~IsOwn(held) /\ held.new.hash = h
    BY <1>2 DEF IsHeld
  <2>2. held = copy /\ taken = {copy}
    BY <1>1 DEF DaemonIInv, TakenOK, IsLone
  <2>3. ~paused
    BY <1>2 DEF Kept
  <2>4. armed = h /\ h \in Hashes
    BY <1>1, <1>2, <2>1, <2>2, <2>3 DEF IsEcho, DaemonIInv, FlagsOK
  <2>5. h # NoHash
    BY <2>4, HashesAreNotNoHash
  <2>6. PICK c \in clipboard : ~IsOwn(c)
    BY <1>2 DEF OnItsWay
  <2>7. ~EchoAhead
    BY <2>6, GuardParts DEF EchoAhead, IsOwn, IsLone
  <2>8. ~Cancelling
    BY <1>2, NoneCancelled DEF Kept, IsHeld, Cancelling, HasCancelled
  <2>9. ~EchoRead /\ ~LossRead
    BY <1>2, EmptyQueue DEF IsHeld, EchoRead, LossRead
  <2>10. ~EchoTaken
    BY <2>1, <2>2 DEF EchoTaken, IsOwn
  <2>11. commands # << >> /\ armed \in HashOf(CommandSel(commands[Len(commands)]))
    BY <2>4, <2>5, <2>7, <2>8, <2>9, <2>10 DEF Guarded, Awaited, Coming
  <2>12. Len(commands) \in DOMAIN commands
    BY <2>11, GuardParts, Dequeued
  <2> QED
    BY <2>4, <2>11, <2>12 DEF Offered, CommandSel
<1> QED
  BY <1>2, ReleasedKept DEF IgnoreCopy

LEMMA RecordCopyKept ==
  ASSUME DaemonIInv, Kept, RecordCopy
  PROVE  Kept'
<1>1. PICK copy \in taken :
        /\ wanted' = IF IsOwn(copy) THEN wanted ELSE wanted \ {copy.new.hash}
        /\ UNCHANGED <<clipboardVars, phase, paused>>
  BY DEF RecordCopy
<1>2. ASSUME NEW h \in wanted', IsHeld(h) PROVE FALSE
  <2>1. PICK held \in taken : ~IsOwn(held) /\ held.new.hash = h
    BY <1>2 DEF IsHeld
  <2>2. held = copy
    BY DEF DaemonIInv, TakenOK, IsLone
  <2> QED
    BY <1>1, <1>2, <2>1, <2>2
<1> QED
  BY <1>1, <1>2, ReleasedKept

LEMMA CopyKept ==
  ASSUME DaemonIInv, Kept, NEW call, NEW id, NEW at, Copy(call, id, at)
  PROVE  Kept'
<1>1. PICK fs : commands' = Append(commands, fs)
  BY DEF Copy, Offer
<1>2. UNCHANGED <<clipboard, wire, reading, events, taken, phase, paused, wanted>>
  BY DEF Copy, Offer
<1>3. ASSUME NEW h, Offered(h) PROVE Offered(h)'
  <2>1. PICK k \in DOMAIN commands : h \in HashOf(CommandSel(commands[k]))
    BY <1>3 DEF Offered, CommandSel
  <2>2. k \in DOMAIN commands' /\ commands'[k] = commands[k]
    <3>1. /\ DOMAIN commands = 1..Len(commands) /\ Len(commands) \in Nat
          /\ Len(commands') = Len(commands) + 1 /\ IsQueue(commands')
          /\ \A j \in 1..Len(commands) : commands'[j] = commands[j]
      BY <1>1, GuardParts, Appended
    <3>2. DOMAIN commands' = 1..Len(commands')
      BY <3>1, Appended
    <3> QED
      BY <3>1, <3>2
  <2> QED
    BY <2>1, <2>2 DEF Offered, CommandSel
<1>4. ASSUME NEW h, OnItsWay(h) PROVE OnItsWay(h)'
  BY <1>2, <1>4 DEF OnItsWay, IsLastEvent, IsHeld
<1> QED
  BY <1>2, <1>3, <1>4 DEF Kept

LEMMA WatchKept ==
  ASSUME DaemonIInv, Kept, Watch
  PROVE  Kept'
<1>1. wanted' = {} /\ wire' = <<Selected(clipboard)>>
  BY DEF Watch, StartWatching, Kept
<1>2. <<Selected(clipboard)>> = Append(<< >>, Selected(clipboard))
  <2> DEFINE e == Selected(clipboard)
  <2> HIDE DEF e
  <2>1. Append(<< >>, e) = <<e>>
    OBVIOUS
  <2> QED
    BY <2>1 DEF e
<1> QED
  BY <1>1, <1>2, EmptyQueue, SelectionFollows, NoneWanted

LEMMA NothingFollows == CancelFollowed(<< >>)
BY EmptyQueue DEF CancelFollowed

LEMMA DieKept ==
  ASSUME Die
  PROVE  Kept'
BY NothingFollows, NoneWanted DEF Die, WatcherDies

LEMMA DaemonInitKept == DaemonInit => Kept
BY NothingFollows DEF DaemonInit, ClipboardInit, Kept

LEMMA DaemonNextKept ==
  ASSUME DaemonIInv, Guarded, Kept, [DaemonNext]_allVars, Faultless
  PROVE  Kept'
<1>0. Droppable = {} /\ ~Lossy /\ ~Primary
  BY DEF Faultless
<1>1. ASSUME NEW clips, AppSelects(clips) PROVE FALSE
  BY <1>0, <1>1 DEF AppSelects, PrimaryChanges
<1>2. ASSUME AppClears PROVE Kept'
  BY <1>2, OthersTakeFollowed, NoneWanted DEF AppClears
<1>3. ASSUME Watcher PROVE Kept'
  BY <1>0, <1>3, OnSelectionKept, OnCancelledKept, ReadDoneKept DEF Watcher, WatcherStep
<1>4. ASSUME NEW call,
             \/ \E id \in EntryIds, at \in Stamps : ClockReads(at) /\ Copy(call, id, at)
             \/ \E id \in EntryIds : CopyRefused(call, id)
             \/ Mutate(call)
      PROVE  Kept'
  <2>1. ASSUME NEW id, CopyRefused(call, id) PROVE Kept'
    BY <2>1, QuietStepKept DEF CopyRefused, Kept
  <2>2. ASSUME Mutate(call) PROVE Kept'
    BY <2>2, QuietStepKept DEF Mutate, Forget, Kept
  <2> QED
    BY <1>4, <2>1, <2>2, CopyKept
<1>5. ASSUME NEW to, SetPaused(to) PROVE Kept'
  BY <1>5, QuietStepKept DEF SetPaused
<1>6. ASSUME NEW task, Announce(task) PROVE Kept'
  BY <1>6, QuietStepKept DEF Announce, Kept
<1>7. ASSUME List \/ Start PROVE Kept'
  BY <1>7, QuietStepKept DEF List, Start, Kept
<1>8. ASSUME NEW at, SweepRetention(at) \/ SweepFails(at) PROVE Kept'
  BY <1>8, QuietStepKept, DieKept DEF SweepRetention, SweepFails, Kept
<1>9. ASSUME Crash PROVE Kept'
  BY <1>9, DieKept DEF Crash
<1>10. ASSUME UNCHANGED allVars PROVE Kept'
  BY <1>10, QuietStepKept DEF allVars, daemonVars, Kept
<1> QED
  BY <1>1, <1>2, <1>3, <1>4, <1>5, <1>6, <1>7, <1>8, <1>9, <1>10, AppCopiesKept,
     TakeClipboardKept, CaptureKept, IgnoreCopyKept, RecordCopyKept, LoseSelectionKept, WatchKept
  DEF DaemonNext

(* The last copy an application made is never lost between the clipboard   *)
(* and the history, and the guard never swallows it unless the same        *)
(* content has just been asked for again (capture and is_echo, daemon.rs   *)
(* and echo.rs): every interleaving of copies, copy-backs, cancellations,  *)
(* calls, crashes and restarts hands it on, so long as no read loses a     *)
(* flavor and no event is dropped.                                         *)
THEOREM LastCopyKept == DaemonSpec => [](Faultless => LastCopyIsKept)
<1>1. DaemonInit => (Faultless => Guarded /\ Kept)
  BY DaemonInitGuarded, DaemonInitKept
<1>2. DaemonIInv /\ (Faultless => Guarded /\ Kept) => (Faultless => LastCopyIsKept)
  BY KeptIsKept
<1>3. DaemonIInv /\ (Faultless => Guarded /\ Kept) /\ [DaemonNext]_allVars
        => (Faultless => Guarded /\ Kept)'
  <2> SUFFICES ASSUME DaemonIInv, Guarded, Kept, [DaemonNext]_allVars, Faultless
               PROVE  Guarded' /\ Kept'
    BY DEF Faultless
  <2> QED
    BY DaemonNextGuarded, DaemonNextKept
<1> QED
  BY <1>1, <1>2, <1>3, DaemonInductive, PTL DEF DaemonSpec
=============================================================================
