--------------------------- MODULE SessionProofs ---------------------------
(***************************************************************************)
(* What holds of clippo's commands, clippod and the keys it presses, for   *)
(* every number of commands, every history and every shortcut: that the    *)
(* shortcut reaches the window whole and a send leaves nothing held, that  *)
(* a paste pastes its own entry, and that rm deletes what it was told to.  *)
(***************************************************************************)
EXTENDS Session, RulesProofs

(* The requests of a chord, those the compositor has not handled in their  *)
(* order, and the places of Script.                                        *)
ChordKeys == Keys!Mask \cup {Keys!Key}
Requests  == {Keys!SetModifiers(Keys!Mask), Keys!SetModifiers({})}
             \cup {Keys!Press(k) : k \in ChordKeys} \cup {Keys!Release(k) : k \in ChordKeys}
Request   == [by : Processes, does : Requests]
Queued    == wire \o outbox

M        == Len(ModifierKeys)
KeyPlace == M + 2
EndPlace == 2 * M + 7

KeyboardTyped == Keys!KeyboardTypeOK /\ wire \in Seq(Request) /\ outbox \in Seq(Request)

(* The lock: whoever is in the middle of a send has it.                    *)
OneInside ==
  /\ \A s \in Processes : place[s] # 0 => holder = {s}
  /\ \A s \in holder : place[s] # 0

GoneHoldsNothing == ~alive => wire = << >> /\ held = {} /\ mask = {}

(* What a request of the first half of a chord brings about.               *)
Done(act) ==
  /\ act.type = "modifiers" => mask = act.keys
  /\ act.type = "press" => act.key \in held

(* Before each press of the key its whole chord is queued, or has been     *)
(* handled and not been undone.                                            *)
ChordsAreWhole ==
  alive => \A k \in DOMAIN Queued : Queued[k].does = Keys!Press(Keys!Key) =>
    \A j \in 1..(M + 1) :
      IF k + j > KeyPlace THEN Queued[k + j - KeyPlace].does = Keys!Script[j] ELSE Done(Keys!Script[j])

(* A sender on its way to the key has queued its chord so far, last.       *)
ChordIsBegun ==
  alive => \A s \in Processes : place[s] \in 1..(KeyPlace + 1) =>
    /\ Len(outbox) + 1 >= place[s]
    /\ \A j \in 1..(place[s] - 1) : outbox[Len(outbox) + 1 + j - place[s]].does = Keys!Script[j]

(* The effect of a request that a release undoes, and whether it is there. *)
Against(act, other) ==
  \/ act.type = "release" /\ other.type = "press" /\ other.key = act.key
  \/ act.type = "modifiers" /\ other.type = "modifiers" /\ other.keys # {}

Stands(act) ==
  \/ act.type = "release" /\ act.key \in held
  \/ act.type = "modifiers" /\ mask # {}

(* All there is against act is queued before it, or handled and undone.    *)
Undone(act) ==
  /\ \A j \in DOMAIN Queued : Against(act, Queued[j].does) =>
       \E l \in DOMAIN Queued : l > j /\ Queued[l].does = act
  /\ Stands(act) => \E l \in DOMAIN Queued : Queued[l].does = act

ReleasesUndo ==
  alive => \A s \in Processes : \A n \in (M + 4)..(2 * M + 5) :
    place[s] > n => Undone(Keys!Script[n])

FlushedBeforeSync == alive => \A s \in Processes : place[s] = EndPlace => outbox = << >>

KeyboardInv ==
  /\ KeyboardTyped /\ OneInside /\ GoneHoldsNothing
  /\ ChordsAreWhole /\ ChordIsBegun
  /\ ReleasesUndo /\ FlushedBeforeSync

-----------------------------------------------------------------------------
(* The commands.                                                           *)

Offer == [what : Nat \ {Nothing}, by : Processes]

SessionTyped ==
  /\ config \in [privileged : BOOLEAN, presses : BOOLEAN]
  /\ running \in BOOLEAN /\ paused \in BOOLEAN
  /\ rows \in Seq(Row) /\ Distinct(rows) /\ made \in Nat
  /\ offers \in Seq(Offer) /\ Len(offers) <= CommandCap
  /\ does \in [Processes -> Commands] /\ stage \in [Processes -> Stages]
  /\ todo \in [Processes -> Seq(Nat)]
  /\ deleted \in [Processes -> SUBSET Nat] /\ failedAt \in [Processes -> SUBSET Nat]
  /\ seen \in [Processes -> SUBSET Nat]
  /\ wants \in [Processes -> Nat] /\ taken \in [Processes -> BOOLEAN]

AllResolve(p) == \A i \in DOMAIN does[p].refs : Resolves(does[p].refs[i], seen[p])
Meant(p)      == {Resolve(does[p].refs[i], seen[p]) : i \in DOMAIN does[p].refs}

(* A command that has its references resolved calls about each of the      *)
(* entries they mean once, and rm has deleted the others.                  *)
IsResolved(p) ==
  /\ AllResolve(p) /\ todo[p] # << >>
  /\ \A k \in DOMAIN todo[p] : todo[p][k] \in Meant(p) \ deleted[p]
  /\ \A k, l \in DOMAIN todo[p] : todo[p][k] = todo[p][l] => k = l

RmOf(p) ==
  /\ does[p].do # "rm" \/ stage[p] \in {"idle", "resolve"} => deleted[p] = {}
  /\ stage[p] = "asking" => ~Refers(p)
  /\ deleted[p] # {} => AllResolve(p) /\ deleted[p] \subseteq Meant(p)
  /\ stage[p] = "call" /\ Refers(p) => IsResolved(p)
  /\ stage[p] # "failed" => failedAt[p] = {}
  /\ failedAt[p] \cap deleted[p] = {}

RmInv == \A p \in Processes : RmOf(p)

(* A paste's own copy-back, its requests, and whether the clipboard has    *)
(* what it wants, or had it after the watcher put it there.                *)
OffersOf(p) == {i \in DOMAIN offers : offers[i].by = p}
KeysOf(p)   == {k \in DOMAIN Queued : Queued[k].by = p}
InPlace(p)  == wants[p] # Nothing /\ (taken[p] \/ \E c \in clipboard : c.what = wants[p])

PasteOf(p) ==
  /\ \A i \in OffersOf(p) : offers[i].what = wants[p]
  /\ stage[p] \in {"idle", "resolve", "asking", "call"} => OffersOf(p) = {} /\ KeysOf(p) = {}
  /\ stage[p] = "settle" => KeysOf(p) = {} /\ (OffersOf(p) # {} \/ InPlace(p))
  /\ stage[p] = "press" \/ KeysOf(p) # {} => OffersOf(p) = {} /\ InPlace(p)

PasteInv == \A p \in Processes : PasteOf(p)

-----------------------------------------------------------------------------
(* The script of a send.                                                   *)

LEMMA ShortcutFacts ==
  /\ M \in Nat /\ DOMAIN ModifierKeys = 1..M /\ ModifierKeys \in Seq(Keys!Mask)
  /\ \A i \in 1..M : ModifierKeys[i] \in Keys!Mask
  /\ Keys!Key \notin Keys!Mask
BY SessionAssumption DEF M

LEMMA RequestFacts ==
  /\ \A k : Keys!Press(k).type = "press" /\ Keys!Press(k).key = k
  /\ \A k : Keys!Release(k).type = "release" /\ Keys!Release(k).key = k
  /\ \A keys : Keys!SetModifiers(keys).type = "modifiers" /\ Keys!SetModifiers(keys).keys = keys
  /\ Keys!Flush.type = "flush" /\ Keys!Sync.type = "sync"
BY DEF Keys!Press, Keys!Release, Keys!SetModifiers, Keys!Flush, Keys!Sync

LEMMA PressesAre ==
  /\ Keys!Presses \in Seq(Requests) /\ Len(Keys!Presses) = M + 2
  /\ Keys!Presses[1] = Keys!SetModifiers(Keys!Mask)
  /\ \A i \in 1..M : Keys!Presses[i + 1] = Keys!Press(ModifierKeys[i])
  /\ Keys!Presses[M + 2] = Keys!Press(Keys!Key)
<1> DEFINE set == <<Keys!SetModifiers(Keys!Mask)>>
           mods == [i \in DOMAIN ModifierKeys |-> Keys!Press(ModifierKeys[i])]
           key == <<Keys!Press(Keys!Key)>>
<1>1. set \in Seq(Requests) /\ Len(set) = 1 /\ set[1] = Keys!SetModifiers(Keys!Mask)
  BY DEF Requests
<1>2. key \in Seq(Requests) /\ Len(key) = 1 /\ key[1] = Keys!Press(Keys!Key)
  BY DEF Requests, ChordKeys
<1>3. \A i \in 1..M : Keys!Press(ModifierKeys[i]) \in Requests
  BY ShortcutFacts DEF Requests, ChordKeys
<1>4. mods \in [1..M -> Requests]
  BY <1>3, ShortcutFacts
<1>5. mods \in Seq(Requests) /\ Len(mods) = M /\ \A i \in 1..M : mods[i] = Keys!Press(ModifierKeys[i])
  BY <1>4, ShortcutFacts
<1> HIDE DEF set, mods, key
<1>6. /\ set \o mods \in Seq(Requests) /\ Len(set \o mods) = 1 + M
      /\ \A i \in 1..1 : (set \o mods)[i] = set[i]
      /\ \A i \in 1..M : (set \o mods)[1 + i] = mods[i]
  <2>1. set \in Seq(Requests) /\ mods \in Seq(Requests)
    BY <1>1, <1>5
  <2>2. /\ set \o mods \in Seq(Requests) /\ Len(set \o mods) = Len(set) + Len(mods)
        /\ \A i \in 1..Len(set) : (set \o mods)[i] = set[i]
        /\ \A i \in 1..Len(mods) : (set \o mods)[Len(set) + i] = mods[i]
    BY <2>1, JoinedAt
  <2> QED
    BY <2>2, <1>1, <1>5
<1>7. /\ (set \o mods) \o key \in Seq(Requests) /\ Len((set \o mods) \o key) = 1 + M + 1
      /\ \A i \in 1..(1 + M) : ((set \o mods) \o key)[i] = (set \o mods)[i]
      /\ \A i \in 1..1 : ((set \o mods) \o key)[1 + M + i] = key[i]
  <2>1. (set \o mods) \in Seq(Requests) /\ key \in Seq(Requests)
    BY <1>6, <1>2
  <2>2. /\ (set \o mods) \o key \in Seq(Requests) /\ Len((set \o mods) \o key) = Len((set \o mods)) + Len(key)
        /\ \A i \in 1..Len((set \o mods)) : ((set \o mods) \o key)[i] = (set \o mods)[i]
        /\ \A i \in 1..Len(key) : ((set \o mods) \o key)[Len((set \o mods)) + i] = key[i]
    BY <2>1, JoinedAt
  <2> QED
    BY <2>2, <1>6, <1>2
<1>8. Keys!Presses = (set \o mods) \o key
  BY DEF Keys!Presses, set, mods, key
<1>9. Keys!Presses[1] = set[1]
  <2>1. 1 \in 1..(1 + M) /\ 1 \in 1..1
    BY ShortcutFacts
  <2> QED
    BY <2>1, <1>6, <1>7, <1>8
<1>10. ASSUME NEW i \in 1..M PROVE Keys!Presses[i + 1] = mods[i]
  <2>1. 1 + i \in 1..(1 + M) /\ 1 + i = i + 1
    BY ShortcutFacts
  <2> QED
    BY <2>1, <1>6, <1>7, <1>8
<1>11. Keys!Presses[M + 2] = key[1] /\ 1 + M + 1 = M + 2
  <2>1. 1 \in 1..1 /\ 1 + M + 1 = M + 2
    BY ShortcutFacts
  <2> QED
    BY <2>1, <1>7, <1>8
<1> QED
  BY <1>1, <1>2, <1>5, <1>7, <1>8, <1>9, <1>10, <1>11

LEMMA ReleasesAre ==
  /\ Keys!Releases \in Seq(Requests) /\ Len(Keys!Releases) = M + 2
  /\ Keys!Releases[1] = Keys!Release(Keys!Key)
  /\ \A i \in 1..M : Keys!Releases[i + 1] = Keys!Release(ModifierKeys[M + 1 - i])
  /\ Keys!Releases[M + 2] = Keys!SetModifiers({})
<1> DEFINE key == <<Keys!Release(Keys!Key)>>
           mods == [i \in DOMAIN ModifierKeys |-> Keys!Release(ModifierKeys[Len(ModifierKeys) + 1 - i])]
           set == <<Keys!SetModifiers({})>>
<1>1. set \in Seq(Requests) /\ Len(set) = 1 /\ set[1] = Keys!SetModifiers({})
  BY DEF Requests
<1>2. key \in Seq(Requests) /\ Len(key) = 1 /\ key[1] = Keys!Release(Keys!Key)
  BY DEF Requests, ChordKeys
<1>3. \A i \in 1..M : M + 1 - i \in 1..M
  BY ShortcutFacts
<1>4. \A i \in 1..M : Keys!Release(ModifierKeys[M + 1 - i]) \in Requests
  BY <1>3, ShortcutFacts DEF Requests, ChordKeys
<1>5. mods \in [1..M -> Requests]
  BY <1>4, ShortcutFacts DEF M
<1>6. mods \in Seq(Requests) /\ Len(mods) = M
      /\ \A i \in 1..M : mods[i] = Keys!Release(ModifierKeys[M + 1 - i])
  BY <1>5, ShortcutFacts DEF M
<1> HIDE DEF set, mods, key
<1>7. /\ key \o mods \in Seq(Requests) /\ Len(key \o mods) = 1 + M
      /\ \A i \in 1..1 : (key \o mods)[i] = key[i]
      /\ \A i \in 1..M : (key \o mods)[1 + i] = mods[i]
  <2>1. key \in Seq(Requests) /\ mods \in Seq(Requests)
    BY <1>2, <1>6
  <2>2. /\ key \o mods \in Seq(Requests) /\ Len(key \o mods) = Len(key) + Len(mods)
        /\ \A i \in 1..Len(key) : (key \o mods)[i] = key[i]
        /\ \A i \in 1..Len(mods) : (key \o mods)[Len(key) + i] = mods[i]
    BY <2>1, JoinedAt
  <2> QED
    BY <2>2, <1>2, <1>6
<1>8. /\ (key \o mods) \o set \in Seq(Requests) /\ Len((key \o mods) \o set) = 1 + M + 1
      /\ \A i \in 1..(1 + M) : ((key \o mods) \o set)[i] = (key \o mods)[i]
      /\ \A i \in 1..1 : ((key \o mods) \o set)[1 + M + i] = set[i]
  <2>1. (key \o mods) \in Seq(Requests) /\ set \in Seq(Requests)
    BY <1>7, <1>1
  <2>2. /\ (key \o mods) \o set \in Seq(Requests) /\ Len((key \o mods) \o set) = Len((key \o mods)) + Len(set)
        /\ \A i \in 1..Len((key \o mods)) : ((key \o mods) \o set)[i] = (key \o mods)[i]
        /\ \A i \in 1..Len(set) : ((key \o mods) \o set)[Len((key \o mods)) + i] = set[i]
    BY <2>1, JoinedAt
  <2> QED
    BY <2>2, <1>7, <1>1
<1>9. Keys!Releases = (key \o mods) \o set
  BY DEF Keys!Releases, set, mods, key
<1>10. Keys!Releases[1] = key[1]
  <2>1. 1 \in 1..(1 + M) /\ 1 \in 1..1
    BY ShortcutFacts
  <2> QED
    BY <2>1, <1>7, <1>8, <1>9
<1>11. ASSUME NEW i \in 1..M PROVE Keys!Releases[i + 1] = mods[i]
  <2>1. 1 + i \in 1..(1 + M) /\ 1 + i = i + 1
    BY ShortcutFacts
  <2> QED
    BY <2>1, <1>7, <1>8, <1>9
<1>12. Keys!Releases[M + 2] = set[1] /\ 1 + M + 1 = M + 2
  <2>1. 1 \in 1..1 /\ 1 + M + 1 = M + 2
    BY ShortcutFacts
  <2> QED
    BY <2>1, <1>8, <1>9
<1> QED
  BY <1>1, <1>2, <1>6, <1>8, <1>9, <1>10, <1>11, <1>12

Acts == Requests \cup {Keys!Flush, Keys!Sync}

(* The whole script, place by place.                                       *)
LEMMA ScriptIs ==
  /\ Keys!Script \in Seq(Acts) /\ Len(Keys!Script) = EndPlace /\ DOMAIN Keys!Script = 1..EndPlace
  /\ Keys!Script[1] = Keys!SetModifiers(Keys!Mask)
  /\ \A i \in 1..M : Keys!Script[i + 1] = Keys!Press(ModifierKeys[i])
  /\ Keys!Script[M + 2] = Keys!Press(Keys!Key)
  /\ Keys!Script[M + 3] = Keys!Flush
  /\ Keys!Script[M + 4] = Keys!Release(Keys!Key)
  /\ \A i \in 1..M : Keys!Script[M + 4 + i] = Keys!Release(ModifierKeys[M + 1 - i])
  /\ Keys!Script[2 * M + 5] = Keys!SetModifiers({})
  /\ Keys!Script[2 * M + 6] = Keys!Flush
  /\ Keys!Script[2 * M + 7] = Keys!Sync
<1> DEFINE a == Keys!Presses
           b == <<Keys!Flush>>
           c == Keys!Releases
           d == <<Keys!Flush, Keys!Sync>>
<1>0. M \in Nat
  BY ShortcutFacts
<1>1. a \in Seq(Acts) /\ Len(a) = M + 2
  BY PressesAre, SeqMonotonic DEF Acts
<1>2. c \in Seq(Acts) /\ Len(c) = M + 2
  BY ReleasesAre, SeqMonotonic DEF Acts
<1>3. b \in Seq(Acts) /\ Len(b) = 1 /\ b[1] = Keys!Flush
  BY DEF Acts
<1>4. d \in Seq(Acts) /\ Len(d) = 2 /\ d[1] = Keys!Flush /\ d[2] = Keys!Sync
  BY DEF Acts
<1> HIDE DEF a, b, c, d
<1> DEFINE ab == a \o b
           abc == ab \o c
           abcd == abc \o d
<1>5. /\ ab \in Seq(Acts) /\ Len(ab) = M + 3
      /\ \A i \in 1..(M + 2) : ab[i] = a[i]
      /\ ab[M + 3] = Keys!Flush
  <2>1. /\ ab \in Seq(Acts) /\ Len(ab) = Len(a) + Len(b)
        /\ \A i \in 1..Len(a) : ab[i] = a[i]
        /\ \A i \in 1..Len(b) : ab[Len(a) + i] = b[i]
    BY <1>1, <1>3, JoinedAt
  <2>2. ab[Len(a) + 1] = b[1] /\ Len(a) + 1 = M + 3 /\ Len(a) + Len(b) = M + 3
    BY <2>1, <1>1, <1>3, <1>0
  <2> HIDE DEF ab
  <2> QED
    BY <2>1, <2>2, <1>1, <1>3
<1> HIDE DEF ab
<1>6. /\ abc \in Seq(Acts) /\ Len(abc) = 2 * M + 5
      /\ \A i \in 1..(M + 3) : abc[i] = ab[i]
      /\ \A i \in 1..(M + 2) : abc[M + 3 + i] = c[i]
  <2>1. /\ abc \in Seq(Acts) /\ Len(abc) = Len(ab) + Len(c)
        /\ \A i \in 1..Len(ab) : abc[i] = ab[i]
        /\ \A i \in 1..Len(c) : abc[Len(ab) + i] = c[i]
    <3>1. ab \in Seq(Acts) /\ c \in Seq(Acts)
      BY <1>5, <1>2
    <3> QED
      BY <3>1, JoinedAt
  <2>2. Len(ab) + Len(c) = 2 * M + 5
    BY <1>5, <1>2, <1>0
  <2> HIDE DEF abc
  <2> QED
    BY <2>1, <2>2, <1>5, <1>2
<1> HIDE DEF abc
<1>7. /\ abcd \in Seq(Acts) /\ Len(abcd) = 2 * M + 7
      /\ \A i \in 1..(2 * M + 5) : abcd[i] = abc[i]
      /\ abcd[2 * M + 6] = Keys!Flush /\ abcd[2 * M + 7] = Keys!Sync
  <2>1. /\ abcd \in Seq(Acts) /\ Len(abcd) = Len(abc) + Len(d)
        /\ \A i \in 1..Len(abc) : abcd[i] = abc[i]
        /\ \A i \in 1..Len(d) : abcd[Len(abc) + i] = d[i]
    <3>1. abc \in Seq(Acts) /\ d \in Seq(Acts)
      BY <1>6, <1>4
    <3> QED
      BY <3>1, JoinedAt
  <2>2. abcd[Len(abc) + 1] = d[1] /\ abcd[Len(abc) + 2] = d[2]
    BY <2>1, <1>4
  <2>3. Len(abc) + 1 = 2 * M + 6 /\ Len(abc) + 2 = 2 * M + 7 /\ Len(abc) + Len(d) = 2 * M + 7
    BY <1>6, <1>4, <1>0
  <2> HIDE DEF abcd
  <2> QED
    BY <2>1, <2>2, <2>3, <1>4, <1>6
<1>8. abcd = Keys!Script
  BY DEF abcd, abc, ab, a, b, c, d, Keys!Script
<1> HIDE DEF abcd
<1>9. \A i \in 1..(M + 2) : Keys!Script[i] = a[i]
  <2>1. \A i \in 1..(M + 2) : i \in 1..(M + 3) /\ i \in 1..(2 * M + 5)
    BY <1>0
  <2> QED
    BY <2>1, <1>5, <1>6, <1>7, <1>8
<1>10. \A i \in 1..(M + 2) : Keys!Script[M + 3 + i] = c[i]
  <2>1. \A i \in 1..(M + 2) : M + 3 + i \in 1..(2 * M + 5)
    BY <1>0
  <2> QED
    BY <2>1, <1>6, <1>7, <1>8
<1>11. Keys!Script[M + 3] = Keys!Flush
  <2>1. M + 3 \in 1..(M + 3) /\ M + 3 \in 1..(2 * M + 5)
    BY <1>0
  <2> QED
    BY <2>1, <1>5, <1>6, <1>7, <1>8
<1>12. Keys!Script[1] = a[1] /\ Keys!Script[M + 2] = a[M + 2]
  BY <1>9, <1>0
<1>13. \A i \in 1..M : Keys!Script[i + 1] = a[i + 1]
  <2>1. \A i \in 1..M : i + 1 \in 1..(M + 2)
    BY <1>0
  <2> QED
    BY <2>1, <1>9
<1>14. Keys!Script[M + 4] = c[1] /\ Keys!Script[2 * M + 5] = c[M + 2]
  <2>1. 1 \in 1..(M + 2) /\ M + 2 \in 1..(M + 2) /\ M + 3 + 1 = M + 4 /\ M + 3 + (M + 2) = 2 * M + 5
    BY <1>0
  <2>2. Keys!Script[M + 3 + 1] = c[1] /\ Keys!Script[M + 3 + (M + 2)] = c[M + 2]
    BY <2>1, <1>10
  <2> QED
    BY <2>1, <2>2
<1>15. ASSUME NEW i \in 1..M PROVE Keys!Script[M + 4 + i] = c[i + 1]
  <2>1. i + 1 \in 1..(M + 2) /\ M + 3 + (i + 1) = M + 4 + i
    BY <1>0
  <2>2. Keys!Script[M + 3 + (i + 1)] = c[i + 1]
    BY <2>1, <1>10
  <2> QED
    BY <2>1, <2>2
<1>16. Keys!Script \in Seq(Acts) /\ Len(Keys!Script) = EndPlace
  BY <1>7, <1>8 DEF EndPlace
<1>17. DOMAIN Keys!Script = 1..EndPlace
  BY <1>16
<1> USE DEF a, c
<1> QED
  BY <1>7, <1>8, <1>11, <1>12, <1>13, <1>14, <1>15, <1>16, <1>17, PressesAre, ReleasesAre

(* What kind of request each place of the script is.                       *)
LEMMA PlacesAre ==
  ASSUME NEW n \in 1..EndPlace
  PROVE  /\ n = 1 => Keys!Script[n] = Keys!SetModifiers(Keys!Mask)
         /\ n \in 2..KeyPlace => \E k \in ChordKeys : Keys!Script[n] = Keys!Press(k)
         /\ n \in (M + 4)..(2 * M + 5) => \/ Keys!Script[n] = Keys!SetModifiers({})
                                         \/ \E k \in ChordKeys : Keys!Script[n] = Keys!Release(k)
         /\ n = M + 3 \/ n = 2 * M + 6 => Keys!Script[n] = Keys!Flush
         /\ n = EndPlace => Keys!Script[n] = Keys!Sync
<1>0. M \in Nat /\ n \in Nat
  BY ShortcutFacts DEF EndPlace
<1>1. ASSUME n \in 2..KeyPlace PROVE \E k \in ChordKeys : Keys!Script[n] = Keys!Press(k)
  <2>1. CASE n = M + 2
    BY <2>1, ScriptIs DEF ChordKeys
  <2>2. CASE n # M + 2
    <3>1. n - 1 \in 1..M /\ (n - 1) + 1 = n
      BY <1>0, <1>1, <2>2 DEF KeyPlace
    <3>2. Keys!Script[(n - 1) + 1] = Keys!Press(ModifierKeys[n - 1])
      BY <3>1, ScriptIs
    <3>3. ModifierKeys[n - 1] \in ChordKeys
      BY <3>1, ShortcutFacts DEF ChordKeys
    <3> QED
      BY <3>1, <3>2, <3>3
  <2> QED
    BY <2>1, <2>2
<1>2. ASSUME n \in (M + 4)..(2 * M + 5)
      PROVE  \/ Keys!Script[n] = Keys!SetModifiers({})
             \/ \E k \in ChordKeys : Keys!Script[n] = Keys!Release(k)
  <2>1. CASE n = M + 4
    BY <2>1, ScriptIs DEF ChordKeys
  <2>2. CASE n = 2 * M + 5
    BY <2>2, ScriptIs
  <2>3. CASE n # M + 4 /\ n # 2 * M + 5
    <3>1. n - (M + 4) \in 1..M /\ M + 4 + (n - (M + 4)) = n /\ M + 1 - (n - (M + 4)) \in 1..M
      BY <1>0, <1>2, <2>3
    <3>2. Keys!Script[M + 4 + (n - (M + 4))] = Keys!Release(ModifierKeys[M + 1 - (n - (M + 4))])
      BY <3>1, ScriptIs
    <3>3. ModifierKeys[M + 1 - (n - (M + 4))] \in ChordKeys
      BY <3>1, ShortcutFacts DEF ChordKeys
    <3> QED
      BY <3>1, <3>2, <3>3
  <2> QED
    BY <2>1, <2>2, <2>3
<1> QED
  BY <1>1, <1>2, ScriptIs DEF EndPlace

(* The places are told apart by the requests that are at them.             *)
LEMMA PlacesDiffer ==
  ASSUME NEW n \in 1..EndPlace
  PROVE  /\ Keys!Script[n] = Keys!Flush <=> n \in {M + 3, 2 * M + 6}
         /\ Keys!Script[n] = Keys!Sync <=> n = EndPlace
         /\ Keys!Script[n] = Keys!Press(Keys!Key) <=> n = KeyPlace
         /\ n \in 1..KeyPlace \/ n \in (M + 4)..(2 * M + 5) => Keys!Script[n] \in Requests
         /\ n \in (M + 4)..(2 * M + 5) =>
              Keys!Script[n].type = "release" \/ Keys!Script[n] = Keys!SetModifiers({})
<1>0. M \in Nat /\ n \in Nat
  BY ShortcutFacts DEF EndPlace
<1>1. \/ n = 1 \/ n \in 2..KeyPlace \/ n \in (M + 4)..(2 * M + 5)
      \/ n \in {M + 3, 2 * M + 6} \/ n = EndPlace
  BY <1>0 DEF KeyPlace, EndPlace
<1>2. CASE n = 1
  <2>1. Keys!Script[n] = Keys!SetModifiers(Keys!Mask) /\ Keys!Script[n].type = "modifiers"
    BY <1>2, PlacesAre, RequestFacts
  <2>2. n \notin {M + 3, 2 * M + 6} /\ n # EndPlace /\ n # KeyPlace /\ n \notin (M + 4)..(2 * M + 5)
    BY <1>2, <1>0 DEF KeyPlace, EndPlace
  <2>3. Keys!Script[n] # Keys!Flush /\ Keys!Script[n] # Keys!Sync /\ Keys!Script[n] # Keys!Press(Keys!Key)
    BY <2>1, RequestFacts
  <2> QED
    BY <2>1, <2>2, <2>3 DEF Requests
<1>3. CASE n \in 2..KeyPlace
  <2>1. PICK k \in ChordKeys : Keys!Script[n] = Keys!Press(k)
    BY <1>3, PlacesAre
  <2>2. n \notin {M + 3, 2 * M + 6} /\ n # EndPlace /\ n \notin (M + 4)..(2 * M + 5)
    BY <1>3, <1>0 DEF KeyPlace, EndPlace
  <2>3. Keys!Script[n] # Keys!Flush /\ Keys!Script[n] # Keys!Sync
    BY <2>1, RequestFacts
  <2>4. CASE n = KeyPlace
    BY <2>1, <2>2, <2>3, <2>4, ScriptIs DEF Requests, KeyPlace
  <2>5. CASE n # KeyPlace
    <3>1. n - 1 \in 1..M /\ (n - 1) + 1 = n
      BY <1>0, <1>3, <2>5 DEF KeyPlace
    <3>2. Keys!Script[n] = Keys!Press(ModifierKeys[n - 1])
      BY <3>1, ScriptIs
    <3>3. Keys!Script[n] # Keys!Press(Keys!Key)
      BY <3>1, <3>2, ShortcutFacts, RequestFacts
    <3> QED
      BY <2>1, <2>2, <2>3, <2>5, <3>3 DEF Requests
  <2> QED
    BY <2>4, <2>5
<1>4. CASE n \in (M + 4)..(2 * M + 5)
  <2>1. n \notin {M + 3, 2 * M + 6} /\ n # EndPlace /\ n # KeyPlace
    BY <1>4, <1>0 DEF KeyPlace, EndPlace
  <2>2. CASE Keys!Script[n] = Keys!SetModifiers({})
    <3>1. Keys!Script[n].type = "modifiers"
      BY <2>2, RequestFacts
    <3>2. Keys!Script[n] # Keys!Flush /\ Keys!Script[n] # Keys!Sync /\ Keys!Script[n] # Keys!Press(Keys!Key)
      BY <3>1, RequestFacts
    <3> QED
      BY <2>1, <2>2, <3>2 DEF Requests
  <2>3. ASSUME NEW k \in ChordKeys, Keys!Script[n] = Keys!Release(k)
        PROVE  /\ Keys!Script[n].type = "release" /\ Keys!Script[n] \in Requests
               /\ Keys!Script[n] # Keys!Flush /\ Keys!Script[n] # Keys!Sync
               /\ Keys!Script[n] # Keys!Press(Keys!Key)
    BY <2>3, RequestFacts DEF Requests
  <2> QED
    BY <1>4, <2>1, <2>2, <2>3, PlacesAre
<1>5. CASE n \in {M + 3, 2 * M + 6}
  <2>1. Keys!Script[n] = Keys!Flush
    BY <1>5, PlacesAre
  <2>2. n # EndPlace /\ n \notin 1..KeyPlace /\ n \notin (M + 4)..(2 * M + 5) /\ n # KeyPlace
    BY <1>5, <1>0 DEF KeyPlace, EndPlace
  <2>3. Keys!Flush # Keys!Sync /\ Keys!Flush # Keys!Press(Keys!Key)
    BY RequestFacts
  <2> QED
    BY <1>5, <2>1, <2>2, <2>3
<1>6. CASE n = EndPlace
  <2>1. Keys!Script[n] = Keys!Sync
    BY <1>6, PlacesAre
  <2>2. n \notin {M + 3, 2 * M + 6} /\ n \notin 1..KeyPlace /\ n \notin (M + 4)..(2 * M + 5) /\ n # KeyPlace
    BY <1>6, <1>0 DEF KeyPlace, EndPlace
  <2>3. Keys!Flush # Keys!Sync /\ Keys!Sync # Keys!Press(Keys!Key)
    BY RequestFacts
  <2> QED
    BY <1>6, <2>1, <2>2, <2>3
<1> QED
  BY <1>1, <1>2, <1>3, <1>4, <1>5, <1>6

-----------------------------------------------------------------------------
(* The queue of requests, and each step of the keyboard.                   *)

LEMMA QueueFacts ==
  ASSUME KeyboardTyped
  PROVE  /\ Queued \in Seq(Request) /\ Len(Queued) = Len(wire) + Len(outbox)
         /\ DOMAIN Queued = 1..(Len(wire) + Len(outbox))
         /\ Len(wire) \in Nat /\ Len(outbox) \in Nat
         /\ DOMAIN wire = 1..Len(wire) /\ DOMAIN outbox = 1..Len(outbox)
         /\ \A i \in 1..Len(wire) : Queued[i] = wire[i]
         /\ \A i \in 1..Len(outbox) : Queued[Len(wire) + i] = outbox[i]
         /\ \A k \in DOMAIN Queued : Queued[k].does \in Requests /\ Queued[k].by \in Processes
<1>1. wire \in Seq(Request) /\ outbox \in Seq(Request)
  BY DEF KeyboardTyped
<1>2. /\ Queued \in Seq(Request) /\ Len(Queued) = Len(wire) + Len(outbox)
      /\ DOMAIN Queued = 1..(Len(wire) + Len(outbox))
      /\ Len(wire) \in Nat /\ Len(outbox) \in Nat
      /\ \A i \in 1..Len(wire) : Queued[i] = wire[i]
      /\ \A i \in 1..Len(outbox) : Queued[Len(wire) + i] = outbox[i]
  BY <1>1, JoinedAt DEF Queued
<1>3. \A k \in DOMAIN Queued : Queued[k] \in Request
  BY <1>2
<1>4. DOMAIN wire = 1..Len(wire) /\ DOMAIN outbox = 1..Len(outbox)
  BY <1>1
<1> QED
  BY <1>2, <1>3, <1>4 DEF Request

(* What is pending is as it was when all of it is, and nothing is handled. *)
LEMMA SameQueueIsSame ==
  ASSUME Queued' = Queued, UNCHANGED <<alive, held, mask>>
  PROVE  /\ ChordsAreWhole => ChordsAreWhole'
         /\ \A act : Undone(act) => Undone(act)'
BY DEF ChordsAreWhole, Done, Undone, Stands

LEMMA OthersAreOutside ==
  ASSUME KeyboardInv, NEW s \in Processes, place[s] # 0
  PROVE  holder = {s} /\ \A t \in Processes : t # s => place[t] = 0
BY DEF KeyboardInv, OneInside

(* Whoever leaves the lock leaves nobody in a send.                        *)
LEMMA UnlockKeeps ==
  ASSUME KeyboardInv, NEW s \in Processes, place[s] # 0, Keys!Unlock(s),
         UNCHANGED <<alive, held, mask>>, Queued' = Queued,
         wire' \in Seq(Request), outbox' \in Seq(Request), ~alive => wire' = << >>
  PROVE  KeyboardInv'
<1>1. holder' = {} /\ place' = [place EXCEPT ![s] = 0]
  BY OthersAreOutside DEF Keys!Unlock
<1>2. place \in [Processes -> 0..Len(Keys!Script)]
  BY DEF KeyboardInv, KeyboardTyped, Keys!KeyboardTypeOK
<1>3. \A t \in Processes : place'[t] = 0
  BY <1>1, <1>2, OthersAreOutside
<1>4. place' \in [Processes -> 0..Len(Keys!Script)]
  <2>1. 0 \in 0..Len(Keys!Script)
    BY ScriptIs, ShortcutFacts DEF EndPlace
  <2> QED
    BY <1>1, <1>2, <2>1
<1>5. KeyboardTyped'
  BY <1>1, <1>4 DEF KeyboardInv, KeyboardTyped, Keys!KeyboardTypeOK, Keys!Mask
<1>6. OneInside'
  BY <1>1, <1>3 DEF OneInside
<1>7. GoneHoldsNothing'
  BY DEF KeyboardInv, GoneHoldsNothing
<1>8. ChordsAreWhole'
  BY SameQueueIsSame DEF KeyboardInv
<1>9. ChordIsBegun' /\ ReleasesUndo' /\ FlushedBeforeSync'
  <2>1. /\ 0 \notin 1..(KeyPlace + 1) /\ 0 # EndPlace
        /\ \A n \in (M + 4)..(2 * M + 5) : ~(0 > n)
    BY ShortcutFacts DEF KeyPlace, EndPlace
  <2>2. \A t \in Processes :
          /\ place'[t] \notin 1..(KeyPlace + 1) /\ place'[t] # EndPlace
          /\ \A n \in (M + 4)..(2 * M + 5) : ~(place'[t] > n)
    BY <2>1, <1>3
  <2> QED
    BY <2>2 DEF ChordIsBegun, ReleasesUndo, FlushedBeforeSync, M, KeyPlace, EndPlace
<1> QED
  BY <1>5, <1>6, <1>7, <1>8, <1>9 DEF KeyboardInv

LEMMA JoinIsAssociative ==
  \A S : \A a, b, c \in Seq(S) : (a \o b) \o c = a \o (b \o c)
BY ConcatAssociative

(* A send that ends leaves what is pending as it is, however much of it is *)
(* written.                                                                *)
LEMMA SendFailsIs ==
  ASSUME KeyboardInv, NEW s \in Processes, Keys!SendFails(s) \/ Keys!Sent(s)
  PROVE  /\ place[s] # 0 /\ Keys!Unlock(s) /\ UNCHANGED <<alive, held, mask>> /\ Queued' = Queued
         /\ wire' \in Seq(Request) /\ outbox' \in Seq(Request) /\ (~alive => wire' = << >>)
<1>1. wire \in Seq(Request) /\ outbox \in Seq(Request) /\ (~alive => wire = << >>)
  BY DEF KeyboardInv, KeyboardTyped, GoneHoldsNothing
<1>2. CASE Keys!SyncFails(s) \/ Keys!Panics(s) \/ Keys!Sent(s)
  <2>1. /\ place[s] # 0 /\ Keys!Unlock(s) /\ UNCHANGED <<alive, outbox, wire, held, mask>>
    BY <1>2 DEF Keys!SyncFails, Keys!Panics, Keys!Sent, Keys!Does, Keys!Sending
  <2>2. Queued' = Queued
    BY <2>1 DEF Queued
  <2> QED
    BY <1>1, <2>1, <2>2
<1>3. CASE Keys!WriteFails(s) /\ ~alive
  <2>1. /\ place[s] # 0 /\ Keys!Unlock(s) /\ UNCHANGED <<alive, outbox, wire, held, mask>>
    BY <1>3 DEF Keys!WriteFails, Keys!Does, Keys!Sending
  <2>2. Queued' = Queued
    BY <2>1 DEF Queued
  <2> QED
    BY <1>1, <2>1, <2>2
<1>4. CASE Keys!WriteFails(s) /\ alive
  <2>1. place[s] # 0 /\ Keys!Unlock(s) /\ UNCHANGED <<alive, held, mask>>
    BY <1>4 DEF Keys!WriteFails, Keys!Does, Keys!Sending
  <2>2. PICK n \in 0..(Len(outbox) - 1) :
          /\ wire' = wire \o SubSeq(outbox, 1, n)
          /\ outbox' = SubSeq(outbox, n + 1, Len(outbox))
    BY <1>4 DEF Keys!WriteFails
  <2> DEFINE first == SubSeq(outbox, 1, n)
             rest == SubSeq(outbox, n + 1, Len(outbox))
  <2>3. first \in Seq(Request) /\ rest \in Seq(Request)
    <3>1. n \in Int /\ Len(outbox) \in Nat /\ \A i \in 1..Len(outbox) : outbox[i] \in Request
      BY <1>1
    <3>2. /\ \A i \in 1..n : outbox[i] \in Request
          /\ \A i \in (n + 1)..Len(outbox) : outbox[i] \in Request
      BY <3>1
    <3> QED
      BY <3>1, <3>2, SubSeqProperties
  <2>4. first \o rest = outbox
    <3>1. /\ 1 \in 1..Len(outbox) + 1 /\ n \in (1 - 1)..Len(outbox) /\ Len(outbox) \in n..Len(outbox)
      BY <1>1
    <3>2. first \o rest = SubSeq(outbox, 1, Len(outbox))
      BY <1>1, <3>1, ConcatAdjacentSubSeq
    <3> QED
      BY <1>1, <3>2, SubSeqFull
  <2> HIDE DEF first, rest
  <2>5. (wire \o first) \o rest = wire \o (first \o rest)
    <3>1. wire \in Seq(Request) /\ first \in Seq(Request) /\ rest \in Seq(Request)
      BY <1>1, <2>3
    <3> HIDE DEF Request
    <3> QED
      BY <3>1, JoinIsAssociative
  <2>6. wire' = wire \o first /\ outbox' = rest
    BY <2>2 DEF first, rest
  <2>7. Queued' = Queued
    BY <2>4, <2>5, <2>6 DEF Queued
  <2>8. wire' \in Seq(Request) /\ outbox' \in Seq(Request)
    BY <1>1, <2>3, <2>6
  <2> QED
    BY <1>4, <2>1, <2>7, <2>8
<1> QED
  BY <1>2, <1>3, <1>4 DEF Keys!SendFails

LEMMA SendFailsKeeps ==
  ASSUME KeyboardInv, NEW s \in Processes, Keys!SendFails(s) \/ Keys!Sent(s)
  PROVE  KeyboardInv'
BY SendFailsIs, UnlockKeeps

LEMMA LockKeeps ==
  ASSUME KeyboardInv, NEW s \in Processes, Keys!Lock(s)
  PROVE  KeyboardInv'
<1>1. /\ holder = {} /\ holder' = {s} /\ place' = [place EXCEPT ![s] = 1]
      /\ UNCHANGED <<alive, outbox, wire, held, mask>>
  BY DEF Keys!Lock
<1>2. place \in [Processes -> 0..Len(Keys!Script)]
  BY DEF KeyboardInv, KeyboardTyped, Keys!KeyboardTypeOK
<1>3. \A t \in Processes : place[t] = 0
  BY <1>1 DEF KeyboardInv, OneInside
<1>4. /\ place' \in [Processes -> 0..Len(Keys!Script)]
      /\ \A t \in Processes : place'[t] = IF t = s THEN 1 ELSE 0
  <2>1. 1 \in 0..Len(Keys!Script)
    BY ScriptIs, ShortcutFacts DEF EndPlace
  <2> QED
    BY <1>1, <1>2, <1>3, <2>1
<1>5. KeyboardTyped'
  BY <1>1, <1>4 DEF KeyboardInv, KeyboardTyped, Keys!KeyboardTypeOK, Keys!Mask
<1>6. OneInside'
  BY <1>1, <1>4 DEF OneInside
<1>7. GoneHoldsNothing'
  BY <1>1 DEF KeyboardInv, GoneHoldsNothing
<1>8. Queued' = Queued
  BY <1>1 DEF Queued
<1>9. ChordsAreWhole'
  BY <1>1, <1>8, SameQueueIsSame DEF KeyboardInv
<1>10. ChordIsBegun'
  <2>1. ASSUME NEW t \in Processes, place'[t] \in 1..(KeyPlace + 1) PROVE place'[t] = 1
    BY <2>1, <1>4
  <2>2. Len(outbox) \in Nat /\ Len(outbox) + 1 >= 1 /\ 1..(1 - 1) = {}
    BY QueueFacts DEF KeyboardInv
  <2> QED
    BY <2>1, <2>2, <1>1 DEF ChordIsBegun, KeyPlace, M
<1>11. ReleasesUndo' /\ FlushedBeforeSync'
  <2>1. \A t \in Processes : place'[t] # EndPlace /\ \A n \in (M + 4)..(2 * M + 5) : ~(place'[t] > n)
    BY <1>4, ShortcutFacts DEF EndPlace
  <2> QED
    BY <2>1 DEF ReleasesUndo, FlushedBeforeSync, M, EndPlace
<1> QED
  BY <1>5, <1>6, <1>7, <1>9, <1>10, <1>11 DEF KeyboardInv

LEMMA WriteKeeps ==
  ASSUME KeyboardInv, NEW s \in Processes, Keys!Write(s)
  PROVE  KeyboardInv'
<1>1. /\ place[s] # 0 /\ Keys!Script[place[s]] = Keys!Flush /\ alive
      /\ wire' = wire \o outbox /\ outbox' = << >> /\ place' = [place EXCEPT ![s] = @ + 1]
      /\ UNCHANGED <<alive, holder, held, mask>>
  BY DEF Keys!Write, Keys!Does, Keys!Sending, Keys!Onward
<1>2. place \in [Processes -> 0..EndPlace] /\ wire \in Seq(Request) /\ outbox \in Seq(Request)
  BY ScriptIs DEF KeyboardInv, KeyboardTyped, Keys!KeyboardTypeOK
<1>3. M \in Nat /\ EndPlace = 2 * M + 7 /\ KeyPlace = M + 2
  BY ShortcutFacts DEF EndPlace, KeyPlace
<1>4. place[s] \in {M + 3, 2 * M + 6}
  <2>1. place[s] \in 1..EndPlace
    BY <1>1, <1>2, <1>3
  <2> QED
    BY <2>1, <1>1, PlacesDiffer
<1>5. \A t \in Processes : place'[t] = IF t = s THEN place[s] + 1 ELSE 0
  BY <1>1, <1>2, OthersAreOutside
<1>6. place' \in [Processes -> 0..Len(Keys!Script)]
  <2>1. place[s] + 1 \in 0..Len(Keys!Script)
    BY <1>3, <1>4, ScriptIs
  <2> QED
    BY <2>1, <1>1, <1>2, ScriptIs
<1>7. wire' \in Seq(Request) /\ outbox' \in Seq(Request)
  BY <1>1, <1>2, ConcatProperties
<1>8. Queued' = Queued
  BY <1>1, <1>7, ConcatEmptySeq DEF Queued
<1>9. KeyboardTyped'
  BY <1>1, <1>6, <1>7 DEF KeyboardInv, KeyboardTyped, Keys!KeyboardTypeOK, Keys!Mask
<1>10. OneInside'
  <2>1. place[s] + 1 # 0 /\ holder = {s}
    BY <1>3, <1>4, <1>1, OthersAreOutside
  <2> QED
    BY <2>1, <1>1, <1>5 DEF OneInside
<1>11. GoneHoldsNothing'
  BY <1>1 DEF GoneHoldsNothing
<1>12. ChordsAreWhole'
  BY <1>1, <1>8, SameQueueIsSame DEF KeyboardInv
<1>13. ChordIsBegun'
  <2>1. \A t \in Processes : place'[t] \notin 1..(KeyPlace + 1)
    BY <1>3, <1>4, <1>5
  <2> QED
    BY <2>1 DEF ChordIsBegun, KeyPlace, M
<1>14. ReleasesUndo'
  <2>1. ASSUME NEW t \in Processes, NEW n \in (M + 4)..(2 * M + 5), place'[t] > n
        PROVE  Undone(Keys!Script[n])'
    <3>1. t = s /\ place[s] > n
      BY <2>1, <1>3, <1>4, <1>5
    <3>2. Undone(Keys!Script[n])
      BY <3>1, <1>1 DEF KeyboardInv, ReleasesUndo
    <3> QED
      BY <3>2, <1>1, <1>8, SameQueueIsSame
  <2> QED
    BY <2>1 DEF ReleasesUndo, M
<1>15. FlushedBeforeSync'
  BY <1>1 DEF FlushedBeforeSync
<1> QED
  BY <1>9, <1>10, <1>11, <1>12, <1>13, <1>14, <1>15 DEF KeyboardInv

(* A request that is queued.                                               *)
LEMMA QueueIs ==
  ASSUME KeyboardInv, NEW s \in Processes, Keys!Queue(s)
  PROVE  LET n == place[s]
             e == [by |-> s, does |-> Keys!Script[n]]
         IN  /\ n \in 1..KeyPlace \/ n \in (M + 4)..(2 * M + 5)
             /\ e \in Request /\ outbox' = Append(outbox, e) /\ wire' = wire
             /\ outbox' \in Seq(Request) /\ Len(outbox') = Len(outbox) + 1
             /\ \A i \in 1..Len(outbox) : outbox'[i] = outbox[i]
             /\ outbox'[Len(outbox) + 1] = e
             /\ \A t \in Processes : place'[t] = IF t = s THEN n + 1 ELSE 0
             /\ place' \in [Processes -> 0..EndPlace]
             /\ UNCHANGED <<alive, holder, held, mask>>
<1> DEFINE n == place[s]
           e == [by |-> s, does |-> Keys!Script[n]]
<1>1. /\ n # 0 /\ Keys!Script[n] # Keys!Flush /\ Keys!Script[n] # Keys!Sync
      /\ outbox' = Append(outbox, e) /\ place' = [place EXCEPT ![s] = @ + 1]
      /\ UNCHANGED <<alive, holder, wire, held, mask>>
  BY DEF Keys!Queue, Keys!Sending, Keys!Onward
<1>2. place \in [Processes -> 0..EndPlace] /\ outbox \in Seq(Request)
  BY ScriptIs DEF KeyboardInv, KeyboardTyped, Keys!KeyboardTypeOK
<1>3. M \in Nat /\ EndPlace = 2 * M + 7 /\ KeyPlace = M + 2
  BY ShortcutFacts DEF EndPlace, KeyPlace
<1>4. n \in 1..EndPlace
  BY <1>1, <1>2, <1>3
<1>5. n \in 1..KeyPlace \/ n \in (M + 4)..(2 * M + 5)
  <2>1. n \notin {M + 3, 2 * M + 6} /\ n # EndPlace
    BY <1>1, <1>4, PlacesDiffer
  <2> QED
    BY <2>1, <1>3, <1>4
<1>6. e \in Request
  BY <1>4, <1>5, PlacesDiffer DEF Request
<1>7. \A t \in Processes : place'[t] = IF t = s THEN n + 1 ELSE 0
  BY <1>1, <1>2, OthersAreOutside
<1>8. place' \in [Processes -> 0..EndPlace]
  <2>1. n + 1 \in 0..EndPlace
    BY <1>3, <1>5
  <2> QED
    BY <2>1, <1>1, <1>2
<1>9. /\ outbox' \in Seq(Request) /\ Len(outbox') = Len(outbox) + 1
      /\ \A i \in 1..Len(outbox) : outbox'[i] = outbox[i]
      /\ outbox'[Len(outbox) + 1] = e
  <2> HIDE DEF e
  <2> QED
    BY <1>1, <1>2, <1>6, AppendProperties
<1> QED
  BY <1>1, <1>5, <1>6, <1>7, <1>8, <1>9

LEMMA QueueKeeps ==
  ASSUME KeyboardInv, NEW s \in Processes, Keys!Queue(s)
  PROVE  KeyboardInv'
<1> DEFINE n == place[s]
           e == [by |-> s, does |-> Keys!Script[n]]
           L == Len(wire) + Len(outbox)
<1>1. /\ n \in 1..KeyPlace \/ n \in (M + 4)..(2 * M + 5)
      /\ e \in Request /\ wire' = wire
      /\ outbox' \in Seq(Request) /\ Len(outbox') = Len(outbox) + 1
      /\ \A i \in 1..Len(outbox) : outbox'[i] = outbox[i]
      /\ outbox'[Len(outbox) + 1] = e
      /\ \A t \in Processes : place'[t] = IF t = s THEN n + 1 ELSE 0
      /\ place' \in [Processes -> 0..EndPlace]
      /\ UNCHANGED <<alive, holder, held, mask>>
  BY QueueIs
<1>2. M \in Nat /\ EndPlace = 2 * M + 7 /\ KeyPlace = M + 2 /\ n \in Nat /\ n \in 1..EndPlace
  <2>1. M \in Nat /\ EndPlace = 2 * M + 7 /\ KeyPlace = M + 2
    BY ShortcutFacts DEF EndPlace, KeyPlace
  <2> QED
    BY <2>1, <1>1
<1>3. KeyboardTyped'
  BY <1>1, ScriptIs DEF KeyboardInv, KeyboardTyped, Keys!KeyboardTypeOK, Keys!Mask
<1>4. OneInside'
  <2>1. n # 0 /\ n + 1 # 0
    BY <1>1, <1>2
  <2>2. holder = {s}
    BY <2>1, OthersAreOutside
  <2> QED
    BY <2>1, <2>2, <1>1 DEF OneInside
<1>5. GoneHoldsNothing'
  BY <1>1 DEF KeyboardInv, GoneHoldsNothing
<1>6. /\ DOMAIN Queued = 1..L /\ DOMAIN Queued' = 1..(L + 1) /\ L \in Nat
      /\ \A k \in 1..L : Queued'[k] = Queued[k]
      /\ Queued'[L + 1] = e
  <2>1. KeyboardTyped /\ KeyboardTyped'
    BY <1>3 DEF KeyboardInv
  <2>2. /\ DOMAIN Queued = 1..L /\ Len(wire) \in Nat /\ Len(outbox) \in Nat
        /\ \A i \in 1..Len(wire) : Queued[i] = wire[i]
        /\ \A i \in 1..Len(outbox) : Queued[Len(wire) + i] = outbox[i]
    BY <2>1, QueueFacts
  <2>3. /\ DOMAIN Queued' = 1..(Len(wire') + Len(outbox'))
        /\ \A i \in 1..Len(wire') : Queued'[i] = wire'[i]
        /\ \A i \in 1..Len(outbox') : Queued'[Len(wire') + i] = outbox'[i]
    <3>1. wire' \in Seq(Request) /\ outbox' \in Seq(Request)
      BY <2>1 DEF KeyboardTyped, Request, Requests, ChordKeys
    <3>2. Queued' = wire' \o outbox'
      BY DEF Queued
    <3> QED
      BY <3>1, <3>2, JoinedAt
  <2>4. L \in Nat /\ DOMAIN Queued' = 1..(L + 1)
    BY <2>2, <2>3, <1>1
  <2>5. ASSUME NEW k \in 1..L PROVE Queued'[k] = Queued[k]
    <3>1. CASE k \in 1..Len(wire)
      BY <3>1, <2>2, <2>3, <1>1
    <3>2. CASE k \notin 1..Len(wire)
      <4>1. /\ k - Len(wire) \in 1..Len(outbox) /\ k - Len(wire) \in 1..(Len(outbox) + 1)
            /\ Len(wire) + (k - Len(wire)) = k
        BY <3>2, <2>2
      <4>2. Queued[Len(wire) + (k - Len(wire))] = outbox[k - Len(wire)]
        BY <4>1, <2>2
      <4>3. Queued'[Len(wire) + (k - Len(wire))] = outbox'[k - Len(wire)]
        BY <4>1, <2>3, <1>1
      <4> QED
        BY <4>1, <4>2, <4>3, <1>1
    <3> QED
      BY <3>1, <3>2
  <2>6. Queued'[L + 1] = e
    <3>1. Len(outbox) + 1 \in 1..(Len(outbox) + 1) /\ Len(wire) + (Len(outbox) + 1) = L + 1
      BY <2>2
    <3>2. Queued'[Len(wire) + (Len(outbox) + 1)] = outbox'[Len(outbox) + 1]
      BY <3>1, <2>3, <1>1
    <3> QED
      BY <3>1, <3>2, <1>1
  <2> QED
    BY <2>2, <2>4, <2>5, <2>6
<1>7. e.does = Keys!Script[n]
  OBVIOUS
<1> HIDE DEF e, L
<1>8. ASSUME alive, NEW k \in DOMAIN Queued', Queued'[k].does = Keys!Press(Keys!Key), NEW j \in 1..(M + 1)
      PROVE  IF k + j > KeyPlace THEN Queued'[k + j - KeyPlace].does = Keys!Script[j] ELSE Done(Keys!Script[j])'
  <2>1. CASE k \in 1..L
    <3>1. Queued[k].does = Keys!Press(Keys!Key) /\ k \in DOMAIN Queued
      BY <2>1, <1>6, <1>8
    <3>2. IF k + j > KeyPlace THEN Queued[k + j - KeyPlace].does = Keys!Script[j] ELSE Done(Keys!Script[j])
      BY <3>1, <1>8 DEF KeyboardInv, ChordsAreWhole
    <3>3. CASE k + j > KeyPlace
      <4>1. k + j - KeyPlace \in 1..L
        BY <3>3, <2>1, <1>2, <1>6
      <4> QED
        BY <3>2, <3>3, <4>1, <1>6
    <3>4. CASE ~(k + j > KeyPlace)
      BY <3>2, <3>4, <1>1 DEF Done
    <3> QED
      BY <3>3, <3>4
  <2>2. CASE k = L + 1
    <3>1. n = KeyPlace
      <4>1. Keys!Script[n] = Keys!Press(Keys!Key)
        BY <2>2, <1>6, <1>7, <1>8
      <4> QED
        BY <4>1, <1>2, PlacesDiffer
    <3>2. /\ Len(outbox) + 1 >= KeyPlace
          /\ \A i \in 1..(KeyPlace - 1) : outbox[Len(outbox) + 1 + i - KeyPlace].does = Keys!Script[i]
      <4>1. place[s] \in 1..(KeyPlace + 1)
        BY <3>1, <1>2
      <4> QED
        BY <4>1, <3>1, <1>8 DEF KeyboardInv, ChordIsBegun
    <3>3. Len(wire) \in Nat /\ Len(outbox) \in Nat /\ L = Len(wire) + Len(outbox)
      BY QueueFacts DEF KeyboardInv, L
    <3>4. /\ k + j > KeyPlace /\ j \in 1..(KeyPlace - 1)
          /\ Len(outbox) + 1 + j - KeyPlace \in 1..Len(outbox)
          /\ Len(wire) + (Len(outbox) + 1 + j - KeyPlace) = k + j - KeyPlace
          /\ k + j - KeyPlace \in 1..L
      BY <2>2, <3>2, <3>3, <1>2
    <3>5. Queued[k + j - KeyPlace] = outbox[Len(outbox) + 1 + j - KeyPlace]
      <4>1. Queued[Len(wire) + (Len(outbox) + 1 + j - KeyPlace)] = outbox[Len(outbox) + 1 + j - KeyPlace]
        BY <3>4, QueueFacts DEF KeyboardInv
      <4> QED
        BY <4>1, <3>4
    <3> QED
      BY <3>2, <3>4, <3>5, <1>6
  <2> QED
    BY <2>1, <2>2, <1>6
<1>9. ChordsAreWhole'
  BY <1>1, <1>8 DEF ChordsAreWhole, M, KeyPlace
<1>10. ASSUME alive, NEW t \in Processes, place'[t] \in 1..(KeyPlace + 1)
       PROVE  /\ Len(outbox') + 1 >= place'[t]
              /\ \A j \in 1..(place'[t] - 1) : outbox'[Len(outbox') + 1 + j - place'[t]].does = Keys!Script[j]
  <2>1. t = s /\ place'[t] = n + 1 /\ n \in 1..KeyPlace
    BY <1>10, <1>1, <1>2
  <2>2. n \in 1..(KeyPlace + 1)
    BY <2>1, <1>2
  <2>3. /\ Len(outbox) + 1 >= n
        /\ \A j \in 1..(n - 1) : outbox[Len(outbox) + 1 + j - n].does = Keys!Script[j]
    BY <2>2, <1>10 DEF KeyboardInv, ChordIsBegun
  <2>4. Len(outbox) \in Nat
    BY QueueFacts DEF KeyboardInv
  <2>5. Len(outbox') + 1 >= place'[t]
    BY <2>1, <2>3, <2>4, <1>1, <1>2
  <2>6. ASSUME NEW j \in 1..(place'[t] - 1)
        PROVE  outbox'[Len(outbox') + 1 + j - place'[t]].does = Keys!Script[j]
    <3>1. Len(outbox') + 1 + j - place'[t] = Len(outbox) + 1 + j - n
      <4>1. j \in Int /\ place'[t] = n + 1 /\ Len(outbox') = Len(outbox) + 1
        BY <2>1, <1>1, <1>2
      <4> HIDE DEF n
      <4> QED
        BY <4>1, <2>4, <1>2
    <3>2. CASE j = n
      <4>1. Len(outbox) + 1 + j - n = Len(outbox) + 1
        BY <3>2, <2>4, <1>2
      <4> QED
        BY <3>1, <3>2, <4>1, <1>1, <1>7
    <3>3. CASE j # n
      <4>1. j \in 1..(n - 1) /\ Len(outbox) + 1 + j - n \in 1..Len(outbox)
        BY <3>3, <2>1, <2>3, <2>4, <1>2
      <4> QED
        BY <3>1, <4>1, <2>3, <1>1
    <3> QED
      BY <3>2, <3>3
  <2> QED
    BY <2>5, <2>6
<1>11. ChordIsBegun'
  BY <1>1, <1>10 DEF ChordIsBegun, M, KeyPlace
<1>12. ASSUME alive, NEW t \in Processes, NEW m \in (M + 4)..(2 * M + 5), place'[t] > m
       PROVE  Undone(Keys!Script[m])'
  <2> DEFINE act == Keys!Script[m]
  <2>0. m \in Nat /\ m >= M + 4 /\ t = s /\ place'[t] = n + 1
    BY <1>12, <1>1, <1>2
  <2>1. t = s /\ n >= m /\ n \in (M + 4)..(2 * M + 5) /\ m \in Nat
    BY <2>0, <1>12, <1>1, <1>2
  <2>2. \A a : ~Against(a, Keys!Script[n])
    <3>1. Keys!Script[n].type = "release" \/ Keys!Script[n] = Keys!SetModifiers({})
      BY <2>1, <1>2, PlacesDiffer
    <3>2. Keys!SetModifiers({}).type = "modifiers" /\ Keys!SetModifiers({}).keys = {}
      BY RequestFacts
    <3> QED
      BY <3>1, <3>2 DEF Against
  <2>3. CASE n = m
    <3>1. L + 1 \in DOMAIN Queued' /\ Queued'[L + 1].does = act
      BY <1>6, <1>7, <2>3
    <3>2. ASSUME NEW j \in DOMAIN Queued', Against(act, Queued'[j].does)
          PROVE  L + 1 > j
      <4>1. j # L + 1
        BY <3>2, <1>6, <1>7, <2>2
      <4> QED
        BY <4>1, <1>6
    <3> HIDE DEF act
    <3>3. Undone(act)'
      BY <3>1, <3>2 DEF Undone, Against
    <3> QED
      BY <3>3 DEF act
  <2>4. CASE n # m
    <3>1. Undone(act)
      <4>1. place[s] > m
        BY <2>1, <2>4, <1>2
      <4> QED
        BY <4>1, <1>12 DEF KeyboardInv, ReleasesUndo
    <3> HIDE DEF act
    <3>2. ASSUME NEW j \in DOMAIN Queued', Against(act, Queued'[j].does)
          PROVE  \E l \in DOMAIN Queued' : l > j /\ Queued'[l].does = act
      <4>1. j # L + 1
        BY <3>2, <1>6, <1>7, <2>2
      <4>2. j \in DOMAIN Queued /\ Queued[j] = Queued'[j]
        BY <4>1, <1>6
      <4>3. PICK l \in DOMAIN Queued : l > j /\ Queued[l].does = act
        BY <3>1, <3>2, <4>2 DEF Undone
      <4> QED
        BY <4>3, <1>6
    <3>3. ASSUME Stands(act)' PROVE \E l \in DOMAIN Queued' : Queued'[l].does = act
      <4>1. Stands(act)
        BY <3>3, <1>1 DEF Stands
      <4>2. PICK l \in DOMAIN Queued : Queued[l].does = act
        BY <3>1, <4>1 DEF Undone
      <4> QED
        BY <4>2, <1>6
    <3>4. Undone(act)'
      BY <3>2, <3>3 DEF Undone, Against
    <3> QED
      BY <3>4 DEF act
  <2> QED
    BY <2>3, <2>4
<1>13. ReleasesUndo'
  BY <1>1, <1>12 DEF ReleasesUndo, M
<1>14. FlushedBeforeSync'
  <2>1. \A t \in Processes : place'[t] # EndPlace
    BY <1>1, <1>2
  <2> QED
    BY <2>1 DEF FlushedBeforeSync, EndPlace, M
<1> QED
  BY <1>3, <1>4, <1>5, <1>9, <1>11, <1>13, <1>14 DEF KeyboardInv

(* What the compositor handles is at the head of what is pending.          *)
LEMMA ArrivesIs ==
  ASSUME KeyboardInv, Keys!Arrives
  PROVE  LET L == Len(wire) + Len(outbox)
         IN  /\ alive /\ wire # << >> /\ L \in Nat
             /\ DOMAIN Queued = 1..L /\ 1 \in DOMAIN Queued /\ Queued[1] = Head(wire)
             /\ wire' \in Seq(Request) /\ DOMAIN Queued' = 1..(L - 1)
             /\ \A k \in 1..(L - 1) : Queued'[k] = Queued[k + 1]
             /\ UNCHANGED <<alive, holder, place, outbox>>
             /\ \/ /\ Queued[1].does.type = "modifiers"
                   /\ mask' = Queued[1].does.keys /\ held' = held
                \/ /\ Queued[1].does.type = "press"
                   /\ held' = held \cup {Queued[1].does.key} /\ mask' = mask
                \/ /\ Queued[1].does.type = "release"
                   /\ held' = held \ {Queued[1].does.key} /\ mask' = mask
<1> DEFINE L == Len(wire) + Len(outbox)
<1>1. /\ wire # << >> /\ wire' = Tail(wire) /\ UNCHANGED <<alive, holder, place, outbox>>
      /\ \/ /\ Head(wire).does.type = "modifiers"
            /\ mask' = Head(wire).does.keys /\ held' = held
         \/ /\ Head(wire).does.type = "press"
            /\ held' = held \cup {Head(wire).does.key} /\ mask' = mask
         \/ /\ Head(wire).does.type = "release"
            /\ held' = held \ {Head(wire).does.key} /\ mask' = mask
  BY DEF Keys!Arrives
<1>2. alive
  BY <1>1 DEF KeyboardInv, GoneHoldsNothing
<1>3. wire \in Seq(Request) /\ outbox \in Seq(Request)
  BY DEF KeyboardInv, KeyboardTyped
<1>4. /\ DOMAIN Queued = 1..L /\ Len(wire) \in Nat /\ Len(outbox) \in Nat
      /\ \A i \in 1..Len(wire) : Queued[i] = wire[i]
      /\ \A i \in 1..Len(outbox) : Queued[Len(wire) + i] = outbox[i]
  BY QueueFacts DEF KeyboardInv
<1>5. Len(wire) >= 1 /\ Head(wire) = wire[1]
  BY <1>1, <1>3
<1>6. /\ Tail(wire) \in Seq(Request) /\ Len(Tail(wire)) = Len(wire) - 1
      /\ \A i \in 1..(Len(wire) - 1) : Tail(wire)[i] = wire[i + 1]
  BY <1>1, <1>3, HeadTailProperties
<1>7. /\ DOMAIN Queued' = 1..(Len(Tail(wire)) + Len(outbox))
      /\ \A i \in 1..Len(Tail(wire)) : Queued'[i] = Tail(wire)[i]
      /\ \A i \in 1..Len(outbox) : Queued'[Len(Tail(wire)) + i] = outbox[i]
  <2>1. Queued' = Tail(wire) \o outbox
    BY <1>1 DEF Queued
  <2>2. Tail(wire) \in Seq(Request)
    BY <1>6
  <2> QED
    BY <2>1, <2>2, <1>3, JoinedAt
<1>8. Len(Tail(wire)) + Len(outbox) = L - 1 /\ L \in Nat /\ 1 \in 1..L
  BY <1>4, <1>5, <1>6
<1>9. ASSUME NEW k \in 1..(L - 1) PROVE Queued'[k] = Queued[k + 1]
  <2>1. CASE k \in 1..(Len(wire) - 1)
    <3>1. k + 1 \in 1..Len(wire)
      BY <2>1, <1>4
    <3> QED
      BY <2>1, <3>1, <1>4, <1>6, <1>7
  <2>2. CASE k \notin 1..(Len(wire) - 1)
    <3>1. /\ k + 1 - Len(wire) \in 1..Len(outbox)
          /\ Len(wire) - 1 + (k + 1 - Len(wire)) = k
          /\ Len(wire) + (k + 1 - Len(wire)) = k + 1
      BY <2>2, <1>4, <1>5
    <3>2. Queued[Len(wire) + (k + 1 - Len(wire))] = outbox[k + 1 - Len(wire)]
      BY <3>1, <1>4
    <3>3. Queued'[Len(wire) - 1 + (k + 1 - Len(wire))] = outbox[k + 1 - Len(wire)]
      BY <3>1, <1>6, <1>7
    <3> QED
      BY <3>1, <3>2, <3>3
  <2> QED
    BY <2>1, <2>2
<1>10. Queued[1] = Head(wire)
  BY <1>4, <1>5
<1> QED
  BY <1>1, <1>2, <1>4, <1>6, <1>7, <1>8, <1>9, <1>10

LEMMA ArrivesKeeps ==
  ASSUME KeyboardInv, Keys!Arrives
  PROVE  KeyboardInv'
<1> DEFINE L == Len(wire) + Len(outbox)
           act == Queued[1].does
<1>1. /\ alive /\ wire # << >> /\ L \in Nat
      /\ DOMAIN Queued = 1..L /\ 1 \in DOMAIN Queued
      /\ wire' \in Seq(Request) /\ DOMAIN Queued' = 1..(L - 1)
      /\ \A k \in 1..(L - 1) : Queued'[k] = Queued[k + 1]
      /\ UNCHANGED <<alive, holder, place, outbox>>
      /\ \/ act.type = "modifiers" /\ mask' = act.keys /\ held' = held
         \/ act.type = "press" /\ held' = held \cup {act.key} /\ mask' = mask
         \/ act.type = "release" /\ held' = held \ {act.key} /\ mask' = mask
  BY ArrivesIs
<1>2. M \in Nat /\ EndPlace = 2 * M + 7 /\ KeyPlace = M + 2
  BY ShortcutFacts DEF EndPlace, KeyPlace
<1>3. act \in Requests
  BY <1>1, QueueFacts DEF KeyboardInv
<1>4. /\ act.type = "modifiers" => act.keys \subseteq Keys!Mask
      /\ act.type = "press" => act.key \in ChordKeys
  BY <1>3, RequestFacts DEF Requests
<1> HIDE DEF act, L
<1>5. KeyboardTyped'
  BY <1>1, <1>4 DEF KeyboardInv, KeyboardTyped, Keys!KeyboardTypeOK, Keys!Mask, ChordKeys
<1>6. OneInside'
  BY <1>1 DEF KeyboardInv, OneInside
<1>7. GoneHoldsNothing'
  BY <1>1 DEF GoneHoldsNothing
<1>8. ASSUME NEW k \in DOMAIN Queued', Queued'[k].does = Keys!Press(Keys!Key), NEW j \in 1..(M + 1)
      PROVE  IF k + j > KeyPlace THEN Queued'[k + j - KeyPlace].does = Keys!Script[j] ELSE Done(Keys!Script[j])'
  <2>1. k \in Nat /\ k >= 1 /\ k + 1 \in DOMAIN Queued /\ Queued[k + 1].does = Keys!Press(Keys!Key)
    BY <1>1, <1>8
  <2>2. \A i \in 1..(M + 1) : IF k + 1 + i > KeyPlace THEN Queued[k + 1 + i - KeyPlace].does = Keys!Script[i]
                                                      ELSE Done(Keys!Script[i])
    BY <2>1, <1>1 DEF KeyboardInv, ChordsAreWhole
  <2>3. CASE k + j > KeyPlace
    <3>1. /\ k + 1 + j > KeyPlace /\ k + j - KeyPlace \in 1..(L - 1)
          /\ (k + j - KeyPlace) + 1 = k + 1 + j - KeyPlace
      BY <2>1, <2>3, <1>1, <1>2
    <3> QED
      BY <2>2, <2>3, <3>1, <1>1
  <2>4. CASE k + j = KeyPlace
    <3>1. k + 1 + j > KeyPlace /\ k + 1 + j - KeyPlace = 1 /\ ~(k + j > KeyPlace)
      BY <2>1, <2>4, <1>2
    <3>2. act = Keys!Script[j]
      BY <2>2, <3>1 DEF act
    <3>3. (act.type = "modifiers" => mask' = act.keys) /\ (act.type = "press" => act.key \in held')
      BY <1>1
    <3>4. /\ Keys!Script[j].type = "modifiers" => mask' = Keys!Script[j].keys
          /\ Keys!Script[j].type = "press" => Keys!Script[j].key \in held'
      BY <3>2, <3>3
    <3>5. Done(Keys!Script[j])'
      BY <3>4 DEF Done
    <3> QED
      BY <3>1, <3>5
  <2>5. CASE k + j < KeyPlace
    <3>1. /\ ~(k + 1 + j > KeyPlace) /\ ~(k + j > KeyPlace)
          /\ KeyPlace - k \in 1..(M + 1) /\ KeyPlace - k \in 2..KeyPlace /\ KeyPlace - k \in 1..EndPlace
          /\ k + 1 + (KeyPlace - k) > KeyPlace /\ k + 1 + (KeyPlace - k) - KeyPlace = 1
      BY <2>1, <2>5, <1>2
    <3>2. Done(Keys!Script[j])
      BY <2>2, <3>1
    <3>3. act = Keys!Script[KeyPlace - k]
      BY <2>2, <3>1 DEF act
    <3>4. act.type = "press"
      BY <3>1, <3>3, PlacesAre, RequestFacts
    <3>5. mask' = mask /\ held \subseteq held'
      BY <3>4, <1>1
    <3> QED
      BY <3>1, <3>2, <3>5 DEF Done
  <2> QED
    BY <2>1, <2>3, <2>4, <2>5, <1>2
<1>9. ChordsAreWhole'
  BY <1>8 DEF ChordsAreWhole, M, KeyPlace
<1>10. ChordIsBegun'
  BY <1>1 DEF KeyboardInv, ChordIsBegun, KeyPlace, M
<1>11. ASSUME NEW a, a = Keys!SetModifiers({}) \/ \E k \in ChordKeys : a = Keys!Release(k), Undone(a)
       PROVE  Undone(a)'
  <2>1. ASSUME NEW l \in DOMAIN Queued, l > 1
        PROVE  l - 1 \in DOMAIN Queued' /\ Queued'[l - 1] = Queued[l]
    <3>1. l - 1 \in 1..(L - 1) /\ (l - 1) + 1 = l
      BY <2>1, <1>1
    <3> QED
      BY <3>1, <1>1
  <2>2. ASSUME NEW j \in DOMAIN Queued', Against(a, Queued'[j].does)
        PROVE  \E l \in DOMAIN Queued' : l > j /\ Queued'[l].does = a
    <3>1. j \in Nat /\ j >= 1 /\ j + 1 \in DOMAIN Queued /\ Queued[j + 1] = Queued'[j]
      BY <1>1
    <3>2. PICK l \in DOMAIN Queued : l > j + 1 /\ Queued[l].does = a
      BY <2>2, <3>1, <1>11 DEF Undone
    <3>3. l > 1 /\ l - 1 > j
      BY <3>1, <3>2, <1>1
    <3> QED
      BY <2>1, <3>2, <3>3
  <2>3. ASSUME Stands(a)' PROVE \E l \in DOMAIN Queued' : Queued'[l].does = a
    <3>1. act # a
      <4>1. CASE a = Keys!SetModifiers({})
        <5>1. a.type = "modifiers" /\ a.keys = {}
          BY <4>1, RequestFacts
        <5> QED
          BY <5>1, <2>3, <1>1 DEF Stands
      <4>2. ASSUME NEW k \in ChordKeys, a = Keys!Release(k) PROVE act # a
        <5>1. a.type = "release" /\ a.key = k
          BY <4>2, RequestFacts
        <5> QED
          BY <5>1, <2>3, <1>1 DEF Stands
      <4> QED
        BY <4>1, <4>2, <1>11
    <3>2. \E l \in DOMAIN Queued : l > 1 /\ Queued[l].does = a
      <4>1. CASE Against(a, act)
        BY <4>1, <1>1, <1>11 DEF Undone, act
      <4>2. CASE ~Against(a, act)
        <5>1. Stands(a)
          BY <4>2, <2>3, <1>1, <1>11, RequestFacts DEF Stands, Against
        <5>2. PICK l \in DOMAIN Queued : Queued[l].does = a
          BY <5>1, <1>11 DEF Undone
        <5>3. l # 1
          BY <5>2, <3>1 DEF act
        <5> QED
          BY <5>2, <5>3, <1>1
      <4> QED
        BY <4>1, <4>2
    <3> QED
      BY <3>2, <2>1
  <2> QED
    BY <2>2, <2>3 DEF Undone, Against
<1>12. ReleasesUndo'
  <2>1. ASSUME NEW t \in Processes, NEW n \in (M + 4)..(2 * M + 5), place'[t] > n
        PROVE  Undone(Keys!Script[n])'
    <3>1. Undone(Keys!Script[n])
      BY <2>1, <1>1 DEF KeyboardInv, ReleasesUndo
    <3>2. n \in 1..EndPlace
      BY <1>2
    <3> QED
      BY <3>1, <3>2, <1>11, PlacesAre
  <2> QED
    BY <2>1 DEF ReleasesUndo, M
<1>13. FlushedBeforeSync'
  BY <1>1 DEF KeyboardInv, FlushedBeforeSync, EndPlace, M
<1> QED
  BY <1>5, <1>6, <1>7, <1>9, <1>10, <1>12, <1>13 DEF KeyboardInv

LEMMA BreaksKeeps ==
  ASSUME KeyboardInv, Keys!Breaks
  PROVE  KeyboardInv'
<1>1. /\ alive' = FALSE /\ wire' = << >> /\ outbox' = << >> /\ held' = {} /\ mask' = {}
      /\ UNCHANGED <<holder, place>>
  BY DEF Keys!Breaks
<1>2. KeyboardTyped'
  <2>1. wire' \in Seq(Request) /\ outbox' \in Seq(Request)
    BY <1>1
  <2>2. Keys!KeyboardTypeOK'
    BY <1>1 DEF KeyboardInv, KeyboardTyped, Keys!KeyboardTypeOK
  <2> QED
    BY <2>1, <2>2 DEF KeyboardTyped
<1>3. OneInside'
  BY <1>1 DEF KeyboardInv, OneInside
<1>4. GoneHoldsNothing' /\ ChordsAreWhole' /\ ChordIsBegun' /\ ReleasesUndo' /\ FlushedBeforeSync'
  BY <1>1 DEF GoneHoldsNothing, ChordsAreWhole, ChordIsBegun, ReleasesUndo, FlushedBeforeSync
<1> QED
  BY <1>2, <1>3, <1>4 DEF KeyboardInv

(* A keyboard that nothing has been sent to.                               *)
LEMMA NewKeyboardIsSound == Keys!KeyboardIsNew => KeyboardInv
<1> SUFFICES ASSUME Keys!KeyboardIsNew PROVE KeyboardInv
  OBVIOUS
<1>1. /\ alive = TRUE /\ holder = {} /\ place = [s \in Processes |-> 0]
      /\ outbox = << >> /\ wire = << >> /\ held = {} /\ mask = {}
  BY DEF Keys!KeyboardIsNew
<1>2. 0 \in 0..Len(Keys!Script) /\ M \in Nat
  BY ScriptIs, ShortcutFacts DEF EndPlace
<1>3. KeyboardTyped
  BY <1>1, <1>2 DEF KeyboardTyped, Keys!KeyboardTypeOK
<1>4. OneInside /\ GoneHoldsNothing /\ FlushedBeforeSync
  BY <1>1 DEF OneInside, GoneHoldsNothing, FlushedBeforeSync
<1>5. \A s \in Processes : place[s] \notin 1..(KeyPlace + 1) /\ \A n \in (M + 4)..(2 * M + 5) : ~(place[s] > n)
  BY <1>1, <1>2
<1>6. ChordIsBegun /\ ReleasesUndo
  BY <1>5 DEF ChordIsBegun, ReleasesUndo
<1>7. DOMAIN Queued = {}
  <2>1. Len(wire) = 0 /\ Len(outbox) = 0
    BY <1>1
  <2> QED
    BY <1>3, <2>1, QueueFacts
<1>8. ChordsAreWhole
  BY <1>7 DEF ChordsAreWhole
<1> QED
  BY <1>3, <1>4, <1>6, <1>8 DEF KeyboardInv

LEMMA ReplacedKeeps ==
  ASSUME Keys!KeyboardReplaced
  PROVE  KeyboardInv'
<1>1. Keys!KeyboardIsNew'
  BY DEF Keys!KeyboardReplaced, Keys!KeyboardIsNew
<1> QED
  BY <1>1, NewKeyboardIsSound, PTL

LEMMA SameKeyboardKeeps ==
  ASSUME KeyboardInv, UNCHANGED keyboard
  PROVE  KeyboardInv'
<1>1. UNCHANGED <<alive, holder, place, outbox, wire, held, mask>>
  BY DEF keyboard
<1>2. Queued' = Queued
  BY <1>1 DEF Queued
<1>3. KeyboardTyped'
  BY <1>1 DEF KeyboardInv, KeyboardTyped, Keys!KeyboardTypeOK
<1>4. OneInside' /\ GoneHoldsNothing' /\ FlushedBeforeSync'
  BY <1>1 DEF KeyboardInv, OneInside, GoneHoldsNothing, FlushedBeforeSync, EndPlace, M
<1>5. ChordsAreWhole'
  BY <1>1, <1>2, SameQueueIsSame DEF KeyboardInv
<1>6. ChordIsBegun'
  BY <1>1 DEF KeyboardInv, ChordIsBegun, KeyPlace, M
<1>7. ReleasesUndo'
  <2>1. \A act : Undone(act) => Undone(act)'
    BY <1>1, <1>2, SameQueueIsSame
  <2>2. alive' => \A s \in Processes : \A n \in (M + 4)..(2 * M + 5) : place'[s] > n => Undone(Keys!Script[n])'
    BY <1>1, <2>1 DEF KeyboardInv, ReleasesUndo
  <2> QED
    BY <2>2 DEF ReleasesUndo, M
<1> QED
  BY <1>3, <1>4, <1>5, <1>6, <1>7 DEF KeyboardInv

(* Every step of the keyboard, and every step that leaves it alone.        *)
LEMMA KeyboardStep ==
  ASSUME KeyboardInv, [Next]_vars
  PROVE  KeyboardInv'
<1>1. CASE UNCHANGED keyboard
  BY <1>1, SameKeyboardKeeps
<1>2. ASSUME NEW p \in Processes, Sends(p) PROVE KeyboardInv'
  <2>1. CASE Keys!Lock(p)
    BY <2>1, LockKeeps
  <2>2. CASE Keys!Queue(p)
    BY <2>2, QueueKeeps
  <2>3. CASE Keys!Write(p)
    BY <2>3, WriteKeeps
  <2>4. CASE Keys!Sent(p) \/ Keys!SendFails(p)
    BY <2>4, SendFailsKeeps
  <2> QED
    BY <1>2, <2>1, <2>2, <2>3, <2>4 DEF Sends
<1>3. CASE DaemonStops
  BY <1>3, ReplacedKeeps DEF DaemonStops
<1>4. CASE CompositorStep
  BY <1>4, ArrivesKeeps DEF CompositorStep
<1>5. CASE ConnectionBreaks
  BY <1>5, BreaksKeeps DEF ConnectionBreaks
<1>6. CASE UNCHANGED vars
  BY <1>6, <1>1 DEF vars
<1>7. ASSUME NEW p \in Processes, CommandStep(p) \/ UserAnswers(p), ~Sends(p) PROVE UNCHANGED keyboard
  BY <1>7 DEF CommandStep, UserAnswers, Launch, ResolveRefs, CountRows, CallFails, Delete, Pin, Reveal,
              Clear, SetPaused, Copy, Paste, Settle
<1>8. CASE TakeSelection \/ ApplicationCopies \/ DaemonStarts
  BY <1>8, <1>1 DEF TakeSelection, ApplicationCopies, DaemonStarts
<1> QED
  BY <1>1, <1>2, <1>3, <1>4, <1>5, <1>6, <1>7, <1>8 DEF Next

(* At the head of the queue the key's whole chord has been handled.        *)
LEMMA WholeChords == KeyboardInv => KeyIsWhole
<1> SUFFICES ASSUME KeyboardInv, NEW s \in Processes, Keys!Struck(s)
             PROVE  mask = Keys!Mask /\ Keys!Mask \subseteq held
  BY DEF KeyIsWhole, Keys!KeyIsWhole
<1>1. wire # << >> /\ Head(wire).does = Keys!Press(Keys!Key)
  BY DEF Keys!Struck
<1>2. wire \in Seq(Request) /\ alive
  BY <1>1 DEF KeyboardInv, KeyboardTyped, GoneHoldsNothing
<1>3. 1 \in 1..Len(wire) /\ Head(wire) = wire[1]
  BY <1>1, <1>2
<1>4. 1 \in DOMAIN Queued /\ Queued[1].does = Keys!Press(Keys!Key)
  <2>1. Len(wire) \in Nat /\ Len(outbox) \in Nat /\ DOMAIN Queued = 1..(Len(wire) + Len(outbox))
        /\ \A i \in 1..Len(wire) : Queued[i] = wire[i]
    BY QueueFacts DEF KeyboardInv
  <2> QED
    BY <2>1, <1>1, <1>3
<1>5. ASSUME NEW j \in 1..(M + 1) PROVE Done(Keys!Script[j])
  <2>1. ~(1 + j > KeyPlace)
    BY ShortcutFacts DEF KeyPlace
  <2> QED
    BY <2>1, <1>2, <1>4 DEF KeyboardInv, ChordsAreWhole
<1>6. mask = Keys!Mask
  <2>1. 1 \in 1..(M + 1)
    BY ShortcutFacts
  <2>2. Done(Keys!SetModifiers(Keys!Mask))
    BY <1>5, <2>1, ScriptIs
  <2> QED
    BY <2>2, RequestFacts DEF Done
<1>7. ASSUME NEW i \in 1..M PROVE ModifierKeys[i] \in held
  <2>1. i + 1 \in 1..(M + 1)
    BY ShortcutFacts
  <2>2. Done(Keys!Press(ModifierKeys[i]))
    BY <1>5, <2>1, ScriptIs
  <2> QED
    BY <2>2, RequestFacts DEF Done
<1> QED
  BY <1>6, <1>7, ShortcutFacts DEF Keys!Mask

LEMMA SentIsClean ==
  ASSUME KeyboardInv, NEW s \in Processes, Keys!Sent(s)
  PROVE  held' = {} /\ mask' = {}
<1>1. /\ place[s] # 0 /\ Keys!Script[place[s]] = Keys!Sync /\ alive /\ wire = << >>
      /\ UNCHANGED <<held, mask>>
  BY DEF Keys!Sent, Keys!Does, Keys!Sending
<1>2. M \in Nat /\ EndPlace = 2 * M + 7
  BY ShortcutFacts DEF EndPlace
<1>3. place[s] = EndPlace
  <2>1. place[s] \in 1..EndPlace
    BY <1>1, <1>2, ScriptIs DEF KeyboardInv, KeyboardTyped, Keys!KeyboardTypeOK
  <2> QED
    BY <2>1, <1>1, PlacesDiffer
<1>4. outbox = << >>
  BY <1>1, <1>3 DEF KeyboardInv, FlushedBeforeSync
<1>5. DOMAIN Queued = {}
  <2>1. Len(wire) = 0 /\ Len(outbox) = 0
    BY <1>1, <1>4
  <2> QED
    BY <2>1, QueueFacts DEF KeyboardInv
<1>6. ASSUME NEW n \in (M + 4)..(2 * M + 5) PROVE ~Stands(Keys!Script[n])
  <2>1. place[s] > n
    BY <1>2, <1>3
  <2>2. Undone(Keys!Script[n])
    BY <2>1, <1>1 DEF KeyboardInv, ReleasesUndo
  <2> QED
    BY <2>2, <1>5 DEF Undone
<1>7. Keys!Key \notin held
  <2>1. M + 4 \in (M + 4)..(2 * M + 5)
    BY <1>2
  <2>2. ~Stands(Keys!Release(Keys!Key))
    BY <2>1, <1>6, ScriptIs
  <2> QED
    BY <2>2, RequestFacts DEF Stands
<1>8. ASSUME NEW i \in 1..M PROVE ModifierKeys[i] \notin held
  <2>1. M + 1 - i \in 1..M /\ M + 1 - (M + 1 - i) = i /\ M + 4 + (M + 1 - i) \in (M + 4)..(2 * M + 5)
    BY <1>2
  <2>2. Keys!Script[M + 4 + (M + 1 - i)] = Keys!Release(ModifierKeys[M + 1 - (M + 1 - i)])
    BY <2>1, ScriptIs
  <2>3. ~Stands(Keys!Release(ModifierKeys[i]))
    BY <2>1, <2>2, <1>6
  <2> QED
    BY <2>3, RequestFacts DEF Stands
<1>9. mask = {}
  <2>1. 2 * M + 5 \in (M + 4)..(2 * M + 5)
    BY <1>2
  <2>2. ~Stands(Keys!SetModifiers({}))
    BY <2>1, <1>6, ScriptIs
  <2> QED
    BY <2>2, RequestFacts DEF Stands
<1>10. held \subseteq Keys!Mask \cup {Keys!Key}
  BY DEF KeyboardInv, KeyboardTyped, Keys!KeyboardTypeOK
<1>11. held = {}
  BY <1>7, <1>8, <1>10, ShortcutFacts DEF Keys!Mask
<1> QED
  BY <1>1, <1>9, <1>11

(* For every shortcut and any number of pastes, however their sends fail:  *)
(* a send that is answered has left no key down and no modifier on.        *)
THEOREM SentLeavesNothing == Spec => SentLeavesNothingHeld
<1>1. Init => KeyboardInv
  BY NewKeyboardIsSound DEF Init
<1>2. KeyboardInv /\ [Next]_vars => KeyboardInv'
  BY KeyboardStep
<1>3. KeyboardInv /\ [Next]_vars
        => [\A p \in Processes : (stage[p] = "press" /\ Keys!Sent(p)) => held' = {} /\ mask' = {}]_vars
  BY SentIsClean
<1> QED
  BY <1>1, <1>2, <1>3, PTL DEF Spec, SentLeavesNothingHeld

-----------------------------------------------------------------------------
(* The history, as a command's step leaves it.                             *)

LEMMA KeptRows ==
  ASSUME NEW list \in Seq(Row), Distinct(list), NEW places \in SUBSET DOMAIN list
  PROVE  LET kept == SubsequenceAt(list, places)
         IN  /\ kept \in Seq(Row) /\ Distinct(kept)
             /\ \A k \in DOMAIN kept : \E i \in places : kept[k] = list[i]
<1> DEFINE kept == SubsequenceAt(list, places)
<1>1. /\ kept \in Seq(Row)
      /\ \A k \in DOMAIN kept : Nth(places, k) \in places /\ kept[k] = list[Nth(places, k)]
      /\ \A k, l \in DOMAIN kept : k < l => Nth(places, k) < Nth(places, l)
  <2> HIDE DEF Row
  <2> QED
    BY FilterKeepsPlaces
<1> HIDE DEF kept
<1>2. \A k \in DOMAIN kept : k \in Nat
  BY <1>1
<1>3. \A k \in DOMAIN list : k \in Nat
  OBVIOUS
<1>4. ASSUME NEW k \in DOMAIN kept, NEW l \in DOMAIN kept, kept[k].id = kept[l].id PROVE k = l
  <2>1. Nth(places, k) = Nth(places, l) /\ Nth(places, k) \in Nat
    BY <1>1, <1>3, <1>4 DEF Distinct
  <2>2. ~(Nth(places, k) < Nth(places, l)) /\ ~(Nth(places, l) < Nth(places, k))
    BY <2>1
  <2>3. ~(k < l) /\ ~(l < k)
    BY <2>2, <1>1
  <2> QED
    BY <2>3, <1>2
<1>5. Distinct(kept)
  BY <1>4 DEF Distinct
<1> QED
  BY <1>1, <1>5 DEF kept

LEMMA FrontRow ==
  ASSUME NEW list \in Seq(Row), Distinct(list), NEW row \in Row,
         \A i \in DOMAIN list : list[i].id # row.id
  PROVE  <<row>> \o list \in Seq(Row) /\ Distinct(<<row>> \o list)
<1> DEFINE front == <<row>>
           all == front \o list
<1>1. front \in Seq(Row) /\ Len(front) = 1 /\ front[1] = row
  OBVIOUS
<1> HIDE DEF front
<1>2. /\ all \in Seq(Row) /\ DOMAIN all = 1..(1 + Len(list)) /\ Len(list) \in Nat
      /\ \A i \in 1..1 : all[i] = front[i]
      /\ \A i \in 1..Len(list) : all[1 + i] = list[i]
  <2> HIDE DEF Row
  <2>1. /\ all \in Seq(Row) /\ DOMAIN all = 1..(Len(front) + Len(list)) /\ Len(list) \in Nat
        /\ \A i \in 1..Len(front) : all[i] = front[i]
        /\ \A i \in 1..Len(list) : all[Len(front) + i] = list[i]
    <3>1. front \in Seq(Row) /\ list \in Seq(Row)
      BY <1>1
    <3> QED
      BY <3>1, JoinedAt
  <2> HIDE DEF all
  <2> QED
    BY <1>1, <2>1
<1> HIDE DEF all
<1>3. all[1] = row
  BY <1>1, <1>2
<1>4. ASSUME NEW k \in DOMAIN all, k # 1 PROVE k - 1 \in DOMAIN list /\ all[k] = list[k - 1]
  <2>1. k - 1 \in 1..Len(list) /\ 1 + (k - 1) = k
    BY <1>2, <1>4
  <2> QED
    BY <2>1, <1>2
<1>5. ASSUME NEW k \in DOMAIN all, NEW l \in DOMAIN all, all[k].id = all[l].id PROVE k = l
  <2>1. CASE k = 1 \/ l = 1
    BY <2>1, <1>3, <1>4, <1>5
  <2>2. CASE k # 1 /\ l # 1
    <3>1. k - 1 = l - 1
      BY <2>2, <1>4, <1>5 DEF Distinct
    <3> QED
      BY <3>1, <1>2
  <2> QED
    BY <2>1, <2>2
<1> QED
  BY <1>2, <1>5 DEF Distinct, front, all

(* An id that is there is at its row.                                      *)
LEMMA RowOfIsThere ==
  ASSUME rows \in Seq(Row), NEW id \in RowIds
  PROVE  RowOf(id) \in DOMAIN rows /\ rows[RowOf(id)].id = id /\ rows[RowOf(id)] \in Row
<1>1. \E i \in DOMAIN rows : rows[i].id = id
  BY DEF RowIds
<1>2. RowOf(id) \in DOMAIN rows /\ rows[RowOf(id)].id = id
  BY <1>1 DEF RowOf
<1>3. \A i \in DOMAIN rows : rows[i] \in Row
  OBVIOUS
<1> QED
  BY <1>2, <1>3

LEMMA RowIdsAreNumbers ==
  ASSUME rows \in Seq(Row)
  PROVE  RowIds \subseteq Nat \ {0}
<1>1. \A i \in DOMAIN rows : rows[i] \in Row
  OBVIOUS
<1> QED
  BY <1>1 DEF RowIds, Row

LEMMA NextIdIsNew ==
  ASSUME rows \in Seq(Row)
  PROVE  NextId \in Nat \ {0} /\ NextId \notin RowIds
<1>1. CASE rows = << >>
  BY <1>1 DEF NextId, RowIds
<1>2. CASE rows # << >>
  <2>1. RowIds \subseteq Nat \ {0} /\ RowIds # {}
    <3>1. 1 \in DOMAIN rows
      BY <1>2
    <3> QED
      BY <3>1, RowIdsAreNumbers DEF RowIds
  <2>3. \E top \in RowIds : \A other \in RowIds : other <= top
    <3> DEFINE above == {n \in Nat : \A other \in RowIds : other <= n}
    <3>1. above # {}
      <4> DEFINE ids == [i \in DOMAIN rows |-> rows[i].id]
      <4>1. DOMAIN rows = 1..Len(rows) /\ Len(rows) \in Nat /\ \A i \in DOMAIN rows : rows[i] \in Row
        OBVIOUS
      <4>2. ids \in [1..Len(rows) -> Nat]
        BY <4>1 DEF Row
      <4> HIDE DEF ids
      <4>3. PICK n \in Nat : \A i \in 1..Len(rows) : ids[i] <= n
        BY <4>1, <4>2, NumbersAreBounded
      <4>4. \A i \in DOMAIN rows : ids[i] = rows[i].id
        BY DEF ids
      <4>5. \A i \in RowIds : i <= n
        BY <4>1, <4>3, <4>4 DEF RowIds
      <4> QED
        BY <4>5
    <3>2. PICK n \in above : \A m \in above : n <= m
      BY <3>1, LeastExists
    <3>3. n \in RowIds
      <4>1. SUFFICES ASSUME n \notin RowIds PROVE FALSE
        OBVIOUS
      <4>2. n \in Nat /\ n > 0 /\ \A other \in RowIds : other <= n /\ other # n /\ other \in Nat
        <5>1. n \in Nat /\ \A other \in RowIds : other <= n /\ other # n
          BY <3>2, <4>1
        <5>2. PICK other \in RowIds : other \in Nat \ {0}
          BY <2>1
        <5>3. n > 0
          BY <5>1, <5>2
        <5> QED
          BY <5>1, <5>3, <2>1
      <4>3. n - 1 \in Nat /\ \A other \in RowIds : other <= n - 1
        BY <4>2
      <4> QED
        BY <3>2, <4>2, <4>3
    <3> QED
      BY <3>2, <3>3
  <2>4. PICK top \in RowIds : NextId = 1 + top /\ \A other \in RowIds : other <= top
    BY <2>3, <1>2 DEF NextId
  <2> QED
    BY <2>1, <2>4
<1> QED
  BY <1>1, <1>2

-----------------------------------------------------------------------------
(* What each step of a command keeps.                                      *)

SessionInv == SessionTyped /\ RmInv

(* A command whose own state is as it was.                                 *)
LEMMA RmSame ==
  ASSUME NEW p \in Processes, RmOf(p), does' = does,
         stage'[p] = stage[p], todo'[p] = todo[p], deleted'[p] = deleted[p],
         failedAt'[p] = failedAt[p], seen'[p] = seen[p]
  PROVE  RmOf(p)'
BY DEF RmOf, Refers, AllResolve, Meant, IsResolved

(* A command that has made its last call, and was refused if it failed at  *)
(* one of the ids it still had to call about.                              *)
LEMMA RmEnds ==
  ASSUME NEW p \in Processes, RmOf(p), does' = does, stage[p] # "failed",
         stage'[p] \in {"done", "failed", "settle", "press"},
         deleted'[p] = deleted[p], seen'[p] = seen[p],
         \/ failedAt'[p] = failedAt[p]
         \/ stage'[p] = "failed" /\ \E id : failedAt'[p] = {id} /\ id \notin deleted[p]
  PROVE  RmOf(p)'
<1>1. failedAt[p] = {}
  BY DEF RmOf
<1>2. failedAt'[p] \cap deleted[p] = {} /\ (stage'[p] # "failed" => failedAt'[p] = {})
  BY <1>1
<1>3. deleted[p] # {} => AllResolve(p) /\ deleted[p] \subseteq Meant(p)
  BY DEF RmOf
<1>4. deleted'[p] # {} => AllResolve(p)' /\ deleted'[p] \subseteq Meant(p)'
  BY <1>3 DEF AllResolve, Meant
<1>5. does'[p].do # "rm" \/ stage'[p] \in {"idle", "resolve"} => deleted'[p] = {}
  BY DEF RmOf
<1> QED
  BY <1>2, <1>4, <1>5 DEF RmOf, IsResolved

(* The id of a call is one that its command's references mean.             *)
LEMMA CallIsAbout ==
  ASSUME SessionInv, NEW p \in Processes, stage[p] = "call", Refers(p)
  PROVE  /\ todo[p] \in Seq(Nat) /\ todo[p] # << >> /\ Id(p) = todo[p][1]
         /\ Id(p) \in Nat /\ Id(p) \in Meant(p) \ deleted[p]
<1>1. todo[p] \in Seq(Nat) /\ todo[p] # << >>
  BY DEF SessionInv, SessionTyped, RmInv, RmOf, IsResolved
<1>2. Id(p) = todo[p][1] /\ 1 \in DOMAIN todo[p] /\ Id(p) \in Nat
  BY <1>1 DEF Id
<1>3. IsResolved(p)
  BY DEF SessionInv, RmInv, RmOf
<1> QED
  BY <1>1, <1>2, <1>3 DEF IsResolved

(* The steps that only take their command on.                              *)
LEMMA GoingOnKeeps ==
  ASSUME SessionInv, NEW p \in Processes, Launch(p) \/ CallFails(p) \/ Reveal(p) \/ Settle(p) \/ UserAnswers(p)
  PROVE  SessionInv'
<1>1. /\ stage[p] # "failed"
      /\ \E there \in Stages : Goto(p, there)
      /\ UNCHANGED <<config, running, paused, rows, made, offers, todo, deleted, failedAt, seen, wants, taken, does>>
  BY DEF Launch, CallFails, Reveal, Settle, UserAnswers, Calls, daemon, Goto, Stages
<1>2. stage' \in [Processes -> Stages] /\ \A q \in Processes : q # p => stage'[q] = stage[q]
  BY <1>1 DEF SessionInv, SessionTyped, Goto
<1>3. SessionTyped'
  BY <1>1, <1>2 DEF SessionInv, SessionTyped
<1>4. ASSUME NEW q \in Processes, q # p PROVE RmOf(q)'
  BY <1>1, <1>2, <1>4, RmSame DEF SessionInv, RmInv
<1>5. RmOf(p)
  BY DEF SessionInv, RmInv
<1>6. stage'[p] \in {"done", "failed", "settle", "press"} => RmOf(p)'
  BY <1>1, <1>5, RmEnds
<1>7. ASSUME stage'[p] \in {"resolve", "asking", "call"} PROVE RmOf(p)'
  <2>1. /\ stage[p] \in {"idle", "asking"}
        /\ stage'[p] = "resolve" \/ ~Refers(p)
    BY <1>1, <1>2, <1>5, <1>7 DEF Launch, CallFails, Reveal, Settle, UserAnswers, Calls, Goto, RmOf,
       SessionInv, SessionTyped, Refers, Referring
  <2>2. deleted[p] = {} /\ failedAt[p] = {}
    BY <2>1, <1>5 DEF RmOf, Refers, Referring
  <2> QED
    BY <2>1, <2>2, <1>1, <1>7 DEF RmOf, Refers
<1>8. stage'[p] \in {"done", "failed", "settle", "press", "resolve", "asking", "call"}
  BY <1>1 DEF Launch, CallFails, Reveal, Settle, UserAnswers, Calls, Goto, SessionInv, SessionTyped
<1> QED
  BY <1>3, <1>4, <1>6, <1>7, <1>8 DEF SessionInv, RmInv

(* resolve_refs, and the count of what clear would clear.                  *)
LEMMA ResolveKeeps ==
  ASSUME SessionInv, NEW p \in Processes, ResolveRefs(p)
  PROVE  SessionInv'
<1> DEFINE refs == does[p].refs
<1>1. /\ stage[p] = "resolve"
      /\ seen' = [seen EXCEPT ![p] = RowIds]
      /\ UNCHANGED <<config, running, paused, rows, made, offers, deleted, failedAt, wants, taken, does>>
      /\ \/ /\ \A i \in DOMAIN refs : Resolves(refs[i], RowIds)
            /\ todo' = [todo EXCEPT ![p] = ResolveAll(refs, RowIds)] /\ Goto(p, "call")
         \/ UNCHANGED todo /\ Goto(p, "failed")
  BY DEF ResolveRefs, daemon, Set
<1>2. RowIds \subseteq Nat /\ RowIds \in SUBSET Nat
  BY RowIdsAreNumbers DEF SessionInv, SessionTyped
<1>3. /\ seen' \in [Processes -> SUBSET Nat] /\ seen'[p] = RowIds
      /\ \A q \in Processes : q # p => seen'[q] = seen[q]
  BY <1>1, <1>2 DEF SessionInv, SessionTyped
<1>4. /\ stage' \in [Processes -> Stages] /\ stage'[p] \in {"call", "failed"}
      /\ \A q \in Processes : q # p => stage'[q] = stage[q]
  BY <1>1 DEF SessionInv, SessionTyped, Goto, Stages
<1>5. RmOf(p) /\ deleted[p] = {} /\ failedAt[p] = {}
  BY <1>1 DEF SessionInv, RmInv, RmOf
<1>6. CASE stage'[p] = "failed"
  <2>1. UNCHANGED todo
    BY <1>1, <1>6 DEF Goto, SessionInv, SessionTyped
  <2>2. SessionTyped'
    BY <2>1, <1>1, <1>3, <1>4 DEF SessionInv, SessionTyped
  <2>3. RmOf(p)'
    BY <1>1, <1>5, <1>6 DEF RmOf
  <2>4. ASSUME NEW q \in Processes, q # p PROVE RmOf(q)'
    BY <2>1, <2>4, <1>1, <1>3, <1>4, RmSame DEF SessionInv, RmInv
  <2> QED
    BY <2>2, <2>3, <2>4 DEF SessionInv, RmInv
<1>7. CASE stage'[p] = "call"
  <2>1. /\ \A i \in DOMAIN refs : Resolves(refs[i], RowIds)
        /\ todo' = [todo EXCEPT ![p] = ResolveAll(refs, RowIds)]
    BY <1>1, <1>7 DEF Goto, SessionInv, SessionTyped
  <2>2. refs \in Seq(Nat) /\ (Refers(p) => refs # << >>)
    BY SessionAssumption DEF SessionInv, SessionTyped, Refers
  <2> DEFINE all == ResolveAll(refs, RowIds)
  <2>3. /\ all \in Seq(RowIds) /\ (refs # << >> => all # << >>)
        /\ \A k, l \in DOMAIN all : all[k] = all[l] => k = l
        /\ {all[k] : k \in DOMAIN all} = {Resolve(refs[i], RowIds) : i \in DOMAIN refs}
    <3> HIDE DEF refs
    <3> QED
      BY <2>1, <2>2, EachIsNamedOnce
  <2> HIDE DEF all
  <2>4. all \in Seq(Nat)
    BY <2>3, <1>2, SeqMonotonic
  <2>5. /\ todo' \in [Processes -> Seq(Nat)] /\ todo'[p] = all
        /\ \A q \in Processes : q # p => todo'[q] = todo[q]
    BY <2>1, <2>4 DEF SessionInv, SessionTyped, all
  <2>6. SessionTyped'
    BY <2>5, <1>1, <1>3, <1>4 DEF SessionInv, SessionTyped
  <2>7. AllResolve(p)'
    BY <2>1, <1>1, <1>3 DEF AllResolve
  <2>8. Refers(p) => IsResolved(p)'
    <3>1. Meant(p)' = {Resolve(refs[i], RowIds) : i \in DOMAIN refs}
      BY <1>1, <1>3 DEF Meant
    <3>2. \A k \in DOMAIN all : all[k] \in Meant(p)'
      BY <2>3, <3>1
    <3>3. deleted'[p] = {}
      BY <1>1, <1>5
    <3> QED
      BY <2>2, <2>3, <2>5, <2>7, <3>2, <3>3 DEF IsResolved
  <2>9. RmOf(p)'
    BY <2>8, <1>1, <1>5, <1>7 DEF RmOf, Refers
  <2>10. ASSUME NEW q \in Processes, q # p PROVE RmOf(q)'
    BY <2>5, <2>10, <1>1, <1>3, <1>4, RmSame DEF SessionInv, RmInv
  <2> QED
    BY <2>6, <2>9, <2>10 DEF SessionInv, RmInv
<1> QED
  BY <1>4, <1>6, <1>7

LEMMA CountKeeps ==
  ASSUME SessionInv, NEW p \in Processes, CountRows(p)
  PROVE  SessionInv'
<1>1. /\ stage[p] = "asking" /\ seen' = [seen EXCEPT ![p] = Doomed(p)]
      /\ Goto(p, "done") \/ UNCHANGED stage
      /\ UNCHANGED <<config, running, paused, rows, made, offers, todo, deleted, failedAt, wants, taken, does>>
  BY DEF CountRows, daemon, Set
<1>2. Doomed(p) \in SUBSET Nat
  <2>1. Doomed(p) \subseteq RowIds
    BY DEF Doomed, RowIds
  <2> QED
    BY <2>1, RowIdsAreNumbers DEF SessionInv, SessionTyped
<1>3. seen' \in [Processes -> SUBSET Nat] /\ \A q \in Processes : q # p => seen'[q] = seen[q]
  BY <1>1, <1>2 DEF SessionInv, SessionTyped
<1>4. /\ stage' \in [Processes -> Stages] /\ stage'[p] \in {"asking", "done"}
      /\ \A q \in Processes : q # p => stage'[q] = stage[q]
  BY <1>1 DEF SessionInv, SessionTyped, Goto, Stages
<1>5. SessionTyped'
  BY <1>1, <1>3, <1>4 DEF SessionInv, SessionTyped
<1>6. RmOf(p) /\ deleted[p] = {} /\ failedAt[p] = {} /\ ~Refers(p)
  BY <1>1 DEF SessionInv, RmInv, RmOf, Refers, Referring
<1>7. RmOf(p)'
  BY <1>1, <1>4, <1>6 DEF RmOf, Refers
<1>8. ASSUME NEW q \in Processes, q # p PROVE RmOf(q)'
  BY <1>1, <1>3, <1>4, <1>8, RmSame DEF SessionInv, RmInv
<1> QED
  BY <1>5, <1>7, <1>8 DEF SessionInv, RmInv

LEMMA DeleteKeeps ==
  ASSUME SessionInv, NEW p \in Processes, Delete(p)
  PROVE  SessionInv'
<1> DEFINE id == Id(p)
<1>1. /\ stage[p] = "call" /\ does[p].do = "rm" /\ Refers(p)
      /\ UNCHANGED <<config, running, paused, made, offers, seen, wants, taken, does>>
  BY DEF Delete, Calls, Refers, Referring
<1>2. /\ todo[p] \in Seq(Nat) /\ todo[p] # << >> /\ id = todo[p][1]
      /\ id \in Nat /\ id \in Meant(p) \ deleted[p]
  BY <1>1, CallIsAbout
<1>3. RmOf(p) /\ IsResolved(p) /\ failedAt[p] = {} /\ stage[p] # "failed"
  BY <1>1 DEF SessionInv, RmInv, RmOf
<1> HIDE DEF id
<1>4. CASE IsGone(p)
  <2>1. failedAt' = [failedAt EXCEPT ![p] = {id}] /\ Goto(p, "failed") /\ UNCHANGED <<rows, todo, deleted>>
    BY <1>4 DEF Delete, Refused, Set, id
  <2>2. /\ failedAt' \in [Processes -> SUBSET Nat] /\ stage' \in [Processes -> Stages]
        /\ failedAt'[p] = {id} /\ stage'[p] = "failed"
        /\ \A q \in Processes : q # p => failedAt'[q] = failedAt[q] /\ stage'[q] = stage[q]
    BY <2>1, <1>2 DEF SessionInv, SessionTyped, Goto, Stages
  <2>3. SessionTyped'
    BY <2>1, <2>2, <1>1 DEF SessionInv, SessionTyped
  <2>4. RmOf(p)'
    BY <2>1, <2>2, <1>1, <1>2, <1>3, RmEnds
  <2>5. ASSUME NEW q \in Processes, q # p PROVE RmOf(q)'
    BY <2>1, <2>2, <2>5, <1>1, RmSame DEF SessionInv, RmInv
  <2> QED
    BY <2>3, <2>4, <2>5 DEF SessionInv, RmInv
<1>5. CASE ~IsGone(p)
  <2> DEFINE places == {i \in DOMAIN rows : rows[i].id # id}
  <2>1. /\ rows' = SubsequenceAt(rows, places)
        /\ deleted' = [deleted EXCEPT ![p] = @ \cup {id}]
        /\ todo' = [todo EXCEPT ![p] = Tail(@)]
        /\ IF Len(todo[p]) = 1 THEN Goto(p, "done") ELSE UNCHANGED stage
        /\ UNCHANGED failedAt
    BY <1>5 DEF Delete, Keep, id
  <2>2. rows' \in Seq(Row) /\ Distinct(rows')
    BY <2>1, KeptRows DEF SessionInv, SessionTyped
  <2> HIDE DEF places
  <2>3. /\ Tail(todo[p]) \in Seq(Nat) /\ Len(Tail(todo[p])) = Len(todo[p]) - 1
        /\ \A i \in 1..(Len(todo[p]) - 1) : Tail(todo[p])[i] = todo[p][i + 1]
        /\ Len(todo[p]) \in Nat /\ Len(todo[p]) >= 1 /\ DOMAIN todo[p] = 1..Len(todo[p])
        /\ DOMAIN Tail(todo[p]) = 1..(Len(todo[p]) - 1)
    BY <1>2, HeadTailProperties
  <2>4. /\ deleted' \in [Processes -> SUBSET Nat] /\ todo' \in [Processes -> Seq(Nat)]
        /\ stage' \in [Processes -> Stages]
        /\ deleted'[p] = deleted[p] \cup {id} /\ todo'[p] = Tail(todo[p])
        /\ stage'[p] = IF Len(todo[p]) = 1 THEN "done" ELSE "call"
    BY <2>1, <2>3, <1>1, <1>2 DEF SessionInv, SessionTyped, Goto, Stages
  <2>5. \A q \in Processes : q # p => deleted'[q] = deleted[q] /\ todo'[q] = todo[q] /\ stage'[q] = stage[q]
    BY <2>1 DEF SessionInv, SessionTyped, Goto
  <2>6. SessionTyped'
    BY <2>1, <2>2, <2>4, <1>1 DEF SessionInv, SessionTyped, Distinct
  <2>7. AllResolve(p)' /\ Meant(p)' = Meant(p)
    BY <1>1, <1>3 DEF IsResolved, AllResolve, Meant
  <2>8. deleted'[p] \subseteq Meant(p)'
    BY <2>4, <2>7, <1>2, <1>3 DEF RmOf
  <2>9. ASSUME stage'[p] = "call" PROVE IsResolved(p)'
    <3>1. Tail(todo[p]) # << >>
      <4>1. Len(todo[p]) # 1
        BY <2>4, <2>9
      <4>2. Len(Tail(todo[p])) # 0
        BY <2>3, <4>1
      <4>3. Len(<< >>) = 0
        OBVIOUS
      <4> QED
        BY <4>2, <4>3
    <3>2. ASSUME NEW k \in DOMAIN Tail(todo[p])
          PROVE  k + 1 \in DOMAIN todo[p] /\ k + 1 # 1 /\ 1 \in DOMAIN todo[p] /\ Tail(todo[p])[k] = todo[p][k + 1]
      BY <2>3
    <3>3. \A k \in DOMAIN Tail(todo[p]) : Tail(todo[p])[k] \in Meant(p) \ deleted'[p]
      BY <3>2, <2>4, <1>2, <1>3 DEF IsResolved
    <3>4. ASSUME NEW k \in DOMAIN Tail(todo[p]), NEW l \in DOMAIN Tail(todo[p]), Tail(todo[p])[k] = Tail(todo[p])[l]
          PROVE  k = l
      <4>1. k + 1 = l + 1
        BY <3>2, <3>4, <1>3 DEF IsResolved
      <4> QED
        BY <4>1, <2>3
    <3> QED
      BY <3>1, <3>3, <3>4, <2>4, <2>7 DEF IsResolved
  <2>10. RmOf(p)'
    <3>1. failedAt'[p] = {} /\ stage'[p] \in {"done", "call"} /\ does'[p].do = "rm"
      BY <2>1, <2>4, <1>1, <1>3
    <3> QED
      BY <3>1, <2>7, <2>8, <2>9 DEF RmOf
  <2>11. ASSUME NEW q \in Processes, q # p PROVE RmOf(q)'
    BY <2>1, <2>5, <2>11, <1>1, RmSame DEF SessionInv, RmInv
  <2> QED
    BY <2>6, <2>10, <2>11 DEF SessionInv, RmInv
<1> QED
  BY <1>4, <1>5

(* A call that leaves its command's ids alone and ends it.                 *)
LEMMA LastCallKeeps ==
  ASSUME SessionInv, NEW p \in Processes, stage[p] = "call",
         NEW there \in {"done", "failed", "settle"}, Goto(p, there),
         \/ failedAt' = failedAt
         \/ there = "failed" /\ Refers(p) /\ failedAt' = [failedAt EXCEPT ![p] = {Id(p)}],
         UNCHANGED <<config, running, made, seen, todo, deleted, taken, does>>,
         paused' \in BOOLEAN, rows' \in Seq(Row), Distinct(rows'),
         offers' \in Seq(Offer), Len(offers') <= CommandCap, wants' \in [Processes -> Nat]
  PROVE  SessionInv'
<1>1. Refers(p) => Id(p) \in Nat /\ Id(p) \notin deleted[p]
  BY CallIsAbout
<1>2. failedAt' \in [Processes -> SUBSET Nat] /\ \A q \in Processes : q # p => failedAt'[q] = failedAt[q]
  <2>1. failedAt \in [Processes -> SUBSET Nat]
    BY DEF SessionInv, SessionTyped
  <2>2. CASE failedAt' = failedAt
    BY <2>1, <2>2
  <2>3. CASE Refers(p) /\ failedAt' = [failedAt EXCEPT ![p] = {Id(p)}]
    <3>1. {Id(p)} \in SUBSET Nat
      BY <1>1, <2>3
    <3> QED
      BY <2>1, <2>3, <3>1
  <2> QED
    BY <2>2, <2>3
<1>3. /\ stage' \in [Processes -> Stages] /\ stage'[p] = there
      /\ \A q \in Processes : q # p => stage'[q] = stage[q]
  BY DEF SessionInv, SessionTyped, Goto, Stages
<1>4. SessionTyped'
  BY <1>2, <1>3 DEF SessionInv, SessionTyped, Distinct
<1>5. \/ failedAt'[p] = failedAt[p]
      \/ stage'[p] = "failed" /\ \E id : failedAt'[p] = {id} /\ id \notin deleted[p]
  <2>1. failedAt \in [Processes -> SUBSET Nat]
    BY DEF SessionInv, SessionTyped
  <2> QED
    BY <2>1, <1>1, <1>3
<1>6. RmOf(p)
  BY DEF SessionInv, RmInv
<1>7. RmOf(p)'
  BY <1>3, <1>5, <1>6, RmEnds
<1>8. ASSUME NEW q \in Processes, q # p PROVE RmOf(q)'
  BY <1>2, <1>3, <1>8, RmSame DEF SessionInv, RmInv
<1> QED
  BY <1>4, <1>7, <1>8 DEF SessionInv, RmInv

LEMMA PinKeeps ==
  ASSUME SessionInv, NEW p \in Processes, Pin(p)
  PROVE  SessionInv'
<1>1. /\ stage[p] = "call" /\ Refers(p)
      /\ UNCHANGED <<config, running, paused, made, offers, seen, todo, deleted, wants, taken, does>>
  BY DEF Pin, Calls, Refers, Referring
<1>2. /\ paused \in BOOLEAN /\ rows \in Seq(Row) /\ Distinct(rows) /\ offers \in Seq(Offer)
      /\ Len(offers) <= CommandCap /\ wants \in [Processes -> Nat] /\ does \in [Processes -> Commands]
  BY DEF SessionInv, SessionTyped
<1>3. CASE IsGone(p)
  <2>1. failedAt' = [failedAt EXCEPT ![p] = {Id(p)}] /\ Goto(p, "failed") /\ rows' = rows
    BY <1>3 DEF Pin, Refused, Set
  <2> HIDE DEF Goto
  <2> QED
    BY <2>1, <1>1, <1>2, LastCallKeeps
<1>4. CASE ~IsGone(p)
  <2> DEFINE i == RowOf(Id(p))
             on == does[p].on
  <2>1. rows' = [rows EXCEPT ![i].pinned = on] /\ Goto(p, "done") /\ failedAt' = failedAt
    BY <1>4 DEF Pin
  <2>2. i \in DOMAIN rows /\ on \in BOOLEAN
    BY <1>2, <1>4, RowOfIsThere, SessionAssumption DEF IsGone
  <2> HIDE DEF i, on
  <2>3. DOMAIN rows = 1..Len(rows) /\ Len(rows) \in Nat /\ \A j \in DOMAIN rows : rows[j] \in Row
    BY <1>2
  <2>4. /\ DOMAIN rows' = DOMAIN rows
        /\ \A j \in DOMAIN rows : rows'[j] \in Row /\ rows'[j].id = rows[j].id
    BY <2>1, <2>2, <2>3 DEF Row
  <2>5. rows' \in Seq(Row)
    <3>1. rows' = [j \in 1..Len(rows) |-> rows'[j]]
      BY <2>1, <2>3
    <3>2. rows' \in [1..Len(rows) -> Row]
      <4> HIDE DEF Row
      <4> QED
        BY <3>1, <2>3, <2>4
    <3> QED
      BY <3>2, <2>3
  <2>6. Distinct(rows')
    BY <2>4, <1>2 DEF Distinct
  <2> QED
    BY <2>1, <2>5, <2>6, <1>1, <1>2, LastCallKeeps
<1> QED
  BY <1>3, <1>4

LEMMA ClearKeeps ==
  ASSUME SessionInv, NEW p \in Processes, Clear(p)
  PROVE  SessionInv'
<1>1. /\ stage[p] = "call" /\ Goto(p, "done")
      /\ UNCHANGED <<config, running, paused, made, offers, seen, todo, deleted, failedAt, wants, taken, does>>
  BY DEF Clear, Calls
<1>2. rows' \in Seq(Row) /\ Distinct(rows')
  <2> DEFINE places == {i \in DOMAIN rows : rows[i].pinned /\ ~does[p].all}
  <2>1. rows' = SubsequenceAt(rows, places)
    BY DEF Clear, Keep
  <2> QED
    BY <2>1, KeptRows DEF SessionInv, SessionTyped
<1>3. /\ paused \in BOOLEAN /\ offers \in Seq(Offer)
      /\ Len(offers) <= CommandCap /\ wants \in [Processes -> Nat]
  BY DEF SessionInv, SessionTyped
<1> QED
  BY <1>1, <1>2, <1>3, LastCallKeeps

LEMMA SetPausedKeeps ==
  ASSUME SessionInv, NEW p \in Processes, SetPaused(p)
  PROVE  SessionInv'
<1>1. /\ stage[p] = "call" /\ Goto(p, "done") /\ paused' = does[p].on
      /\ UNCHANGED <<config, running, rows, made, offers, seen, todo, deleted, failedAt, wants, taken, does>>
  BY DEF SetPaused, Calls
<1>2. /\ rows \in Seq(Row) /\ Distinct(rows) /\ offers \in Seq(Offer)
      /\ Len(offers) <= CommandCap /\ wants \in [Processes -> Nat] /\ does \in [Processes -> Commands]
  BY DEF SessionInv, SessionTyped
<1>3. paused' \in BOOLEAN
  BY <1>1, <1>2, SessionAssumption
<1> QED
  BY <1>1, <1>2, <1>3, LastCallKeeps

(* An entry put on its way to the clipboard, and to the front.             *)
LEMMA CopyAtIs ==
  ASSUME SessionInv, NEW p \in Processes, CopyAt(p)
  PROVE  /\ rows' \in Seq(Row) /\ Distinct(rows')
         /\ offers' \in Seq(Offer) /\ Len(offers') <= CommandCap
         /\ wants' \in [Processes -> Nat]
         /\ \E what \in Nat \ {Nothing} :
              offers' = Append(offers, [what |-> what, by |-> p]) /\ wants' = [wants EXCEPT ![p] = what]
         /\ UNCHANGED failedAt
<1> DEFINE row == rows[RowOf(Id(p))]
           places == {i \in DOMAIN rows : rows[i] # row}
           kept == SubsequenceAt(rows, places)
           e == [what |-> row.made, by |-> p]
<1>1. /\ ~IsGone(p) /\ Len(offers) < CommandCap
      /\ offers' = Append(offers, e) /\ rows' = <<row>> \o kept
      /\ wants' = [wants EXCEPT ![p] = row.made] /\ UNCHANGED failedAt
  BY DEF CopyAt, Set, Keep
<1>2. /\ rows \in Seq(Row) /\ Distinct(rows) /\ offers \in Seq(Offer)
      /\ wants \in [Processes -> Nat] /\ Len(offers) \in Nat /\ CommandCap \in Nat
  BY SessionAssumption DEF SessionInv, SessionTyped
<1>3. row \in Row /\ RowOf(Id(p)) \in DOMAIN rows
  BY <1>1, <1>2, RowOfIsThere DEF IsGone
<1>4. ASSUME NEW i \in DOMAIN rows, rows[i].id = row.id PROVE rows[i] = row
  BY <1>2, <1>3, <1>4 DEF Distinct
<1> HIDE DEF row
<1>5. /\ kept \in Seq(Row) /\ Distinct(kept)
      /\ \A k \in DOMAIN kept : \E i \in places : kept[k] = rows[i]
  <2>1. places \in SUBSET DOMAIN rows
    OBVIOUS
  <2> HIDE DEF places
  <2> QED
    BY <1>2, <2>1, KeptRows
<1> HIDE DEF kept
<1>6. \A k \in DOMAIN kept : kept[k].id # row.id
  BY <1>4, <1>5
<1>7. rows' \in Seq(Row) /\ Distinct(rows')
  BY <1>1, <1>3, <1>5, <1>6, FrontRow
<1>8. row.made \in Nat \ {Nothing}
  BY <1>3 DEF Row, Nothing
<1>9. e \in Offer
  BY <1>8 DEF Offer
<1>10. offers' \in Seq(Offer) /\ Len(offers') = Len(offers) + 1
  <2> HIDE DEF e
  <2> QED
    BY <1>1, <1>2, <1>9, AppendProperties
<1>11. Len(offers') <= CommandCap
  BY <1>1, <1>2, <1>10
<1>12. wants' \in [Processes -> Nat]
  BY <1>1, <1>2, <1>8
<1> QED
  BY <1>1, <1>7, <1>8, <1>10, <1>11, <1>12

LEMMA CopyKeeps ==
  ASSUME SessionInv, NEW p \in Processes, Copy(p) \/ Paste(p)
  PROVE  SessionInv'
<1>1. /\ stage[p] = "call" /\ Refers(p)
      /\ UNCHANGED <<config, running, paused, made, seen, todo, deleted, taken, does>>
  BY DEF Copy, Paste, Calls, Refers, Referring
<1>2. /\ paused \in BOOLEAN /\ rows \in Seq(Row) /\ Distinct(rows) /\ offers \in Seq(Offer)
      /\ Len(offers) <= CommandCap /\ wants \in [Processes -> Nat]
  BY DEF SessionInv, SessionTyped
<1>3. CASE CopyAt(p) /\ \E there \in {"done", "settle"} : Goto(p, there)
  <2>1. PICK there \in {"done", "settle"} : Goto(p, there)
    BY <1>3
  <2>2. there \in {"done", "failed", "settle"}
    OBVIOUS
  <2>3. /\ rows' \in Seq(Row) /\ Distinct(rows') /\ offers' \in Seq(Offer) /\ Len(offers') <= CommandCap
        /\ wants' \in [Processes -> Nat] /\ failedAt' = failedAt
    BY <1>3, CopyAtIs
  <2> HIDE DEF Goto
  <2> QED
    BY <2>1, <2>2, <2>3, <1>1, <1>2, LastCallKeeps
<1>4. CASE Goto(p, "failed") /\ (CopyFails(p) \/ UNCHANGED <<offers, rows, wants, failedAt>>)
  <2>1. /\ UNCHANGED <<offers, rows, wants>>
        /\ failedAt' = failedAt \/ failedAt' = [failedAt EXCEPT ![p] = {Id(p)}]
    BY <1>4 DEF CopyFails, Set
  <2> HIDE DEF Goto
  <2> QED
    BY <2>1, <1>1, <1>2, <1>4, LastCallKeeps
<1> QED
  BY <1>3, <1>4 DEF Copy, Paste

LEMMA SendsKeeps ==
  ASSUME SessionInv, NEW p \in Processes, Sends(p)
  PROVE  SessionInv'
<1>1. /\ stage[p] = "press"
      /\ UNCHANGED stage \/ Goto(p, "done")
      /\ UNCHANGED <<config, running, paused, rows, made, offers, todo, deleted, failedAt, seen, wants, taken, does>>
  BY DEF Sends, daemon
<1>2. stage' \in [Processes -> Stages] /\ \A q \in Processes : q # p => stage'[q] = stage[q]
  BY <1>1 DEF SessionInv, SessionTyped, Goto, Stages
<1>3. SessionTyped'
  BY <1>1, <1>2 DEF SessionInv, SessionTyped
<1>4. RmOf(p)
  BY DEF SessionInv, RmInv
<1>5. RmOf(p)'
  <2>1. stage'[p] \in {"press", "done"} /\ stage[p] = "press"
    BY <1>1 DEF Goto, SessionInv, SessionTyped
  <2> QED
    BY <2>1, <1>1, <1>4, RmEnds
<1>6. ASSUME NEW q \in Processes, q # p PROVE RmOf(q)'
  BY <1>1, <1>2, <1>6, RmSame DEF SessionInv, RmInv
<1> QED
  BY <1>3, <1>5, <1>6 DEF SessionInv, RmInv

-----------------------------------------------------------------------------
(* What is around the commands.                                            *)

LEMMA TakeSelectionKeeps ==
  ASSUME SessionInv, TakeSelection
  PROVE  SessionInv'
<1>1. /\ offers # << >> /\ offers' = Tail(offers)
      /\ taken' \in [Processes -> BOOLEAN]
      /\ UNCHANGED <<config, running, paused, rows, made, seen, todo, deleted, failedAt, wants, stage, does>>
  BY DEF TakeSelection
<1>2. offers \in Seq(Offer) /\ Len(offers) <= CommandCap /\ CommandCap \in Nat
  BY SessionAssumption DEF SessionInv, SessionTyped
<1>3. offers' \in Seq(Offer) /\ Len(offers') <= CommandCap
  <2>1. Tail(offers) \in Seq(Offer) /\ Len(Tail(offers)) = Len(offers) - 1 /\ Len(offers) \in Nat
    <3> HIDE DEF Offer
    <3> QED
      BY <1>1, <1>2, HeadTailProperties
  <2> QED
    BY <2>1, <1>1, <1>2
<1>4. SessionTyped'
  BY <1>1, <1>3 DEF SessionInv, SessionTyped
<1>5. ASSUME NEW q \in Processes PROVE RmOf(q)'
  BY <1>1, RmSame DEF SessionInv, RmInv
<1> QED
  BY <1>4, <1>5 DEF SessionInv, RmInv

(* A recorded copy is in front of the rest, and retention keeps some.      *)
LEMMA ApplicationCopiesKeeps ==
  ASSUME SessionInv, ApplicationCopies
  PROVE  SessionInv'
<1> DEFINE row == [id |-> NextId, made |-> made', pinned |-> FALSE]
           all == <<row>> \o rows
<1>1. /\ made' = made + 1 /\ taken' \in [Processes -> BOOLEAN]
      /\ rows' = rows \/ rows' = Evict(all)
      /\ UNCHANGED <<config, running, paused, offers, seen, todo, deleted, failedAt, wants, stage, does>>
  BY DEF ApplicationCopies
<1>2. rows \in Seq(Row) /\ Distinct(rows) /\ made \in Nat
  BY DEF SessionInv, SessionTyped
<1>3. NextId \in Nat \ {0} /\ \A i \in DOMAIN rows : rows[i].id # NextId
  BY <1>2, NextIdIsNew DEF RowIds
<1>4. row \in Row /\ row.id = NextId /\ made' \in Nat
  BY <1>1, <1>2, <1>3 DEF Row
<1> HIDE DEF row
<1>5. all \in Seq(Row) /\ Distinct(all)
  BY <1>2, <1>3, <1>4, FrontRow
<1> HIDE DEF all
<1>6. \E places \in SUBSET DOMAIN all : Evict(all) = SubsequenceAt(all, places)
  <2> DEFINE unpinned == Keep(all, LAMBDA r : ~r.pinned)
             places == {j \in DOMAIN all :
               all[j].pinned \/ \E i \in DOMAIN unpinned : i <= MaxEntries /\ unpinned[i] = all[j]}
  <2>1. Evict(all) = SubsequenceAt(all, places)
    BY DEF Evict, Keep
  <2>2. places \in SUBSET DOMAIN all
    OBVIOUS
  <2> HIDE DEF places
  <2> QED
    BY <2>1, <2>2
<1>7. rows' \in Seq(Row) /\ Distinct(rows')
  BY <1>1, <1>2, <1>5, <1>6, KeptRows
<1>8. SessionTyped'
  BY <1>1, <1>4, <1>7 DEF SessionInv, SessionTyped, Distinct
<1>9. ASSUME NEW q \in Processes PROVE RmOf(q)'
  BY <1>1, RmSame DEF SessionInv, RmInv
<1> QED
  BY <1>8, <1>9 DEF SessionInv, RmInv

LEMMA DaemonStopsKeeps ==
  ASSUME SessionInv, DaemonStops
  PROVE  SessionInv'
<1>1. /\ running' = FALSE /\ paused' = FALSE /\ offers' = << >>
      /\ \A q \in Processes : \/ stage'[q] = stage[q]
                              \/ stage'[q] = "failed" /\ stage[q] \in {"settle", "press", "resolve", "call"}
      /\ stage' \in [Processes -> Stages]
      /\ UNCHANGED <<config, rows, made, seen, todo, deleted, failedAt, wants, taken, does>>
  BY DEF DaemonStops, Pasting, Calling, SessionInv, SessionTyped, Stages
<1>2. SessionTyped'
  <2>1. << >> \in Seq(Offer) /\ Len(<< >>) <= CommandCap
    BY SessionAssumption
  <2> QED
    BY <2>1, <1>1 DEF SessionInv, SessionTyped
<1>3. ASSUME NEW q \in Processes PROVE RmOf(q)'
  <2>1. RmOf(q)
    BY DEF SessionInv, RmInv
  <2>2. CASE stage'[q] = stage[q]
    BY <2>1, <2>2, <1>1, RmSame
  <2>3. CASE stage'[q] = "failed" /\ stage[q] # "failed"
    BY <2>1, <2>3, <1>1, RmEnds
  <2> QED
    BY <2>2, <2>3, <1>1
<1> QED
  BY <1>2, <1>3 DEF SessionInv, RmInv

(* A step that leaves all of the commands and the history alone.           *)
LEMMA SameSessionKeeps ==
  ASSUME SessionInv, running' \in BOOLEAN,
         UNCHANGED <<config, paused, rows, made, offers, process>>
  PROVE  SessionInv'
<1>1. /\ UNCHANGED <<config, paused, rows, made, offers>>
      /\ UNCHANGED <<does, stage, todo, deleted, failedAt, seen, wants, taken>>
  BY DEF process
<1>2. SessionTyped'
  BY <1>1 DEF SessionInv, SessionTyped
<1>3. ASSUME NEW q \in Processes PROVE RmOf(q)'
  BY <1>1, RmSame DEF SessionInv, RmInv
<1> QED
  BY <1>2, <1>3 DEF SessionInv, RmInv

LEMMA SessionStep ==
  ASSUME SessionInv, [Next]_vars
  PROVE  SessionInv'
<1>1. ASSUME NEW p \in Processes, CommandStep(p) \/ UserAnswers(p) PROVE SessionInv'
  BY <1>1, GoingOnKeeps, ResolveKeeps, CountKeeps, DeleteKeeps, PinKeeps, ClearKeeps, SetPausedKeeps,
     CopyKeeps, SendsKeeps DEF CommandStep
<1>2. CASE TakeSelection \/ ApplicationCopies \/ DaemonStops
  BY <1>2, TakeSelectionKeeps, ApplicationCopiesKeeps, DaemonStopsKeeps
<1>3. CASE DaemonStarts
  BY <1>3, SameSessionKeeps DEF DaemonStarts
<1>4. CASE CompositorStep \/ ConnectionBreaks \/ UNCHANGED vars
  <2>1. UNCHANGED <<config, running, paused, rows, made, offers, process>>
    BY <1>4 DEF CompositorStep, ConnectionBreaks, vars, daemon
  <2>2. running' \in BOOLEAN
    BY <2>1 DEF SessionInv, SessionTyped
  <2> QED
    BY <2>1, <2>2, SameSessionKeeps
<1> QED
  BY <1>1, <1>2, <1>3, <1>4 DEF Next

LEMMA SessionInit == Init => KeyboardInv /\ SessionInv
<1> SUFFICES ASSUME Init PROVE KeyboardInv /\ SessionInv
  OBVIOUS
<1>1. KeyboardInv
  BY NewKeyboardIsSound DEF Init
<1>2. rows \in Seq(Row) /\ Distinct(rows) /\ made \in Nat
  BY SessionAssumption DEF Init
<1>3. offers \in Seq(Offer) /\ Len(offers) <= CommandCap
  BY SessionAssumption DEF Init
<1>4. SessionTyped
  <2>1. config \in [privileged : BOOLEAN, presses : BOOLEAN] /\ running \in BOOLEAN /\ paused \in BOOLEAN
    BY DEF Init
  <2>2. does \in [Processes -> Commands] /\ stage \in [Processes -> Stages]
    BY DEF Init, Stages
  <2>3. todo \in [Processes -> Seq(Nat)]
    BY DEF Init
  <2>4. /\ deleted \in [Processes -> SUBSET Nat] /\ failedAt \in [Processes -> SUBSET Nat]
        /\ seen \in [Processes -> SUBSET Nat]
    BY DEF Init
  <2>5. wants \in [Processes -> Nat] /\ taken \in [Processes -> BOOLEAN]
    BY DEF Init, Nothing
  <2> QED
    BY <1>2, <1>3, <2>1, <2>2, <2>3, <2>4, <2>5 DEF SessionTyped
<1>5. RmInv
  BY DEF Init, RmInv, RmOf
<1> QED
  BY <1>1, <1>4, <1>5 DEF SessionInv

LEMMA SessionAlways == Spec => [](KeyboardInv /\ SessionInv)
<1>1. Init => KeyboardInv /\ SessionInv
  BY SessionInit
<1>2. KeyboardInv /\ SessionInv /\ [Next]_vars => KeyboardInv' /\ SessionInv'
  BY KeyboardStep, SessionStep
<1> QED
  BY <1>1, <1>2, PTL DEF Spec

(* For every history, all commands and every shortcut: the keyboard's lock *)
(* and queue, the history and the commands are what they may be, and the   *)
(* shortcut reaches the window whole, whatever other sends are under way   *)
(* and whatever failed ones left behind (send).                            *)
THEOREM SessionSound == Spec => []SessionIsSound
<1>1. KeyboardInv /\ SessionInv => SessionIsSound
  BY WholeChords DEF SessionIsSound, TypeOK, KeyboardInv, KeyboardTyped, SessionInv, SessionTyped
<1> QED
  BY <1>1, SessionAlways, PTL

(* For every history and all references: rm deletes only what they all     *)
(* meant against one list, and is refused no entry it deleted itself (run  *)
(* and resolve_refs).                                                      *)
THEOREM RmDeletesWhatItWasTold == Spec => []RmKeepsItsWord
<1>1. ASSUME SessionInv, NEW p \in Processes
      PROVE  /\ deleted[p] \subseteq {Resolve(does[p].refs[i], seen[p]) :
                  i \in {j \in DOMAIN does[p].refs : Resolves(does[p].refs[j], seen[p])}}
             /\ deleted[p] # {} => \A i \in DOMAIN does[p].refs : Resolves(does[p].refs[i], seen[p])
             /\ failedAt[p] \cap deleted[p] = {}
  <2>1. RmOf(p)
    BY <1>1 DEF SessionInv, RmInv
  <2> QED
    BY <2>1 DEF RmOf, AllResolve, Meant
<1>2. KeyboardInv /\ SessionInv => RmKeepsItsWord
  BY <1>1 DEF RmKeepsItsWord
<1> QED
  BY <1>2, SessionAlways, PTL

-----------------------------------------------------------------------------
(* A paste and its keys.                                                   *)

(* A command whose stage alone may be another, and that does not begin.    *)
LEMMA PasteSame ==
  ASSUME NEW p \in Processes, PasteOf(p), offers' = offers, Queued' = Queued,
         wants'[p] = wants[p], clipboard' = clipboard, taken'[p] = taken[p],
         \/ stage'[p] = stage[p]
         \/ stage'[p] \in {"done", "failed"}
         \/ /\ stage[p] \in {"idle", "resolve", "asking", "call"}
            /\ stage'[p] \in {"idle", "resolve", "asking", "call"}
  PROVE  PasteOf(p)'
<1>1. OffersOf(p)' = OffersOf(p) /\ KeysOf(p)' = KeysOf(p) /\ InPlace(p)' = InPlace(p)
  BY DEF OffersOf, KeysOf, InPlace
<1> QED
  BY <1>1 DEF PasteOf

(* The steps before the copy, those of the other commands, and a failure.  *)
LEMMA PasteGoesOn ==
  ASSUME SessionInv, PasteInv, NEW p \in Processes,
         UNCHANGED <<offers, wire, outbox, wants, clipboard, taken>>,
         NEW there \in Stages, Goto(p, there) \/ UNCHANGED stage,
         there \in {"settle", "press"} => UNCHANGED stage,
         \/ there \in {"done", "failed"}
         \/ stage[p] \in {"idle", "resolve", "asking", "call"}
         \/ UNCHANGED stage
  PROVE  PasteInv'
<1>1. Queued' = Queued
  BY DEF Queued
<1>2. ASSUME NEW q \in Processes PROVE PasteOf(q)'
  <2>1. PasteOf(q)
    BY DEF PasteInv
  <2>2. \/ stage'[q] = stage[q]
        \/ stage'[q] \in {"done", "failed"}
        \/ /\ stage[q] \in {"idle", "resolve", "asking", "call"}
           /\ stage'[q] \in {"idle", "resolve", "asking", "call"}
    BY DEF Goto, SessionInv, SessionTyped, Stages
  <2> QED
    BY <1>1, <2>1, <2>2, PasteSame
<1> QED
  BY <1>2 DEF PasteInv

(* Whose requests are pending after a step of a send.                      *)
LEMMA SendsQueue ==
  ASSUME KeyboardInv, NEW p \in Processes,
         \/ Keys!Lock(p) \/ Keys!Queue(p) \/ Keys!Write(p) \/ Keys!Sent(p) \/ Keys!SendFails(p)
  PROVE  \A k \in DOMAIN Queued' : Queued'[k].by = p \/ \E l \in DOMAIN Queued : Queued[l] = Queued'[k]
<1>1. CASE Keys!Lock(p)
  <2>1. Queued' = Queued
    BY <1>1 DEF Keys!Lock, Queued
  <2> QED
    BY <2>1
<1>2. CASE Keys!Write(p)
  <2>1. wire' = wire \o outbox /\ outbox' = << >>
    BY <1>2 DEF Keys!Write
  <2>2. wire' \in Seq(Request)
    BY <2>1, QueueFacts DEF KeyboardInv, Queued
  <2>3. Queued' = Queued
    BY <2>1, <2>2, ConcatEmptySeq DEF Queued
  <2> QED
    BY <2>3
<1>3. CASE Keys!Sent(p) \/ Keys!SendFails(p)
  BY <1>3, SendFailsIs
<1>4. CASE Keys!Queue(p)
  <2>1. /\ wire' = wire /\ outbox' \in Seq(Request) /\ Len(outbox') = Len(outbox) + 1
        /\ \A i \in 1..Len(outbox) : outbox'[i] = outbox[i]
        /\ outbox'[Len(outbox) + 1].by = p
    <3>1. /\ wire' = wire /\ outbox' \in Seq(Request) /\ Len(outbox') = Len(outbox) + 1
          /\ \A i \in 1..Len(outbox) : outbox'[i] = outbox[i]
          /\ outbox'[Len(outbox) + 1] = [by |-> p, does |-> Keys!Script[place[p]]]
      BY <1>4, QueueIs
    <3> HIDE DEF Request
    <3> QED
      BY <3>1
  <2>2. wire' \in Seq(Request)
    BY <2>1 DEF KeyboardInv, KeyboardTyped
  <2>3. /\ DOMAIN Queued' = 1..(Len(wire) + (Len(outbox) + 1))
        /\ \A i \in 1..Len(wire) : Queued'[i] = wire[i]
        /\ \A i \in 1..(Len(outbox) + 1) : Queued'[Len(wire) + i] = outbox'[i]
    <3>1. /\ DOMAIN (wire' \o outbox') = 1..(Len(wire') + Len(outbox'))
          /\ \A i \in 1..Len(wire') : (wire' \o outbox')[i] = wire'[i]
          /\ \A i \in 1..Len(outbox') : (wire' \o outbox')[Len(wire') + i] = outbox'[i]
      <4>1. wire' \in Seq(Request) /\ outbox' \in Seq(Request)
        BY <2>1, <2>2
      <4> QED
        BY <4>1, JoinedAt
    <3> QED
      BY <3>1, <2>1 DEF Queued
  <2>4. /\ DOMAIN Queued = 1..(Len(wire) + Len(outbox)) /\ Len(wire) \in Nat /\ Len(outbox) \in Nat
        /\ \A i \in 1..Len(wire) : Queued[i] = wire[i]
        /\ \A i \in 1..Len(outbox) : Queued[Len(wire) + i] = outbox[i]
    BY QueueFacts DEF KeyboardInv
  <2>5. ASSUME NEW k \in DOMAIN Queued'
        PROVE  Queued'[k].by = p \/ \E l \in DOMAIN Queued : Queued[l] = Queued'[k]
    <3>1. CASE k \in 1..Len(wire)
      <4>1. k \in DOMAIN Queued /\ Queued[k] = Queued'[k]
        BY <3>1, <2>3, <2>4
      <4> QED
        BY <4>1
    <3>2. CASE k \notin 1..Len(wire)
      <4> DEFINE i == k - Len(wire)
      <4>1. i \in 1..(Len(outbox) + 1) /\ Len(wire) + i = k
        BY <3>2, <2>3, <2>4
      <4>2. Queued'[k] = outbox'[i]
        BY <4>1, <2>3
      <4> HIDE DEF i
      <4>3. CASE i = Len(outbox) + 1
        BY <4>2, <4>3, <2>1
      <4>4. CASE i \in 1..Len(outbox)
        <5>1. k \in DOMAIN Queued /\ Queued[k] = outbox[i]
          BY <4>1, <4>4, <2>4
        <5> QED
          BY <5>1, <4>2, <4>4, <2>1
      <4> QED
        BY <4>1, <4>3, <4>4, <2>4
    <3> QED
      BY <3>1, <3>2
  <2> QED
    BY <2>5
<1> QED
  BY <1>1, <1>2, <1>3, <1>4

LEMMA PasteSends ==
  ASSUME KeyboardInv, SessionInv, PasteInv, NEW p \in Processes, Sends(p)
  PROVE  PasteInv'
<1>1. /\ stage[p] = "press" /\ UNCHANGED <<offers, wants, clipboard, taken>>
      /\ \/ Keys!Lock(p) \/ Keys!Queue(p) \/ Keys!Write(p) \/ Keys!Sent(p) \/ Keys!SendFails(p)
      /\ UNCHANGED stage \/ Goto(p, "done")
  BY DEF Sends, daemon
<1>2. \A k \in DOMAIN Queued' : Queued'[k].by = p \/ \E l \in DOMAIN Queued : Queued[l] = Queued'[k]
  BY <1>1, SendsQueue
<1>3. \A q \in Processes : OffersOf(q)' = OffersOf(q) /\ InPlace(q)' = InPlace(q)
  BY <1>1 DEF OffersOf, InPlace
<1>4. stage'[p] \in {"press", "done"} /\ \A q \in Processes : q # p => stage'[q] = stage[q]
  BY <1>1 DEF Goto, SessionInv, SessionTyped
<1>5. OffersOf(p) = {} /\ InPlace(p)
  BY <1>1 DEF PasteInv, PasteOf
<1>6. PasteOf(p)'
  BY <1>3, <1>4, <1>5 DEF PasteOf
<1>7. ASSUME NEW q \in Processes, q # p PROVE PasteOf(q)'
  <2>1. PasteOf(q) /\ stage'[q] = stage[q]
    BY <1>4, <1>7 DEF PasteInv
  <2>2. KeysOf(q)' # {} => KeysOf(q) # {}
    BY <1>2, <1>7 DEF KeysOf
  <2>3. \A i \in OffersOf(q) : offers'[i].what = wants'[q]
    BY <2>1, <1>1 DEF PasteOf
  <2> QED
    BY <2>1, <2>2, <2>3, <1>3 DEF PasteOf
<1> QED
  BY <1>6, <1>7 DEF PasteInv

(* A copy-back goes to the end of the watcher's queue, and is its maker's. *)
LEMMA PasteCopies ==
  ASSUME SessionInv, PasteInv, NEW p \in Processes, Copy(p) \/ Paste(p)
  PROVE  PasteInv'
<1>1. stage[p] = "call" /\ UNCHANGED <<wire, outbox, clipboard, taken>>
  BY DEF Copy, Paste, Calls, keyboard
<1>2. Queued' = Queued
  BY <1>1 DEF Queued
<1>3. CASE UNCHANGED <<offers, wants>> /\ Goto(p, "failed")
  <2>1. "failed" \in Stages
    BY DEF Stages
  <2> QED
    BY <2>1, <1>1, <1>3, PasteGoesOn
<1>4. CASE CopyAt(p) /\ \E there \in {"done", "settle"} : Goto(p, there)
  <2>1. PICK what \in Nat \ {Nothing} :
          offers' = Append(offers, [what |-> what, by |-> p]) /\ wants' = [wants EXCEPT ![p] = what]
    BY <1>4, CopyAtIs
  <2> DEFINE e == [what |-> what, by |-> p]
             L == Len(offers)
  <2>2. offers \in Seq(Offer) /\ e \in Offer /\ wants \in [Processes -> Nat]
    BY DEF SessionInv, SessionTyped, Offer
  <2>3. e.by = p /\ e.what = what
    OBVIOUS
  <2> HIDE DEF e
  <2>4. /\ L \in Nat /\ DOMAIN offers = 1..L /\ DOMAIN offers' = 1..(L + 1)
        /\ \A i \in 1..L : offers'[i] = offers[i]
        /\ offers'[L + 1] = e
    <3>1. /\ offers' = Append(offers, e) /\ Append(offers, e) \in Seq(Offer)
          /\ Len(Append(offers, e)) = Len(offers) + 1
          /\ \A i \in 1..Len(offers) : Append(offers, e)[i] = offers[i]
          /\ Append(offers, e)[Len(offers) + 1] = e
      <4> HIDE DEF Offer
      <4> QED
        BY <2>1, <2>2, AppendProperties DEF e
    <3> QED
      BY <2>2, <3>1
  <2>5. PasteOf(p) /\ OffersOf(p) = {} /\ KeysOf(p) = {}
    BY <1>1 DEF PasteInv, PasteOf
  <2>6. stage'[p] \in {"done", "settle"} /\ \A q \in Processes : q # p => stage'[q] = stage[q]
    BY <1>4 DEF Goto, SessionInv, SessionTyped
  <2>7. wants'[p] = what /\ \A q \in Processes : q # p => wants'[q] = wants[q]
    BY <2>1, <2>2
  <2>8. PasteOf(p)'
    <3>1. OffersOf(p)' = {L + 1}
      <4>1. OffersOf(p)' = {i \in 1..(L + 1) : offers'[i].by = p}
        BY <2>4 DEF OffersOf
      <4>2. \A i \in 1..L : offers[i].by # p
        BY <2>4, <2>5 DEF OffersOf
      <4> QED
        BY <4>1, <4>2, <2>3, <2>4
    <3>2. KeysOf(p)' = {}
      BY <2>5, <1>2 DEF KeysOf
    <3> QED
      BY <3>1, <3>2, <2>3, <2>4, <2>6, <2>7 DEF PasteOf
  <2>9. ASSUME NEW q \in Processes, q # p PROVE PasteOf(q)'
    <3>1. OffersOf(q)' = OffersOf(q)
      <4>1. OffersOf(q)' = {i \in 1..(L + 1) : offers'[i].by = q}
        BY <2>4 DEF OffersOf
      <4>2. OffersOf(q) = {i \in 1..L : offers[i].by = q}
        BY <2>4 DEF OffersOf
      <4> QED
        BY <4>1, <4>2, <2>3, <2>4, <2>9
    <3>2. \A i \in OffersOf(q) : offers'[i] = offers[i]
      BY <2>4 DEF OffersOf
    <3>3. KeysOf(q)' = KeysOf(q) /\ InPlace(q)' = InPlace(q)
      BY <1>1, <1>2, <2>7, <2>9 DEF KeysOf, InPlace
    <3>4. PasteOf(q) /\ stage'[q] = stage[q] /\ wants'[q] = wants[q]
      BY <2>6, <2>7, <2>9 DEF PasteInv
    <3> QED
      BY <3>1, <3>2, <3>3, <3>4 DEF PasteOf
  <2> QED
    BY <2>8, <2>9 DEF PasteInv
<1> QED
  BY <1>3, <1>4 DEF Copy, Paste, CopyFails

(* The watcher serves the copy-backs in their order.                       *)
LEMMA PasteIsTaken ==
  ASSUME SessionInv, PasteInv, TakeSelection
  PROVE  PasteInv'
<1> DEFINE h == offers[1].by
           L == Len(offers)
<1>1. /\ offers # << >> /\ offers' = Tail(offers) /\ Head(offers) = offers[1]
      /\ clipboard' = {[what |-> Head(offers).what, ours |-> TRUE]}
      /\ taken' = [p \in Processes |-> p # Head(offers).by]
      /\ UNCHANGED <<wire, outbox, wants, stage>>
  BY DEF TakeSelection, keyboard, SessionInv, SessionTyped
<1>2. offers \in Seq(Offer)
  BY DEF SessionInv, SessionTyped
<1>3. /\ L \in Nat /\ L >= 1 /\ DOMAIN offers = 1..L /\ DOMAIN offers' = 1..(L - 1)
      /\ \A i \in 1..(L - 1) : offers'[i] = offers[i + 1]
  <2>1. /\ Tail(offers) \in Seq(Offer) /\ Len(Tail(offers)) = L - 1
        /\ \A i \in 1..(L - 1) : Tail(offers)[i] = offers[i + 1]
    <3> HIDE DEF Offer
    <3> QED
      BY <1>1, <1>2, HeadTailProperties
  <2> QED
    BY <2>1, <1>1, <1>2
<1>4. offers[1] \in Offer /\ 1 \in DOMAIN offers
  BY <1>2, <1>3
<1>5. ASSUME NEW q \in Processes PROVE PasteOf(q)'
  <2>1. PasteOf(q) /\ stage'[q] = stage[q] /\ wants'[q] = wants[q] /\ KeysOf(q)' = KeysOf(q)
    BY <1>1 DEF PasteInv, KeysOf, Queued
  <2>2. \A i \in OffersOf(q)' : i + 1 \in OffersOf(q) /\ offers'[i] = offers[i + 1]
    BY <1>3 DEF OffersOf
  <2>3. \A i \in OffersOf(q)' : offers'[i].what = wants'[q]
    BY <2>1, <2>2 DEF PasteOf
  <2>4. CASE q = h
    <3>1. 1 \in OffersOf(q)
      BY <1>4, <2>4 DEF OffersOf
    <3>2. wants[q] = offers[1].what /\ wants[q] # Nothing
      BY <3>1, <2>1, <1>4 DEF PasteOf, Offer
    <3>3. InPlace(q)'
      BY <3>2, <2>1, <1>1 DEF InPlace
    <3> QED
      BY <3>1, <3>3, <2>1, <2>3 DEF PasteOf
  <2>5. CASE q # h
    <3>1. taken'[q]
      BY <1>1, <2>5
    <3>2. InPlace(q) => InPlace(q)'
      BY <3>1, <2>1 DEF InPlace
    <3>3. OffersOf(q) # {} => OffersOf(q)' # {}
      <4>1. ASSUME NEW i \in OffersOf(q) PROVE i - 1 \in OffersOf(q)'
        <5>1. i \in 1..L /\ i # 1 /\ offers[i].by = q
          BY <1>3, <2>5 DEF OffersOf
        <5>2. i - 1 \in 1..(L - 1) /\ (i - 1) + 1 = i
          BY <5>1, <1>3
        <5>3. i - 1 \in DOMAIN offers' /\ offers'[i - 1] = offers[i]
          BY <5>2, <1>3
        <5> QED
          BY <5>1, <5>3 DEF OffersOf
      <4> QED
        BY <4>1
    <3>4. OffersOf(q) = {} => OffersOf(q)' = {}
      BY <2>2
    <3> QED
      BY <3>2, <3>3, <3>4, <2>1, <2>3 DEF PasteOf
  <2> QED
    BY <2>4, <2>5
<1> QED
  BY <1>5 DEF PasteInv

(* Another copy on the clipboard, and the compositor's and the daemon's    *)
(* own steps.                                                              *)
LEMMA PasteAround ==
  ASSUME KeyboardInv, SessionInv, PasteInv,
         ApplicationCopies \/ DaemonStops \/ DaemonStarts \/ CompositorStep \/ ConnectionBreaks
  PROVE  PasteInv'
<1>1. CASE ApplicationCopies
  <2>1. /\ \A p \in Processes : taken'[p]
        /\ UNCHANGED <<wire, outbox, offers, wants, stage>>
    BY <1>1 DEF ApplicationCopies, keyboard
  <2>2. ASSUME NEW q \in Processes PROVE PasteOf(q)'
    <3>1. PasteOf(q) /\ OffersOf(q)' = OffersOf(q) /\ KeysOf(q)' = KeysOf(q) /\ (InPlace(q) => InPlace(q)')
      BY <2>1 DEF PasteInv, OffersOf, KeysOf, Queued, InPlace
    <3> QED
      BY <3>1, <2>1 DEF PasteOf
  <2> QED
    BY <2>2 DEF PasteInv
<1>2. CASE DaemonStops
  <2>1. /\ offers' = << >> /\ wire' = << >> /\ outbox' = << >>
        /\ \A q \in Processes : stage'[q] \notin {"settle", "press"}
    BY <1>2 DEF DaemonStops, Keys!KeyboardReplaced, Pasting
  <2>2. ASSUME NEW q \in Processes PROVE PasteOf(q)'
    <3>1. OffersOf(q)' = {} /\ KeysOf(q)' = {}
      BY <2>1 DEF OffersOf, KeysOf, Queued
    <3> QED
      BY <3>1, <2>1 DEF PasteOf
  <2> QED
    BY <2>2 DEF PasteInv
<1>3. CASE DaemonStarts
  <2>1. UNCHANGED <<wire, outbox, offers, wants, clipboard, taken, stage>>
    BY <1>3 DEF DaemonStarts, keyboard, process
  <2>2. ASSUME NEW q \in Processes PROVE PasteOf(q)'
    BY <2>1, PasteSame DEF PasteInv, Queued
  <2> QED
    BY <2>2 DEF PasteInv
<1>4. CASE CompositorStep \/ ConnectionBreaks
  <2>1. UNCHANGED <<offers, wants, clipboard, taken, stage>>
    BY <1>4 DEF CompositorStep, ConnectionBreaks, daemon, process
  <2>2. \A k \in DOMAIN Queued' : \E l \in DOMAIN Queued : Queued[l] = Queued'[k]
    <3>1. CASE CompositorStep
      <4>1. Keys!Arrives
        BY <3>1 DEF CompositorStep
      <4>2. /\ Len(wire) + Len(outbox) \in Nat /\ DOMAIN Queued = 1..(Len(wire) + Len(outbox))
            /\ DOMAIN Queued' = 1..(Len(wire) + Len(outbox) - 1)
            /\ \A k \in 1..(Len(wire) + Len(outbox) - 1) : Queued'[k] = Queued[k + 1]
        BY <4>1, ArrivesIs
      <4>3. \A k \in 1..(Len(wire) + Len(outbox) - 1) : k + 1 \in 1..(Len(wire) + Len(outbox))
        BY <4>2
      <4> QED
        BY <4>2, <4>3
    <3>2. CASE ConnectionBreaks
      BY <3>2 DEF ConnectionBreaks, Keys!Breaks, Queued
    <3> QED
      BY <1>4, <3>1, <3>2
  <2>3. ASSUME NEW q \in Processes PROVE PasteOf(q)'
    <3>1. PasteOf(q) /\ OffersOf(q)' = OffersOf(q) /\ InPlace(q)' = InPlace(q)
      BY <2>1 DEF PasteInv, OffersOf, InPlace
    <3>2. KeysOf(q)' # {} => KeysOf(q) # {}
      BY <2>2 DEF KeysOf
    <3> QED
      BY <3>1, <3>2, <2>1 DEF PasteOf
  <2> QED
    BY <2>3 DEF PasteInv
<1> QED
  BY <1>1, <1>2, <1>3, <1>4

LEMMA PasteStep ==
  ASSUME Punctual, KeyboardInv, SessionInv, PasteInv, [Next]_vars
  PROVE  PasteInv'
<1>1. ASSUME NEW p \in Processes,
             \/ Launch(p) \/ ResolveRefs(p) \/ CountRows(p) \/ CallFails(p) \/ Delete(p) \/ Pin(p)
             \/ Reveal(p) \/ Clear(p) \/ SetPaused(p) \/ UserAnswers(p)
      PROVE  PasteInv'
  <2>1. /\ UNCHANGED <<offers, wire, outbox, wants, clipboard, taken>>
        /\ \E there \in Stages :
             /\ Goto(p, there) \/ UNCHANGED stage
             /\ there \notin {"settle", "press"}
             /\ there \in {"done", "failed"} \/ stage[p] \in {"idle", "resolve", "asking", "call"}
    BY <1>1 DEF Launch, ResolveRefs, CountRows, CallFails, Delete, Pin, Reveal, Clear, SetPaused,
                UserAnswers, Calls, Refused, Stages, keyboard, daemon, Goto
  <2>2. PICK there \in Stages :
          /\ Goto(p, there) \/ UNCHANGED stage
          /\ there \notin {"settle", "press"}
          /\ there \in {"done", "failed"} \/ stage[p] \in {"idle", "resolve", "asking", "call"}
    BY <2>1
  <2> HIDE DEF Goto
  <2> QED
    BY <2>1, <2>2, PasteGoesOn
<1>2. ASSUME NEW p \in Processes, Settle(p) PROVE PasteInv'
  <2>1. /\ stage[p] = "settle" /\ Goto(p, "press") /\ \A i \in DOMAIN offers : offers[i].by # p
        /\ UNCHANGED <<offers, wire, outbox, wants, clipboard, taken>>
    BY <1>2 DEF Settle, keyboard, daemon
  <2>2. stage'[p] = "press" /\ \A q \in Processes : q # p => stage'[q] = stage[q]
    BY <2>1 DEF Goto, SessionInv, SessionTyped
  <2>3. PasteOf(p) /\ OffersOf(p) = {} /\ InPlace(p)
    BY <2>1 DEF PasteInv, PasteOf, OffersOf
  <2>4. \A q \in Processes : OffersOf(q)' = OffersOf(q) /\ KeysOf(q)' = KeysOf(q) /\ InPlace(q)' = InPlace(q)
    BY <2>1 DEF OffersOf, KeysOf, Queued, InPlace
  <2>5. PasteOf(p)'
    BY <2>2, <2>3, <2>4 DEF PasteOf
  <2>6. ASSUME NEW q \in Processes, q # p PROVE PasteOf(q)'
    BY <2>1, <2>2, <2>6, PasteSame DEF PasteInv, Queued
  <2> QED
    BY <2>5, <2>6 DEF PasteInv
<1>3. ASSUME NEW p \in Processes, Copy(p) \/ Paste(p) \/ Sends(p) PROVE PasteInv'
  BY <1>3, PasteCopies, PasteSends
<1>4. CASE UNCHANGED vars
  <2>1. UNCHANGED <<wire, outbox, offers, wants, clipboard, taken, stage>>
    BY <1>4 DEF vars, keyboard, daemon, process
  <2>2. ASSUME NEW q \in Processes PROVE PasteOf(q)'
    BY <2>1, PasteSame DEF PasteInv, Queued
  <2> QED
    BY <2>2 DEF PasteInv
<1> QED
  BY <1>1, <1>2, <1>3, <1>4, PasteIsTaken, PasteAround DEF Next, CommandStep

(* For every history, all commands and every shortcut, if the watcher      *)
(* takes a copy-back within FOCUS_SETTLE: the keys of a paste find its own *)
(* entry on the clipboard, or what something else put there later (paste). *)
THEOREM PasteIsOfItsEntry ==
  ASSUME Punctual
  PROVE  Spec => []PastesItsEntry
<1>1. Init => PasteInv
  BY DEF Init, Keys!KeyboardIsNew, PasteInv, PasteOf, OffersOf, KeysOf, Queued
<1>2. KeyboardInv /\ SessionInv /\ PasteInv /\ [Next]_vars => PasteInv'
  BY PasteStep
<1>3. KeyboardInv /\ PasteInv => PastesItsEntry
  <2> SUFFICES ASSUME KeyboardInv, PasteInv, NEW p \in Processes, Keys!Struck(p)
               PROVE  InPlace(p)
    BY DEF PastesItsEntry, InPlace
  <2>1. wire # << >> /\ Head(wire).by = p /\ wire \in Seq(Request)
    BY DEF Keys!Struck, KeyboardInv, KeyboardTyped
  <2>2. 1 \in 1..Len(wire) /\ Head(wire) = wire[1]
    BY <2>1
  <2>3. 1 \in DOMAIN Queued /\ Queued[1] = wire[1]
    <3>1. Len(wire) \in Nat /\ Len(outbox) \in Nat /\ DOMAIN Queued = 1..(Len(wire) + Len(outbox))
          /\ \A i \in 1..Len(wire) : Queued[i] = wire[i]
      BY QueueFacts DEF KeyboardInv
    <3> QED
      BY <3>1, <2>2
  <2>4. 1 \in KeysOf(p)
    BY <2>1, <2>2, <2>3 DEF KeysOf
  <2> QED
    BY <2>4 DEF PasteInv, PasteOf
<1>4. Spec => []PasteInv
  BY <1>1, <1>2, SessionAlways, PTL DEF Spec
<1> QED
  BY <1>3, <1>4, SessionAlways, PTL
=============================================================================
