--------------------------- MODULE HistoryProofs ---------------------------
(***************************************************************************)
(* What holds of History for every set of contents and captures, every     *)
(* limit and every clock: its type, that one row stands for one content    *)
(* whose bytes are stored, that the mask follows the flag, what a step may *)
(* never do to a pinned or a sensitive entry, and what retention promises. *)
(***************************************************************************)
EXTENDS History, FiniteSetTheorems, TLAPS

(* The identity of a flavor that can be canonical decides its kind: the    *)
(* hash covers the essence of the MIME type.                               *)
LEMMA IdentityDecidesKind ==
  ASSUME NEW f \in Flavor, NEW g \in Flavor, NEW k \in Kinds, NEW l \in Kinds,
         Rank(k, f.mime) > 0, Rank(l, g.mime) > 0, Identity(f) = Identity(g)
  PROVE  k = l
<1>1. Essence(f.mime) = Essence(g.mime)
  BY DEF Identity
<1>2. f.mime # ThumbMime /\ FromMime(f.mime) = k
  BY DEF Rank
<1>3. g.mime # ThumbMime /\ FromMime(g.mime) = l
  BY DEF Rank
<1>4. f.mime \in Mimes /\ g.mime \in Mimes
  BY DEF Flavor
<1> QED
  BY <1>1, <1>2, <1>3, <1>4
  DEF Essence, FromMime, Kinds, NoKind, Mimes, ImageMimes, PlainMimes, TextMimes, HintMime, ThumbMime

(* Dropping other flavors leaves the canonical one canonical.              *)
LEMMA CanonicalSurvives ==
  ASSUME NEW fs, NEW k, NEW c, NEW S, S \subseteq DOMAIN fs, c \in S, IsCanonical(k, fs, c)
  PROVE  IsCanonical(k, Restrict(fs, S), c)
BY DEF IsCanonical, Restrict

(* distinct_flavors never drops the canonical flavor: an earlier flavor of *)
(* the same MIME type would have been canonical instead.                   *)
LEMMA DistinctKeepsCanonical ==
  ASSUME NEW fs, NEW k, NEW c, IsFlavorList(fs), IsCanonical(k, fs, c)
  PROVE  /\ c \in DOMAIN Distinct(fs)
         /\ IsCanonical(k, Distinct(fs), c)
         /\ Distinct(fs)[c] = fs[c]
<1> DEFINE firsts == {i \in DOMAIN fs : \A j \in DOMAIN fs : j < i => fs[j].mime # fs[i].mime}
<1>1. DOMAIN fs \subseteq Int
  BY FlavorsAssumption DEF IsFlavorList, IsPartial, Slots, ThumbSlot
<1>2. \A i \in DOMAIN fs : Rank(k, fs[i].mime) \in Int
  BY DEF Rank
<1>3. c \in firsts
  <2> SUFFICES ASSUME NEW j \in DOMAIN fs, j < c, fs[j].mime = fs[c].mime
               PROVE  FALSE
    BY DEF IsCanonical
  <2>1. c <= j
    BY <1>2 DEF IsCanonical
  <2> QED
    BY <1>1, <2>1 DEF IsCanonical
<1>4. Distinct(fs) = Restrict(fs, firsts)
  BY DEF Distinct
<1> QED
  BY <1>3, <1>4, CanonicalSurvives DEF Restrict

(* The flavors of a copy that is not refused: they are well formed, the    *)
(* canonical flavor is among them and still canonical, and the only text   *)
(* among them was captured.                                                *)
LEMMA StorableFlavorsKeepCanonical ==
  ASSUME NEW fs, NEW k \in Kinds, NEW c, IsPartial(fs, Slots, Flavor),
         IsCanonical(k, fs, c), ~IsRefused(k, fs)
  PROVE  /\ IsFlavorList(StorableFlavors(k, fs))
         /\ IsCanonical(k, StorableFlavors(k, fs), c)
         /\ StorableFlavors(k, fs)[c] = fs[c]
         /\ \A p \in DOMAIN StorableFlavors(k, fs) :
              StorableFlavors(k, fs)[p].mime \in TextMimes
                => p \in DOMAIN fs /\ StorableFlavors(k, fs)[p] = fs[p]
<1> DEFINE kept == WithinCap(Distinct(fs))
<1>1. /\ IsFlavorList(fs)
      /\ c \in DOMAIN Distinct(fs) /\ IsCanonical(k, Distinct(fs), c) /\ Distinct(fs)[c] = fs[c]
  BY DistinctKeepsCanonical DEF IsFlavorList, IsPartial
<1>2. /\ DOMAIN Distinct(fs) \subseteq DOMAIN fs
      /\ \A i \in DOMAIN Distinct(fs) : Distinct(fs)[i] = fs[i]
  BY DEF Distinct, Restrict
<1>3. ~IsOverImageCap(fs[c])
  BY <1>1 DEF IsRefused
<1>4. /\ DOMAIN kept \subseteq DOMAIN fs
      /\ \A i \in DOMAIN kept : kept[i] = fs[i]
      /\ c \in DOMAIN kept /\ IsCanonical(k, kept, c)
  <2> DEFINE S == {i \in DOMAIN Distinct(fs) : ~IsOverImageCap(Distinct(fs)[i])}
  <2>1. c \in S
    BY <1>1, <1>3
  <2>2. kept = Restrict(Distinct(fs), S)
    BY DEF WithinCap
  <2>3. IsCanonical(k, kept, c)
    <3> HIDE DEF S
    <3>1. S \subseteq DOMAIN Distinct(fs)
      BY DEF S
    <3> QED
      BY <1>1, <2>1, <2>2, <3>1, CanonicalSurvives
  <2> QED
    BY <1>2, <2>1, <2>2, <2>3 DEF Restrict
<1>5. IsFlavorList(kept)
  <2>1. kept = [i \in DOMAIN kept |-> kept[i]]
    BY DEF WithinCap, Restrict
  <2>2. \A i \in DOMAIN kept : kept[i] \in Flavor
    BY <1>1, <1>4 DEF IsPartial
  <2> HIDE DEF kept
  <2> QED
    BY <1>1, <1>4, <2>1, <2>2 DEF IsFlavorList, IsPartial
<1> DEFINE sources == {d \in DOMAIN kept : IsCanonical(k, kept, d) /\ kept[d].data \notin Undecodable}
           carried == \E i \in DOMAIN kept : kept[i].mime = ThumbMime
           thumb   == [mime |-> ThumbMime, data |-> kept[CHOOSE d \in sources : TRUE].data]
           full    == [i \in DOMAIN kept \cup {ThumbSlot} |-> IF i \in DOMAIN kept THEN kept[i] ELSE thumb]
<1>6. StorableFlavors(k, fs) = IF k # "image" \/ carried \/ sources = {} THEN kept ELSE full
  BY DEF StorableFlavors, WithThumbnail
<1> HIDE DEF kept
<1>7. CASE k # "image" \/ carried \/ sources = {}
  <2>1. StorableFlavors(k, fs) = kept
    BY <1>6, <1>7
  <2> QED
    BY <2>1, <1>4, <1>5
<1>8. CASE ~(k # "image" \/ carried \/ sources = {})
  <2>1. StorableFlavors(k, fs) = full
    BY <1>6, <1>8
  <2>2. (CHOOSE d \in sources : TRUE) \in DOMAIN kept
    BY <1>8
  <2>3. thumb \in Flavor
    <3>1. kept[CHOOSE d \in sources : TRUE] \in Flavor
      BY <1>5, <2>2 DEF IsFlavorList, IsPartial
    <3> QED
      BY <3>1 DEF Flavor, Mimes, ImageMimes
  <2> HIDE DEF thumb
  <2>4. IsFlavorList(full)
    BY <1>5, <2>3 DEF IsFlavorList, IsPartial
  <2>5. IsCanonical(k, full, c)
    <3>1. thumb.mime = ThumbMime
      BY DEF thumb
    <3>2. Rank(k, thumb.mime) = 0
      BY <3>1 DEF Rank
    <3> HIDE DEF sources
    <3> QED
      BY <1>4, <3>2 DEF IsCanonical
  <2>6. ASSUME NEW p \in DOMAIN full, full[p].mime \in TextMimes
        PROVE  p \in DOMAIN kept
    <3>1. thumb.mime \notin TextMimes
      BY DEF thumb, TextMimes, PlainMimes, ThumbMime
    <3> QED
      BY <2>6, <3>1
  <2> QED
    BY <1>4, <2>1, <2>4, <2>5, <2>6
<1> QED
  BY <1>7, <1>8

-----------------------------------------------------------------------------
(* The inductive invariant, stated of any pair of tables, so that it can   *)
(* be carried through an UPDATE or an INSERT before the sweep has run.     *)

IsSound(row, fs) ==
  /\ IsFlavorList(fs)
  /\ \E c \in DOMAIN fs : IsCanonical(row.kind, fs, c) /\ Identity(fs[c]) = row.hash
  /\ row.preview.masked <=> row.sensitive /\ row.kind # "image"
  /\ \A p \in DOMAIN fs : fs[p].mime \in TextMimes /\ fs[p].data \in Secrets => row.sensitive

AreSound(es, fs) ==
  /\ IsPartial(es, EntryIds, Row)
  /\ DOMAIN es \subseteq DOMAIN fs
  /\ \A i, j \in DOMAIN es : es[i].hash = es[j].hash => i = j
  /\ \A i \in DOMAIN es : IsSound(es[i], fs[i])

IInv ==
  /\ AreSound(entries, flavors)
  /\ DOMAIN flavors = DOMAIN entries
  /\ answered \in EntryIds \cup {0}

(* The invariant implies the properties the runs check.                    *)
LEMMA IInvImplies ==
  IInv => TypeOK /\ OneRowPerContent /\ HashNamesStoredBytes /\ MaskFollowsFlag /\ SecretsAreFlagged
BY DEF IInv, AreSound, IsSound, TypeOK, OneRowPerContent, HashNamesStoredBytes, MaskFollowsFlag,
       SecretsAreFlagged, IsPartial

(* A DELETE keeps tables sound, and so does the sweep, which is two.       *)
LEMMA WithoutIsSound ==
  ASSUME NEW es, NEW fs, NEW S, AreSound(es, fs)
  PROVE  AreSound(Without(es, S), fs)
<1>1. /\ DOMAIN Without(es, S) = DOMAIN es \ S
      /\ \A i \in DOMAIN es \ S : Without(es, S)[i] = es[i]
  BY DEF Without, Restrict
<1>2. IsPartial(Without(es, S), EntryIds, Row)
  BY DEF AreSound, IsPartial, Without, Restrict
<1> QED
  BY <1>1, <1>2 DEF AreSound

LEMMA SweptIsSound ==
  ASSUME NEW es, NEW fs, NEW now, AreSound(es, fs)
  PROVE  AreSound(Swept(es, now), fs)
BY WithoutIsSound DEF Swept

(* Leaving sound tables restores the invariant, the cascade included.      *)
LEMMA LeaveRestoresIInv ==
  ASSUME NEW es, NEW fs, AreSound(es, fs), Leave(es, fs), answered' \in EntryIds \cup {0}
  PROVE  IInv'
<1>1. /\ entries' = es
      /\ DOMAIN flavors' = DOMAIN es
      /\ \A i \in DOMAIN es : flavors'[i] = fs[i]
  BY DEF Leave, AreSound, Restrict
<1>2. AreSound(es, flavors')
  BY <1>1 DEF AreSound
<1> QED
  BY <1>1, <1>2 DEF IInv, AreSound, EntryIds

-----------------------------------------------------------------------------
(* What the daemon's new_entry hands to insert.                            *)
IsCopy(new) ==
  /\ new.created_at \in Stamps /\ new.kind \in Kinds /\ new.hash \in Hashes
  /\ new.sensitive \in BOOLEAN /\ new.preview \in Previews
  /\ IsPartial(new.flavors, Slots, Flavor)
  /\ \E c \in DOMAIN new.flavors :
       IsCanonical(new.kind, new.flavors, c) /\ Identity(new.flavors[c]) = new.hash
  /\ new.preview.masked <=> new.sensitive /\ new.kind # "image"
  /\ \A p \in DOMAIN new.flavors :
       new.flavors[p].mime \in TextMimes /\ new.flavors[p].data \in Secrets => new.sensitive

LEMMA NewEntriesAreCopies ==
  ASSUME NEW sel, IsSelection(sel), NEW at \in Stamps, NEW new \in NewEntries(sel, at)
  PROVE  IsCopy(new)
<1>1. PICK k \in Kinds, c \in DOMAIN sel.flavors, p \in DOMAIN sel.flavors :
        /\ IsCanonical(k, sel.flavors, c)
        /\ new = [created_at |-> at, kind |-> k, hash |-> Identity(sel.flavors[c]),
                  sensitive |-> IsSensitive(sel),
                  preview |-> [of |-> sel.flavors[p].data,
                               masked |-> IsSensitive(sel) /\ k # "image"],
                  flavors |-> sel.flavors]
  BY DEF NewEntries
<1>2. IsPartial(sel.flavors, Slots, Flavor) /\ sel.hinted \in BOOLEAN
  BY DEF IsSelection
<1>3. sel.flavors[c] \in Flavor /\ sel.flavors[p] \in Flavor
  BY <1>2 DEF IsPartial
<1>4. sel.flavors[p].data \in Data
  BY <1>3 DEF Flavor
<1>5. IsSensitive(sel) \in BOOLEAN
  BY <1>2 DEF IsSensitive
<1>6. Identity(sel.flavors[c]) \in Hashes
  BY <1>3 DEF Hashes
<1>7. new.preview \in Previews
  BY <1>1, <1>4, <1>5 DEF Previews
<1>8. new.preview.masked <=> new.sensitive /\ new.kind # "image"
  BY <1>1
<1>9. \A q \in DOMAIN sel.flavors :
        sel.flavors[q].mime \in TextMimes /\ sel.flavors[q].data \in Secrets => IsSensitive(sel)
  BY DEF IsSensitive
<1> QED
  BY <1>1, <1>2, <1>5, <1>6, <1>7, <1>8, <1>9 DEF IsCopy

-----------------------------------------------------------------------------
(* Every operation restores the invariant.                                 *)

LEMMA CreateKeepsIInv ==
  ASSUME NEW new, IInv, IsCopy(new), InsertCreates(new)
  PROVE  IInv'
<1>1. PICK id \in EntryIds :
        LET written == [i \in DOMAIN entries \cup {id} |->
                          IF i = id THEN NewRow(new) ELSE entries[i]]
            stored  == [i \in DOMAIN flavors \cup {id} |->
                          IF i = id THEN StorableFlavors(new.kind, new.flavors) ELSE flavors[i]]
        IN  /\ IsNextRowid(id)
            /\ Leave(Swept(written, new.created_at), stored)
            /\ answered' = id
  BY DEF InsertCreates
<1> DEFINE written == [i \in DOMAIN entries \cup {id} |->
                         IF i = id THEN NewRow(new) ELSE entries[i]]
           stored  == [i \in DOMAIN flavors \cup {id} |->
                         IF i = id THEN StorableFlavors(new.kind, new.flavors) ELSE flavors[i]]
<1>2. id \notin DOMAIN entries
  BY <1>1 DEF IsNextRowid, EntryIds
<1>3. IsPartial(written, EntryIds, Row)
  <2>1. NewRow(new) \in Row
    BY DEF IsCopy, NewRow, Row
  <2> QED
    BY <2>1 DEF IInv, AreSound, IsPartial
<1>4. ASSUME NEW i \in DOMAIN written, NEW j \in DOMAIN written, written[i].hash = written[j].hash
      PROVE  i = j
  <2>1. NewRow(new).hash = new.hash
    BY DEF NewRow
  <2>2. \A l \in DOMAIN entries : entries[l].hash # new.hash
    BY DEF InsertCreates, HoldsHash
  <2> QED
    BY <1>4, <2>1, <2>2 DEF IInv, AreSound
<1>5. IsSound(NewRow(new), StorableFlavors(new.kind, new.flavors))
  <2>1. PICK c \in DOMAIN new.flavors :
          IsCanonical(new.kind, new.flavors, c) /\ Identity(new.flavors[c]) = new.hash
    BY DEF IsCopy
  <2> DEFINE st == StorableFlavors(new.kind, new.flavors)
  <2>2. /\ IsFlavorList(st) /\ IsCanonical(new.kind, st, c) /\ st[c] = new.flavors[c]
        /\ \A p \in DOMAIN st : st[p].mime \in TextMimes
                                 => p \in DOMAIN new.flavors /\ st[p] = new.flavors[p]
    BY <2>1, StorableFlavorsKeepCanonical DEF IsCopy, InsertCreates
  <2>3. c \in DOMAIN st /\ Identity(st[c]) = new.hash
    BY <2>1, <2>2 DEF IsCanonical
  <2> DEFINE row == NewRow(new)
  <2>4. /\ row.kind = new.kind /\ row.hash = new.hash
        /\ row.preview = new.preview /\ row.sensitive = new.sensitive
    BY DEF NewRow
  <2> HIDE DEF st, row
  <2>5. row.preview.masked <=> row.sensitive /\ row.kind # "image"
    BY <2>4 DEF IsCopy
  <2>6. ASSUME NEW p \in DOMAIN st, st[p].mime \in TextMimes, st[p].data \in Secrets
        PROVE  row.sensitive
    BY <2>2, <2>4, <2>6 DEF IsCopy
  <2>7. IsCanonical(row.kind, st, c) /\ Identity(st[c]) = row.hash
    BY <2>2, <2>3, <2>4
  <2>8. IsSound(row, st)
    BY <2>2, <2>3, <2>5, <2>6, <2>7 DEF IsSound
  <2> QED
    BY <2>8 DEF st, row
<1>6. AreSound(written, stored)
  BY <1>2, <1>3, <1>4, <1>5 DEF IInv, AreSound
<1> HIDE DEF written, stored
<1>7. AreSound(Swept(written, new.created_at), stored)
  BY <1>6, SweptIsSound
<1> QED
  BY <1>1, <1>7, LeaveRestoresIInv DEF written, stored

(* What a bump does to the row it bumps, given the invariant.              *)
LEMMA BumpOnlyMasks ==
  ASSUME NEW new, IInv, IsCopy(new), NEW id \in DOMAIN entries, entries[id].hash = new.hash
  PROVE  LET row == BumpedRow(entries[id], new)
         IN  /\ row \in Row
             /\ row.hash = entries[id].hash /\ row.kind = entries[id].kind
             /\ row.pinned = entries[id].pinned /\ row.last_used_at = new.created_at
             /\ entries[id].sensitive => row.sensitive
             /\ entries[id].preview.masked => row.preview.masked
             /\ row.preview.masked <=> row.sensitive /\ row.kind # "image"
<1> DEFINE old == entries[id]
           row == BumpedRow(old, new)
<1>1. old \in Row /\ IsSound(old, flavors[id])
  BY DEF IInv, AreSound, IsPartial
<1>2. /\ row \in Row /\ row.hash = old.hash /\ row.kind = old.kind
      /\ row.pinned = old.pinned /\ row.last_used_at = new.created_at
      /\ row.sensitive = (old.sensitive \/ new.sensitive)
      /\ row.preview = IF new.sensitive THEN new.preview ELSE old.preview
  BY <1>1 DEF BumpedRow, Row, IsCopy
<1>3. new.kind = old.kind
  <2>1. PICK c \in DOMAIN flavors[id] :
          IsCanonical(old.kind, flavors[id], c) /\ Identity(flavors[id][c]) = old.hash
    BY <1>1 DEF IsSound
  <2>2. PICK d \in DOMAIN new.flavors :
          IsCanonical(new.kind, new.flavors, d) /\ Identity(new.flavors[d]) = new.hash
    BY DEF IsCopy
  <2>3. flavors[id][c] \in Flavor /\ new.flavors[d] \in Flavor
    BY <1>1 DEF IsSound, IsFlavorList, IsPartial, IsCopy
  <2>4. old.kind \in Kinds /\ new.kind \in Kinds
    BY <1>1 DEF Row, IsCopy
  <2> QED
    BY <2>1, <2>2, <2>3, <2>4, IdentityDecidesKind DEF IsCanonical
<1>4. old.sensitive => row.sensitive
  BY <1>2
<1>5. row.preview.masked <=> row.sensitive /\ row.kind # "image"
  <2>1. CASE new.sensitive
    BY <1>2, <1>3, <2>1 DEF IsCopy
  <2>2. CASE ~new.sensitive
    BY <1>1, <1>2, <2>2 DEF IsSound
  <2> QED
    BY <2>1, <2>2
<1>6. old.preview.masked => row.preview.masked
  BY <1>1, <1>2, <1>4, <1>5 DEF IsSound
<1> QED
  BY <1>2, <1>4, <1>5, <1>6

LEMMA BumpKeepsIInv ==
  ASSUME NEW new, IInv, IsCopy(new), InsertBumps(new)
  PROVE  IInv'
<1>1. PICK id \in DOMAIN entries :
        /\ entries[id].hash = new.hash
        /\ Leave(Swept([entries EXCEPT ![id] = BumpedRow(entries[id], new)], new.created_at), flavors)
        /\ answered' = id
  BY DEF InsertBumps
<1> DEFINE row == BumpedRow(entries[id], new)
           bumped == [entries EXCEPT ![id] = row]
<1>2. /\ row \in Row /\ row.hash = entries[id].hash /\ row.kind = entries[id].kind
      /\ entries[id].sensitive => row.sensitive
      /\ row.preview.masked <=> row.sensitive /\ row.kind # "image"
  BY <1>1, BumpOnlyMasks
<1> HIDE DEF row
<1>3. IsSound(row, flavors[id])
  BY <1>2 DEF IsSound, IInv, AreSound
<1>4. AreSound(bumped, flavors)
  BY <1>2, <1>3 DEF IInv, AreSound, IsPartial
<1>5. Leave(Swept(bumped, new.created_at), flavors) /\ answered' \in EntryIds \cup {0}
  BY <1>1 DEF row, IInv, AreSound, IsPartial
<1> HIDE DEF bumped
<1> QED
  BY <1>4, <1>5, SweptIsSound, LeaveRestoresIInv

LEMMA InsertKeepsIInv ==
  ASSUME NEW new, IInv, IsCopy(new), Insert(new)
  PROVE  IInv'
<1>1. CASE InsertRefused(new)
  BY <1>1 DEF InsertRefused, IInv, AreSound
<1> QED
  BY <1>1, CreateKeepsIInv, BumpKeepsIInv DEF Insert

LEMMA TouchKeepsIInv ==
  ASSUME NEW id, NEW at \in Stamps, IInv, Touch(id, at)
  PROVE  IInv'
<1> DEFINE touched == [entries EXCEPT ![id].last_used_at = at]
<1>1. id \in DOMAIN entries /\ Leave(touched, flavors) /\ answered' = 0
  BY DEF Touch
<1>2. AreSound(touched, flavors)
  BY <1>1 DEF IInv, AreSound, IsSound, IsPartial, Row
<1> QED
  BY <1>1, <1>2, LeaveRestoresIInv

LEMMA SetPinnedKeepsIInv ==
  ASSUME NEW id, NEW pinned \in BOOLEAN, IInv, SetPinned(id, pinned)
  PROVE  IInv'
<1> DEFINE turned == [entries EXCEPT ![id].pinned = pinned]
<1>1. id \in DOMAIN entries /\ Leave(turned, flavors) /\ answered' = 0
  BY DEF SetPinned
<1>2. AreSound(turned, flavors)
  BY <1>1 DEF IInv, AreSound, IsSound, IsPartial, Row
<1> QED
  BY <1>1, <1>2, LeaveRestoresIInv

(* Delete, Clear and the sweep only take rows away.                        *)
LEMMA RemovalKeepsIInv ==
  ASSUME NEW es, IInv, Leave(es, flavors), answered' = 0,
         \/ es = << >>
         \/ \E S : es = Without(entries, S)
         \/ \E now : es = Swept(entries, now)
  PROVE  IInv'
<1>1. AreSound(entries, flavors)
  BY DEF IInv
<1>2. AreSound(<< >>, flavors)
  BY DEF IInv, AreSound, IsPartial
<1>3. AreSound(es, flavors)
  BY <1>1, <1>2, WithoutIsSound, SweptIsSound
<1> QED
  BY <1>3, LeaveRestoresIInv

LEMMA InitIInv == Init => IInv
BY DEF Init, IInv, AreSound, IsPartial

LEMMA NextKeepsIInv == IInv /\ [Next]_vars => IInv'
<1> SUFFICES ASSUME IInv, [Next]_vars PROVE IInv'
  OBVIOUS
<1>1. ASSUME NEW at \in Stamps, NEW sel \in Captures, NEW new \in NewEntries(sel, at), Insert(new)
      PROVE  IInv'
  <2>1. IsSelection(sel)
    BY HistoryAssumption
  <2>2. IsCopy(new)
    BY <2>1, NewEntriesAreCopies
  <2> QED
    BY <1>1, <2>2, InsertKeepsIInv
<1>2. ASSUME NEW at \in Stamps, NEW id \in EntryIds, Touch(id, at) PROVE IInv'
  BY <1>2, TouchKeepsIInv
<1>3. ASSUME NEW id \in EntryIds, NEW pinned \in BOOLEAN, SetPinned(id, pinned) PROVE IInv'
  BY <1>3, SetPinnedKeepsIInv
<1>4. ASSUME NEW at \in Stamps, EnforceRetention(at) \/ EnforceRetentionFails(at) PROVE IInv'
  BY <1>4, RemovalKeepsIInv DEF EnforceRetention, EnforceRetentionFails
<1>5. ASSUME NEW id \in EntryIds, Delete(id) PROVE IInv'
  BY <1>5, RemovalKeepsIInv DEF Delete
<1>6. ASSUME NEW includePinned \in BOOLEAN, Clear(includePinned) PROVE IInv'
  BY <1>6, RemovalKeepsIInv DEF Clear
<1>7. CASE UNCHANGED vars
  BY <1>7 DEF vars, IInv, AreSound
<1> QED
  BY <1>1, <1>2, <1>3, <1>4, <1>5, <1>6, <1>7 DEF Next

(* The invariant holds throughout.                                         *)
THEOREM Inductive == Spec => []IInv
BY InitIInv, NextKeepsIInv, PTL DEF Spec

(* The tables keep their type through every operation.                     *)
THEOREM TypeCorrect == Spec => []TypeOK
BY Inductive, IInvImplies, PTL

(* Identity: Store::insert never leaves two rows for one content, and      *)
(* every row's hash names bytes that are in the flavors table, whatever    *)
(* the caps, the duplicates and the thumbnail did to the copy; and no      *)
(* flavor outlives its row.                                                *)
THEOREM IdentityIsStored == Spec => []IdentityHolds
<1>1. IInv => IdentityHolds
  BY IInvImplies DEF IdentityHolds
<1> QED
  BY <1>1, Inductive, PTL

(* Masking: no detectable secret is stored under an unflagged row, and the *)
(* preview a row shows is masked exactly when it is flagged.               *)
THEOREM Masked == Spec => []SecretsAreMasked
<1>1. IInv => SecretsAreMasked
  BY IInvImplies DEF SecretsAreMasked
<1> QED
  BY <1>1, Inductive, PTL

-----------------------------------------------------------------------------
(* What a step may never do.                                               *)

(* The sweep leaves the rows it keeps as they are, and keeps the pinned.   *)
LEMMA SweptKeeps ==
  ASSUME NEW es, NEW now
  PROVE  /\ DOMAIN Swept(es, now) \subseteq DOMAIN es
         /\ \A i \in DOMAIN Swept(es, now) : Swept(es, now)[i] = es[i]
         /\ \A i \in DOMAIN es : es[i].pinned => i \in DOMAIN Swept(es, now)
BY DEF Swept, Without, Restrict, Expired, OverCapacity, Unpinned

(* Retention: no sweep, bump or plain Clear removes a pinned entry.        *)
THEOREM PinnedIsKept == Spec => PinnedLeavesOnlyByName
<1>1. ASSUME [Next]_vars, NEW i \in DOMAIN entries, entries[i].pinned, i \notin DOMAIN entries'
      PROVE  Delete(i) \/ Clear(TRUE)
  <2>1. ASSUME NEW new, Insert(new) PROVE FALSE
    <3>1. CASE InsertRefused(new)
      BY <1>1, <3>1 DEF InsertRefused
    <3>2. CASE InsertCreates(new)
      <4>1. PICK id \in EntryIds :
              LET written == [j \in DOMAIN entries \cup {id} |->
                                IF j = id THEN NewRow(new) ELSE entries[j]]
              IN  /\ IsNextRowid(id)
                  /\ entries' = Swept(written, new.created_at)
        BY <3>2 DEF InsertCreates, Leave
      <4>2. i # id
        BY <1>1, <4>1 DEF IsNextRowid, EntryIds
      <4> QED
        BY <1>1, <4>1, <4>2, SweptKeeps
    <3>3. CASE InsertBumps(new)
      <4>1. PICK id \in DOMAIN entries :
              entries' = Swept([entries EXCEPT ![id] = BumpedRow(entries[id], new)], new.created_at)
        BY <3>3 DEF InsertBumps, Leave
      <4>2. BumpedRow(entries[id], new).pinned = entries[id].pinned
        BY <4>1 DEF BumpedRow
      <4> QED
        BY <1>1, <4>1, <4>2, SweptKeeps
    <3> QED
      BY <2>1, <3>1, <3>2, <3>3 DEF Insert
  <2>2. ASSUME NEW id, NEW at, Touch(id, at) PROVE FALSE
    BY <1>1, <2>2 DEF Touch, Leave
  <2>3. ASSUME NEW id, NEW pinned, SetPinned(id, pinned) PROVE FALSE
    BY <1>1, <2>3 DEF SetPinned, Leave
  <2>4. ASSUME NEW at, EnforceRetention(at) \/ EnforceRetentionFails(at) PROVE FALSE
    BY <1>1, <2>4, SweptKeeps
    DEF EnforceRetention, EnforceRetentionFails, Leave, Without, Restrict, Expired, Unpinned
  <2>5. ASSUME NEW id, Delete(id) PROVE Delete(i)
    BY <1>1, <2>5 DEF Delete, Leave, Without, Restrict
  <2>6. ASSUME NEW includePinned \in BOOLEAN, Clear(includePinned) PROVE Clear(TRUE)
    BY <1>1, <2>6 DEF Clear, Leave, Without, Restrict, Unpinned
  <2>7. CASE UNCHANGED vars
    BY <1>1, <2>7 DEF vars
  <2> QED
    BY <1>1, <2>1, <2>2, <2>3, <2>4, <2>5, <2>6, <2>7 DEF Next
<1>2. [Next]_vars => [\A i \in DOMAIN entries :
                       entries[i].pinned /\ i \notin DOMAIN entries' => Delete(i) \/ Clear(TRUE)]_vars
  BY <1>1
<1> QED
  BY <1>2, PTL DEF Spec, PinnedLeavesOnlyByName

(* Sensitivity: whatever is copied over it, an entry that was flagged      *)
(* stays flagged and masked, and an entry never changes its content.       *)
THEOREM SensitiveIsKept == Spec => SensitiveStays
<1> DEFINE Kept(i) == /\ entries'[i].hash = entries[i].hash
                      /\ entries[i].sensitive => entries'[i].sensitive
                      /\ entries[i].preview.masked => entries'[i].preview.masked
<1>1. ASSUME IInv, [Next]_vars, NEW i \in DOMAIN entries \cap DOMAIN entries'
      PROVE  Kept(i)
  <2>1. ASSUME NEW new, IsCopy(new), Insert(new) PROVE Kept(i)
    <3>1. CASE InsertRefused(new)
      BY <3>1 DEF InsertRefused
    <3>2. CASE InsertCreates(new)
      <4>1. PICK id \in EntryIds :
              LET written == [j \in DOMAIN entries \cup {id} |->
                                IF j = id THEN NewRow(new) ELSE entries[j]]
              IN  /\ IsNextRowid(id)
                  /\ entries' = Swept(written, new.created_at)
        BY <3>2 DEF InsertCreates, Leave
      <4>2. i # id
        BY <4>1 DEF IsNextRowid, EntryIds
      <4> QED
        BY <4>1, <4>2, SweptKeeps
    <3>3. CASE InsertBumps(new)
      <4>1. PICK id \in DOMAIN entries :
              /\ entries[id].hash = new.hash
              /\ entries' = Swept([entries EXCEPT ![id] = BumpedRow(entries[id], new)], new.created_at)
        BY <3>3 DEF InsertBumps, Leave
      <4> DEFINE row == BumpedRow(entries[id], new)
      <4>2. /\ row.hash = entries[id].hash
            /\ entries[id].sensitive => row.sensitive
            /\ entries[id].preview.masked => row.preview.masked
        BY <1>1, <2>1, <4>1, BumpOnlyMasks
      <4>3. entries'[i] = IF i = id THEN row ELSE entries[i]
        BY <4>1, SweptKeeps
      <4> HIDE DEF row
      <4> QED
        BY <4>2, <4>3
    <3> QED
      BY <2>1, <3>1, <3>2, <3>3 DEF Insert
  <2>2. ASSUME NEW id, NEW at, Touch(id, at) PROVE Kept(i)
    BY <1>1, <2>2 DEF Touch, Leave, IInv, AreSound, IsPartial, Row
  <2>3. ASSUME NEW id, NEW pinned, SetPinned(id, pinned) PROVE Kept(i)
    BY <1>1, <2>3 DEF SetPinned, Leave, IInv, AreSound, IsPartial, Row
  <2>4. ASSUME NEW at, EnforceRetention(at) \/ EnforceRetentionFails(at) PROVE Kept(i)
    BY <2>4, SweptKeeps DEF EnforceRetention, EnforceRetentionFails, Leave, Without, Restrict
  <2>5. ASSUME NEW id, Delete(id) PROVE Kept(i)
    BY <2>5 DEF Delete, Leave, Without, Restrict
  <2>6. ASSUME NEW includePinned \in BOOLEAN, Clear(includePinned) PROVE Kept(i)
    BY <2>6 DEF Clear, Leave, Without, Restrict
  <2>7. CASE UNCHANGED vars
    BY <2>7 DEF vars
  <2>8. \A sel \in Captures : IsSelection(sel)
    BY HistoryAssumption
  <2> HIDE DEF Kept
  <2> QED
    BY <1>1, <2>1, <2>2, <2>3, <2>4, <2>5, <2>6, <2>7, <2>8, NewEntriesAreCopies DEF Next
<1>2. IInv /\ [Next]_vars => [\A i \in DOMAIN entries \cap DOMAIN entries' : Kept(i)]_vars
  BY <1>1
<1> QED
  BY <1>2, Inductive, PTL DEF Spec, SensitiveStays
-----------------------------------------------------------------------------
(* Retention: an insert leaves the unpinned history within both limits,    *)
(* and nothing but unpinning ever takes it over max_entries.               *)

(* A table sort of rows with integer ids and times.                        *)
IsTable(es) == IsPartial(es, EntryIds, Row)

LEMMA TableFacts ==
  ASSUME NEW es, IsTable(es)
  PROVE  /\ IsFiniteSet(DOMAIN es) /\ DOMAIN es \subseteq Int
         /\ \A i \in DOMAIN es : es[i] \in Row /\ es[i].last_used_at \in Int
         /\ IsFiniteSet(Unpinned(es)) /\ Cardinality(Unpinned(es)) \in Nat
<1>1. IsFiniteSet(EntryIds) /\ EntryIds \subseteq Int
  BY FS_Interval, HistoryAssumption DEF EntryIds
<1>2. DOMAIN es \in SUBSET EntryIds /\ Unpinned(es) \in SUBSET EntryIds
  BY DEF IsTable, IsPartial, Unpinned
<1>3. \A i \in DOMAIN es : es[i] \in Row /\ es[i].last_used_at \in Int
  BY HistoryAssumption DEF IsTable, IsPartial, Row
<1>4. IsFiniteSet(DOMAIN es) /\ IsFiniteSet(Unpinned(es))
  BY <1>1, <1>2, FS_Subset
<1> QED
  BY <1>1, <1>2, <1>3, <1>4, FS_CardinalityType

(* Newer is a strict total order on a table.                               *)
LEMMA NewerIsTotalOrder ==
  ASSUME NEW es, IsTable(es), NEW i \in DOMAIN es, NEW j \in DOMAIN es, NEW k \in DOMAIN es
  PROVE  /\ ~IsNewer(es, i, i)
         /\ IsNewer(es, i, j) /\ IsNewer(es, j, k) => IsNewer(es, i, k)
         /\ i # j => IsNewer(es, i, j) \/ IsNewer(es, j, i)
BY TableFacts DEF IsNewer

(* What OverCapacity leaves fits: an unpinned row is kept when fewer than  *)
(* MaxEntries are newer, and no two rows have as many newer ones.          *)
LEMMA KeptFits ==
  ASSUME NEW es, IsTable(es)
  PROVE  Cardinality(Unpinned(es) \ OverCapacity(es)) <= MaxEntries
<1> DEFINE U == Unpinned(es)
           Above(i) == {j \in U : IsNewer(es, j, i)}
           kept == U \ OverCapacity(es)
           ranks == 0 .. (MaxEntries - 1)
           rank == [i \in kept |-> Cardinality(Above(i))]
<1>1. IsFiniteSet(U) /\ U \subseteq DOMAIN es
  BY TableFacts DEF Unpinned
<1>2. \A i \in U : Above(i) \in SUBSET U /\ IsFiniteSet(Above(i)) /\ Cardinality(Above(i)) \in Nat
  BY <1>1, FS_Subset, FS_CardinalityType
<1>3. MaxEntries \in Nat \ {0} /\ IsFiniteSet(ranks) /\ Cardinality(ranks) = MaxEntries
  BY FS_Interval, HistoryAssumption
<1>4. rank \in [kept -> ranks]
  <2>1. ASSUME NEW i \in kept PROVE Cardinality(Above(i)) \in ranks
    <3>1. i \in U /\ ~(Cardinality(Above(i)) >= MaxEntries)
      BY DEF OverCapacity
    <3> HIDE DEF Above, U
    <3> QED
      BY <1>2, <1>3, <3>1
  <2> QED
    BY <2>1
<1>5. \A x, y \in kept : x # y => rank[x] # rank[y]
  <2>1. ASSUME NEW x \in U, NEW y \in U, IsNewer(es, x, y)
        PROVE  Cardinality(Above(x)) # Cardinality(Above(y))
    <3>1. Above(x) \subseteq Above(y)
      BY <1>1, <2>1, NewerIsTotalOrder
    <3>2. x \in Above(y) /\ x \notin Above(x)
      BY <1>1, <2>1, NewerIsTotalOrder
    <3> HIDE DEF Above
    <3> QED
      BY <1>2, <3>1, <3>2, FS_Subset
  <2>2. \A x, y \in U : x # y => IsNewer(es, x, y) \/ IsNewer(es, y, x)
    BY <1>1, NewerIsTotalOrder
  <2> HIDE DEF Above
  <2> QED
    BY <2>1, <2>2
<1>6. IsFiniteSet(kept)
  BY <1>1, FS_Subset
<1>7. Cardinality(kept) \in Nat
  BY <1>6, FS_CardinalityType
<1> HIDE DEF kept, ranks, rank
<1>8. ~(Cardinality(ranks) < Cardinality(kept))
  BY <1>3, <1>4, <1>5, <1>6, FS_PigeonHole
<1> QED
  BY <1>3, <1>7, <1>8 DEF kept

(* The sweep leaves a table within both limits.                            *)
LEMMA SweepEnforces ==
  ASSUME NEW es, IsTable(es), NEW now
  PROVE  /\ Cardinality(Unpinned(Swept(es, now))) <= MaxEntries
         /\ Expired(Swept(es, now), now) = {}
<1> DEFINE fresh == Without(es, Expired(es, now))
<1>1. IsTable(fresh)
  BY DEF IsTable, IsPartial, Without, Restrict
<1>2. Unpinned(Swept(es, now)) = Unpinned(fresh) \ OverCapacity(fresh)
  BY DEF Swept, Unpinned, Without, Restrict
<1>3. Expired(Swept(es, now), now) = {}
  BY DEF Swept, Expired, Unpinned, Without, Restrict
<1> QED
  BY <1>1, <1>2, <1>3, KeptFits

-----------------------------------------------------------------------------
(* The table an insert sweeps, and the row it answers with.                *)
LEMMA InsertSweeps ==
  ASSUME NEW new, IInv, IsCopy(new), InsertCreates(new) \/ InsertBumps(new)
  PROVE  \E es : /\ IsTable(es)
                 /\ entries' = Swept(es, new.created_at)
                 /\ DOMAIN entries \subseteq DOMAIN es /\ answered' \in DOMAIN es
                 /\ es[answered'].last_used_at = new.created_at
                 /\ \A j \in DOMAIN es : j # answered' => j \in DOMAIN entries /\ es[j] = entries[j]
<1>0. IsTable(entries)
  BY DEF IInv, AreSound, IsTable
<1>1. CASE InsertCreates(new)
  <2>1. PICK id \in EntryIds :
          /\ answered' = id
          /\ entries' = Swept([j \in DOMAIN entries \cup {id} |->
                                 IF j = id THEN NewRow(new) ELSE entries[j]], new.created_at)
    BY <1>1 DEF InsertCreates, Leave
  <2> DEFINE written == [j \in DOMAIN entries \cup {id} |->
                           IF j = id THEN NewRow(new) ELSE entries[j]]
  <2>2. NewRow(new) \in Row /\ NewRow(new).last_used_at = new.created_at
    BY DEF IsCopy, NewRow, Row
  <2>3. IsTable(written)
    BY <1>0, <2>2 DEF IsTable, IsPartial
  <2>4. /\ DOMAIN entries \subseteq DOMAIN written /\ id \in DOMAIN written
        /\ written[id].last_used_at = new.created_at
        /\ \A j \in DOMAIN written : j # id => j \in DOMAIN entries /\ written[j] = entries[j]
    BY <2>2
  <2> HIDE DEF written
  <2> QED
    BY <2>1, <2>3, <2>4 DEF written
<1>2. CASE InsertBumps(new)
  <2>1. PICK id \in DOMAIN entries :
          /\ entries[id].hash = new.hash
          /\ answered' = id
          /\ entries' = Swept([entries EXCEPT ![id] = BumpedRow(entries[id], new)], new.created_at)
    BY <1>2 DEF InsertBumps, Leave
  <2> DEFINE row == BumpedRow(entries[id], new)
             bumped == [entries EXCEPT ![id] = row]
  <2>2. row \in Row /\ row.last_used_at = new.created_at
    BY <2>1, BumpOnlyMasks
  <2> HIDE DEF row
  <2>3. /\ IsTable(bumped) /\ DOMAIN bumped = DOMAIN entries /\ id \in DOMAIN bumped
        /\ bumped[id].last_used_at = new.created_at
        /\ \A j \in DOMAIN bumped : j # id => j \in DOMAIN entries /\ bumped[j] = entries[j]
    BY <1>0, <2>2 DEF IsTable, IsPartial
  <2> HIDE DEF bumped
  <2> QED
    BY <2>1, <2>3 DEF bumped, row
<1> QED
  BY <1>1, <1>2

(* One insert leaves the history within its limits.                        *)
LEMMA InsertEnforces ==
  ASSUME NEW new, IInv, IsCopy(new), InsertCreates(new) \/ InsertBumps(new)
  PROVE  InsertLeavesWithinLimits'
<1>1. PICK es : /\ IsTable(es)
                /\ entries' = Swept(es, new.created_at)
                /\ answered' \in DOMAIN es
                /\ es[answered'].last_used_at = new.created_at
  BY InsertSweeps
<1>2. /\ Cardinality(Unpinned(entries')) <= MaxEntries
      /\ Expired(entries', new.created_at) = {}
  BY <1>1, SweepEnforces
<1>3. answered' \in DOMAIN entries' => entries'[answered'].last_used_at = new.created_at
  BY <1>1, SweptKeeps
<1> QED
  BY <1>2, <1>3 DEF InsertLeavesWithinLimits

(* Every step but an insert that is not refused answers 0 or stutters.     *)
LEMMA OthersAnswerNothing ==
  ASSUME IInv, Next
  PROVE  \/ answered' = 0
         \/ \E new : IsCopy(new) /\ (InsertCreates(new) \/ InsertBumps(new))
<1>1. ASSUME NEW at \in Stamps, NEW sel \in Captures, NEW new \in NewEntries(sel, at), Insert(new)
      PROVE  \/ answered' = 0
             \/ IsCopy(new) /\ (InsertCreates(new) \/ InsertBumps(new))
  BY <1>1, HistoryAssumption, NewEntriesAreCopies DEF Insert, InsertRefused
<1> QED
  BY <1>1 DEF Next, Touch, SetPinned, Delete, Clear, EnforceRetention, EnforceRetentionFails

(* Retention: the insert that trims the history trims it to its limits.    *)
THEOREM InsertsKeepLimits == Spec => []InsertLeavesWithinLimits
<1>1. Init => InsertLeavesWithinLimits
  BY DEF Init, InsertLeavesWithinLimits
<1>2. IInv /\ InsertLeavesWithinLimits /\ [Next]_vars => InsertLeavesWithinLimits'
  <2> SUFFICES ASSUME IInv, InsertLeavesWithinLimits, [Next]_vars
               PROVE  InsertLeavesWithinLimits'
    OBVIOUS
  <2>1. CASE answered' = 0
    BY <2>1 DEF InsertLeavesWithinLimits
  <2>2. ASSUME NEW new, IsCopy(new), InsertCreates(new) \/ InsertBumps(new)
        PROVE  InsertLeavesWithinLimits'
    BY <2>2, InsertEnforces
  <2>3. CASE UNCHANGED vars
    BY <2>3 DEF vars, InsertLeavesWithinLimits, Unpinned, Expired
  <2> QED
    BY <2>1, <2>2, <2>3, OthersAnswerNothing
<1> QED
  BY <1>1, <1>2, Inductive, PTL DEF Spec

-----------------------------------------------------------------------------
(* Retention: nothing but unpinning takes the history over max_entries.    *)
THEOREM OnlyUnpinning == Spec => OnlyUnpinningOverfills
<1> DEFINE Overfills == Cardinality(Unpinned(entries')) > MaxEntries =>
                          \/ Cardinality(Unpinned(entries)) > MaxEntries
                          \/ \E i \in EntryIds : SetPinned(i, FALSE)
<1>1. ASSUME IInv, IInv', [Next]_vars PROVE Overfills
  <2>0. IsTable(entries) /\ IsTable(entries')
    BY <1>1 DEF IInv, AreSound, IsTable
  <2>1. ASSUME Unpinned(entries') \subseteq Unpinned(entries) PROVE Overfills
    <3>1. Cardinality(Unpinned(entries')) <= Cardinality(Unpinned(entries))
      BY <2>0, <2>1, TableFacts, FS_Subset
    <3>2. Cardinality(Unpinned(entries')) \in Nat /\ Cardinality(Unpinned(entries)) \in Nat
      BY <2>0, TableFacts
    <3>3. MaxEntries \in Nat
      BY HistoryAssumption
    <3>4. ASSUME NEW m \in Nat, NEW n \in Nat, m <= n, m > MaxEntries PROVE n > MaxEntries
      BY <3>3, <3>4
    <3>5. Cardinality(Unpinned(entries')) > MaxEntries => Cardinality(Unpinned(entries)) > MaxEntries
      BY <3>1, <3>2, <3>4
    <3> QED
      BY <3>5
  <2>2. ASSUME NEW new, IsCopy(new), Insert(new) PROVE Overfills
    <3>1. CASE InsertRefused(new)
      <4>1. Unpinned(entries') \subseteq Unpinned(entries)
        BY <3>1 DEF InsertRefused
      <4> HIDE DEF Overfills
      <4> QED
        BY <2>1, <4>1
    <3>2. CASE InsertCreates(new) \/ InsertBumps(new)
      <4>1. Cardinality(Unpinned(entries')) <= MaxEntries
        BY <1>1, <2>2, <3>2, InsertSweeps, SweepEnforces
      <4>2. Cardinality(Unpinned(entries')) \in Nat /\ MaxEntries \in Nat
        BY <2>0, TableFacts, HistoryAssumption
      <4> QED
        BY <4>1, <4>2
    <3> QED
      BY <2>2, <3>1, <3>2 DEF Insert
  <2>3. ASSUME NEW id \in EntryIds, SetPinned(id, FALSE) PROVE Overfills
    BY <2>3
  <2> HIDE DEF Overfills
  <2>4. ASSUME NEW id, NEW at, Touch(id, at) PROVE Unpinned(entries') \subseteq Unpinned(entries)
    BY <1>1, <2>4 DEF Touch, Leave, Unpinned, IInv, AreSound, IsPartial, Row
  <2>5. ASSUME NEW id, SetPinned(id, TRUE) PROVE Unpinned(entries') \subseteq Unpinned(entries)
    BY <1>1, <2>5 DEF SetPinned, Leave, Unpinned, IInv, AreSound, IsPartial, Row
  <2>6. ASSUME NEW at, EnforceRetention(at) \/ EnforceRetentionFails(at)
        PROVE  Unpinned(entries') \subseteq Unpinned(entries)
    BY <2>6, SweptKeeps
    DEF EnforceRetention, EnforceRetentionFails, Leave, Unpinned, Without, Restrict
  <2>7. ASSUME NEW id, Delete(id) PROVE Unpinned(entries') \subseteq Unpinned(entries)
    BY <2>7 DEF Delete, Leave, Unpinned, Without, Restrict
  <2>8. ASSUME NEW includePinned \in BOOLEAN, Clear(includePinned)
        PROVE  Unpinned(entries') \subseteq Unpinned(entries)
    BY <2>8 DEF Clear, Leave, Unpinned, Without, Restrict
  <2>9. CASE UNCHANGED vars
    BY <2>1, <2>9 DEF vars
  <2>10. ASSUME NEW id \in EntryIds, NEW pinned \in BOOLEAN, SetPinned(id, pinned) PROVE Overfills
    <3>1. pinned = TRUE \/ pinned = FALSE
      OBVIOUS
    <3> QED
      BY <2>1, <2>3, <2>5, <2>10, <3>1
  <2>11. CASE Next
    <3>1. ASSUME NEW at \in Stamps, NEW sel \in Captures, NEW new \in NewEntries(sel, at), Insert(new)
          PROVE  Overfills
      BY <2>2, <3>1, HistoryAssumption, NewEntriesAreCopies
    <3> QED
      BY <2>1, <2>4, <2>6, <2>7, <2>8, <2>10, <2>11, <3>1 DEF Next
  <2> QED
    BY <1>1, <2>9, <2>11
<1>2. IInv /\ IInv' /\ [Next]_vars => [Overfills]_vars
  BY <1>1
<1> QED
  BY <1>2, Inductive, PTL DEF Spec, OnlyUnpinningOverfills

-----------------------------------------------------------------------------
(* A row newer in use than every other outlives the sweep: nothing is above *)
(* it, and it is as young as the clock.                                    *)
LEMMA NewestIsKept ==
  ASSUME NEW es, IsTable(es), NEW now, NEW a \in DOMAIN es, es[a].last_used_at = now,
         \A j \in DOMAIN es : j # a => es[j].last_used_at < now
  PROVE  a \in DOMAIN Swept(es, now)
<1> DEFINE fresh == Without(es, Expired(es, now))
<1>1. now \in Int /\ \A j \in DOMAIN es : es[j].last_used_at \in Int /\ j \in Int
  BY TableFacts
<1>2. a \notin Expired(es, now)
  BY <1>1, HistoryAssumption DEF Expired, NoAgeLimit
<1>3. /\ a \in DOMAIN fresh /\ DOMAIN fresh \subseteq DOMAIN es
      /\ \A j \in DOMAIN fresh : fresh[j] = es[j]
  BY <1>2 DEF Without, Restrict
<1> HIDE DEF fresh
<1>4. \A j \in DOMAIN fresh : ~IsNewer(fresh, j, a)
  BY <1>1, <1>3 DEF IsNewer
<1>5. {j \in Unpinned(fresh) : IsNewer(fresh, j, a)} = {}
  BY <1>4 DEF Unpinned
<1>6. a \notin OverCapacity(fresh)
  <2>1. Cardinality({}) = 0
    BY FS_EmptySet
  <2> QED
    BY <1>5, <2>1, HistoryAssumption DEF OverCapacity
<1> QED
  BY <1>3, <1>6 DEF Swept, Without, Restrict, fresh

(* When the clock moves on between two uses, an insert answers with the    *)
(* entry that now holds the copy: the sweep in its transaction, whatever   *)
(* max_entries and max_age, never removes the row it just wrote.           *)
THEOREM InsertIsKept == Spec => [](~ClockSteps => InsertAnswersWithHolder)
<1>1. Init => InsertAnswersWithHolder
  BY DEF Init, InsertAnswersWithHolder
<1>2. ASSUME IInv, ~ClockSteps, NEW at \in Stamps, ClockReads(at), NEW sel \in Captures,
             NEW new \in NewEntries(sel, at), Insert(new)
      PROVE  InsertAnswersWithHolder'
  <2>1. CASE InsertRefused(new)
    BY <2>1 DEF InsertRefused, InsertAnswersWithHolder
  <2>2. CASE InsertCreates(new) \/ InsertBumps(new)
    <3>1. IsCopy(new) /\ new.created_at = at
      BY <1>2, HistoryAssumption, NewEntriesAreCopies DEF NewEntries
    <3>2. PICK es :
            /\ IsTable(es)
            /\ entries' = Swept(es, at)
            /\ answered' \in DOMAIN es
            /\ es[answered'].last_used_at = at
            /\ \A j \in DOMAIN es : j # answered' => j \in DOMAIN entries /\ es[j] = entries[j]
      BY <1>2, <2>2, <3>1, InsertSweeps
    <3>3. \A j \in DOMAIN es : j # answered' => es[j].last_used_at < at
      BY <1>2, <3>2 DEF ClockReads
    <3> QED
      BY <3>2, <3>3, NewestIsKept DEF InsertAnswersWithHolder
  <2> QED
    BY <1>2, <2>1, <2>2 DEF Insert
<1>3. IInv /\ (~ClockSteps => InsertAnswersWithHolder) /\ [Next]_vars
        => (~ClockSteps => InsertAnswersWithHolder)'
  <2> SUFFICES ASSUME IInv, ~ClockSteps, InsertAnswersWithHolder, [Next]_vars
               PROVE  InsertAnswersWithHolder'
    OBVIOUS
  <2>1. CASE UNCHANGED vars
    BY <2>1 DEF vars, InsertAnswersWithHolder
  <2>2. ASSUME answered' = 0 PROVE InsertAnswersWithHolder'
    BY <2>2 DEF InsertAnswersWithHolder
  <2>3. CASE Next
    BY <1>2, <2>2, <2>3
    DEF Next, Touch, EnforceRetention, EnforceRetentionFails, SetPinned, Delete, Clear
  <2> QED
    BY <2>1, <2>3
<1> QED
  BY <1>1, <1>3, Inductive, PTL DEF Spec

-----------------------------------------------------------------------------
(* The sweep takes from the bottom of the list: what it removes was used   *)
(* no later than any unpinned row it leaves.  Of two rows that were young  *)
(* enough, the one more rows are above is the older.                       *)
LEMMA SweepTakesTheOldest ==
  ASSUME NEW es, IsTable(es), NEW now \in Int,
         NEW gone \in DOMAIN es, gone \notin DOMAIN Swept(es, now),
         NEW kept \in Unpinned(Swept(es, now))
  PROVE  /\ kept \in DOMAIN es /\ Swept(es, now)[kept] = es[kept]
         /\ es[kept].last_used_at >= es[gone].last_used_at
<1> DEFINE fresh == Without(es, Expired(es, now))
           Above(i) == {j \in Unpinned(fresh) : IsNewer(fresh, j, i)}
<1>1. /\ IsTable(fresh) /\ DOMAIN fresh = DOMAIN es \ Expired(es, now)
      /\ \A i \in DOMAIN fresh : fresh[i] = es[i]
  BY DEF IsTable, IsPartial, Without, Restrict
<1>2. /\ kept \in Unpinned(fresh) /\ kept \notin OverCapacity(fresh)
      /\ gone \in Expired(es, now) \/ gone \in OverCapacity(fresh)
      /\ Swept(es, now)[kept] = fresh[kept]
  BY DEF Swept, Unpinned, Without, Restrict
<1>3. kept \in DOMAIN fresh /\ kept \in Unpinned(es)
  BY <1>1, <1>2 DEF Unpinned
<1>4. es[kept].last_used_at \in Int /\ es[gone].last_used_at \in Int
  BY <1>1, <1>3, TableFacts
<1>5. CASE gone \in Expired(es, now)
  <2>1. MaxAge \in Int /\ MaxAge # NoAgeLimit /\ es[gone].last_used_at < now - MaxAge
    BY <1>5, HistoryAssumption DEF Expired
  <2>2. ~(es[kept].last_used_at < now - MaxAge)
    BY <1>1, <1>3, <2>1 DEF Expired
  <2> QED
    BY <1>1, <1>2, <1>3, <1>4, <2>1, <2>2
<1>6. CASE gone \in OverCapacity(fresh)
  <2>1. /\ gone \in Unpinned(fresh) /\ Cardinality(Above(gone)) >= MaxEntries
        /\ ~(Cardinality(Above(kept)) >= MaxEntries)
    BY <1>2, <1>6 DEF OverCapacity
  <2>2. gone \in DOMAIN fresh /\ kept # gone
    BY <2>1 DEF Unpinned
  <2>3. ASSUME IsNewer(fresh, gone, kept) PROVE FALSE
    <3>1. Above(gone) \subseteq Above(kept)
      BY <1>1, <1>3, <2>2, <2>3, NewerIsTotalOrder DEF Unpinned
    <3>2. Above(kept) \subseteq Unpinned(fresh) /\ IsFiniteSet(Unpinned(fresh))
      BY <1>1, TableFacts
    <3> HIDE DEF Above
    <3>3. /\ Cardinality(Above(gone)) <= Cardinality(Above(kept))
          /\ Cardinality(Above(gone)) \in Nat /\ Cardinality(Above(kept)) \in Nat
      BY <3>1, <3>2, FS_Subset, FS_CardinalityType
    <3>4. ASSUME NEW m \in Nat, NEW n \in Nat, m <= n, m >= MaxEntries PROVE n >= MaxEntries
      BY <3>4, HistoryAssumption
    <3> QED
      BY <2>1, <3>3, <3>4
  <2>4. IsNewer(fresh, kept, gone)
    BY <1>1, <1>3, <2>2, <2>3, NewerIsTotalOrder
  <2> QED
    BY <1>1, <1>2, <1>3, <1>4, <2>2, <2>4 DEF IsNewer
<1> QED
  BY <1>2, <1>5, <1>6

(* When the clock moves on between two uses, retention evicts from the     *)
(* bottom of the list whatever max_entries and max_age are: an unpinned    *)
(* row that outlives a sweep was used no earlier than one that does not.   *)
THEOREM OldestGoFirst ==
  ASSUME ~ClockSteps
  PROVE  Spec => EvictsOldestFirst
<1> DEFINE InOrder ==
             (\E now \in Stamps : EnforceRetention(now)) \/ answered' # 0 =>
               \A gone \in DOMAIN entries \ DOMAIN entries' : \A kept \in Unpinned(entries') :
                 entries'[kept].last_used_at >= entries[gone].last_used_at
<1>1. ASSUME IInv, Next, NEW gone \in DOMAIN entries \ DOMAIN entries',
             NEW kept \in Unpinned(entries')
      PROVE  (\E now \in Stamps : EnforceRetention(now)) \/ answered' # 0 =>
               entries'[kept].last_used_at >= entries[gone].last_used_at
  <2>0. IsTable(entries)
    BY <1>1 DEF IInv, AreSound, IsTable
  <2>1. ASSUME NEW now \in Stamps, EnforceRetention(now)
        PROVE  entries'[kept].last_used_at >= entries[gone].last_used_at
    <3>1. entries' = Swept(entries, now) /\ now \in Int
      BY <2>1, HistoryAssumption DEF EnforceRetention, Leave
    <3> QED
      BY <1>1, <2>0, <3>1, SweepTakesTheOldest
  <2>2. ASSUME NEW at \in Stamps, ClockReads(at), NEW sel \in Captures,
               NEW new \in NewEntries(sel, at), InsertCreates(new) \/ InsertBumps(new)
        PROVE  entries'[kept].last_used_at >= entries[gone].last_used_at
    <3>1. IsCopy(new) /\ new.created_at = at /\ at \in Int
      BY <2>2, HistoryAssumption, NewEntriesAreCopies DEF NewEntries
    <3>2. PICK es :
            /\ IsTable(es)
            /\ entries' = Swept(es, at)
            /\ DOMAIN entries \subseteq DOMAIN es /\ answered' \in DOMAIN es
            /\ es[answered'].last_used_at = at
            /\ \A j \in DOMAIN es : j # answered' => j \in DOMAIN entries /\ es[j] = entries[j]
      BY <1>1, <2>2, <3>1, InsertSweeps
    <3>3. /\ kept \in DOMAIN es /\ entries'[kept] = es[kept]
          /\ es[kept].last_used_at >= es[gone].last_used_at
      BY <1>1, <3>1, <3>2, SweepTakesTheOldest
    <3>4. entries[gone].last_used_at < at
      BY <1>1, <2>2 DEF ClockReads
    <3>5. /\ entries[gone].last_used_at \in Int /\ es[gone].last_used_at \in Int
          /\ es[kept].last_used_at \in Int
      BY <1>1, <2>0, <3>2, <3>3, TableFacts
    <3>6. es[gone].last_used_at = at \/ es[gone] = entries[gone]
      BY <1>1, <3>2
    <3> QED
      BY <3>1, <3>3, <3>4, <3>5, <3>6
  <2>3. ASSUME answered' # 0
        PROVE  \E at \in Stamps : \E sel \in Captures : \E new \in NewEntries(sel, at) :
                 ClockReads(at) /\ (InsertCreates(new) \/ InsertBumps(new))
    BY <1>1, <2>3
    DEF Next, Insert, InsertRefused, Touch, SetPinned, Delete, Clear, EnforceRetention,
        EnforceRetentionFails
  <2> QED
    BY <2>1, <2>2, <2>3
<1>2. IInv /\ [Next]_vars => [InOrder]_vars
  <2> SUFFICES ASSUME IInv, Next PROVE InOrder
    OBVIOUS
  <2> QED
    BY <1>1
<1> QED
  BY <1>2, Inductive, PTL DEF Spec, EvictsOldestFirst
=============================================================================
