------------------------------ MODULE History ------------------------------
(***************************************************************************)
(* The encrypted history of clippo-store: the entries table, the flavors   *)
(* table that cascades from it, and one action per operation of Store.     *)
(* Every operation runs under the daemon's lock and is one transaction or  *)
(* one statement, so each is one step; the exception is                    *)
(* enforce_retention, whose two DELETEs commit one after the other.        *)
(*                                                                         *)
(* Operations take the caller's clock as a parameter, as the code does.    *)
(* ClockSteps says whether that clock may read earlier than a row already  *)
(* there: TRUE for a wall clock that is set back, or for a capture whose   *)
(* time was read before a Copy that reached the lock first.                *)
(***************************************************************************)
EXTENDS Flavors

CONSTANTS
  MaxEntries,   \* Retention::max_entries: how many unpinned entries to keep
  MaxAge,       \* Retention::max_age, or NoAgeLimit
  Stamps,       \* the readings a caller's clock may give
  ClockSteps,   \* whether the clock may read no later than a stored time
  MaxId,        \* bound: the largest rowid a behaviour reaches
  Captures      \* the selections that are copied

NoAgeLimit == -1

ASSUME HistoryAssumption ==
  /\ MaxEntries \in Nat \ {0}
  /\ MaxAge \in Nat \cup {NoAgeLimit}
  /\ Stamps \subseteq Int
  /\ ClockSteps \in BOOLEAN
  /\ MaxId \in Nat
  /\ \A sel \in Captures : IsSelection(sel)

VARIABLES
  entries,      \* id -> the columns of a row of entries
  flavors,      \* entry_id -> the flavors stored for it, in rowid order
  answered      \* the id the last operation answered with if it was an insert,
                \* 0 if it was not or was refused

vars == <<entries, flavors, answered>>

EntryIds == 1 .. MaxId

Row == [created_at : Stamps, last_used_at : Stamps, kind : Kinds, preview : Previews,
        hash : Hashes, pinned : BOOLEAN, sensitive : BOOLEAN]

TypeOK ==
  /\ IsPartial(entries, EntryIds, Row)
  /\ DOMAIN flavors \subseteq EntryIds
  /\ \A i \in DOMAIN flavors : IsFlavorList(flavors[i])
  /\ answered \in EntryIds \cup {0}

Init ==
  /\ entries = << >>
  /\ flavors = << >>
  /\ answered = 0

-----------------------------------------------------------------------------
(* Retention.                                                              *)

Without(f, S) == Restrict(f, DOMAIN f \ S)

Unpinned(es) == {i \in DOMAIN es : ~es[i].pinned}

(* Mutants: the list in the order of creation, and the oldest use first.   *)
IsCreatedLater(es, i, j) ==
  \/ es[i].created_at > es[j].created_at
  \/ es[i].created_at = es[j].created_at /\ i > j
IsOlder(es, i, j) ==
  \/ es[i].last_used_at < es[j].last_used_at
  \/ es[i].last_used_at = es[j].last_used_at /\ i < j

(* The order of list: newest use first, ties broken by the later id.       *)
IsNewer(es, i, j) ==
  \/ es[i].last_used_at > es[j].last_used_at
  \/ es[i].last_used_at = es[j].last_used_at /\ i > j

Expired(es, now) ==
  {i \in Unpinned(es) : MaxAge # NoAgeLimit /\ es[i].last_used_at < now - MaxAge}

(* Mutants: the budget allows one row too many; the pinned rows are counted *)
(* against it and swept with the rest.                                      *)
OverCapacityByOne(es) ==
  {i \in Unpinned(es) : Cardinality({j \in Unpinned(es) : IsNewer(es, j, i)}) > MaxEntries}
OverTotal(es) ==
  {i \in DOMAIN es : Cardinality({j \in DOMAIN es : IsNewer(es, j, i)}) >= MaxEntries}

(* The unpinned rows outside the newest MaxEntries unpinned ones.          *)
OverCapacity(es) ==
  {i \in Unpinned(es) : Cardinality({j \in Unpinned(es) : IsNewer(es, j, i)}) >= MaxEntries}

(* sweep: by age first, then by number among what the first DELETE left.   *)
Swept(es, now) ==
  LET fresh == Without(es, Expired(es, now))
  IN  Without(fresh, OverCapacity(fresh))

(* Mutant: the foreign key is not enforced, and flavors outlive their row. *)
LeaveOrphans(es, fs) ==
  /\ entries' = es
  /\ flavors' = fs

(* Leave the rows es, and through the foreign key only their flavors.      *)
Leave(es, fs) ==
  /\ entries' = es
  /\ flavors' = Restrict(fs, DOMAIN fs \cap DOMAIN es)

-----------------------------------------------------------------------------
(* Store::insert.  The INSERT is attempted; a uniqueness violation on hash *)
(* turns it into a bump; the sweep is in the same transaction.             *)

(* id INTEGER PRIMARY KEY without AUTOINCREMENT: one past the largest, so  *)
(* the id of a deleted newest row is given out again.                      *)
IsNextRowid(id) ==
  /\ \A j \in DOMAIN entries : j < id
  /\ id = 1 \/ id - 1 \in DOMAIN entries

HoldsHash(h) == \E i \in DOMAIN entries : entries[i].hash = h

NewRow(new) ==
  [created_at |-> new.created_at, last_used_at |-> new.created_at, kind |-> new.kind,
   preview |-> new.preview, hash |-> new.hash, pinned |-> FALSE, sensitive |-> new.sensitive]

(* Mutant: a bump takes the new capture's flag for the row's.              *)
BumpTakesFlag(row, new) ==
  [row EXCEPT !.last_used_at = new.created_at,
              !.preview = IF new.sensitive THEN new.preview ELSE row.preview,
              !.sensitive = new.sensitive]

(* The UPDATE: the time moves, the flag is ORed, and the preview is the    *)
(* new one exactly when the new capture is sensitive.                      *)
BumpedRow(row, new) ==
  [row EXCEPT !.last_used_at = new.created_at,
              !.preview = IF new.sensitive THEN new.preview ELSE row.preview,
              !.sensitive = row.sensitive \/ new.sensitive]

InsertRefused(new) ==
  /\ IsRefused(new.kind, new.flavors)
  /\ answered' = 0
  /\ UNCHANGED <<entries, flavors>>

InsertCreates(new) ==
  /\ ~IsRefused(new.kind, new.flavors)
  /\ ~HoldsHash(new.hash)
  /\ \E id \in EntryIds :
       LET written == [i \in DOMAIN entries \cup {id} |->
                         IF i = id THEN NewRow(new) ELSE entries[i]]
           stored  == [i \in DOMAIN flavors \cup {id} |->
                         IF i = id THEN StorableFlavors(new.kind, new.flavors) ELSE flavors[i]]
       IN  /\ IsNextRowid(id)
           /\ Leave(Swept(written, new.created_at), stored)
           /\ answered' = id

InsertBumps(new) ==
  /\ ~IsRefused(new.kind, new.flavors)
  /\ \E id \in DOMAIN entries :
       /\ entries[id].hash = new.hash
       /\ Leave(Swept([entries EXCEPT ![id] = BumpedRow(entries[id], new)], new.created_at),
                flavors)
       /\ answered' = id

Insert(new) == InsertRefused(new) \/ InsertCreates(new) \/ InsertBumps(new)

-----------------------------------------------------------------------------
(* The other operations.  An id that is not there changes nothing, which   *)
(* is a stuttering step and is left out.                                   *)

Touch(id, at) ==
  /\ id \in DOMAIN entries
  /\ Leave([entries EXCEPT ![id].last_used_at = at], flavors)
  /\ answered' = 0

SetPinned(id, pinned) ==
  /\ id \in DOMAIN entries
  /\ Leave([entries EXCEPT ![id].pinned = pinned], flavors)
  /\ answered' = 0

Delete(id) ==
  /\ id \in DOMAIN entries
  /\ Leave(Without(entries, {id}), flavors)
  /\ answered' = 0

Clear(includePinned) ==
  /\ Leave(IF includePinned THEN << >> ELSE Without(entries, Unpinned(entries)), flavors)
  /\ answered' = 0

EnforceRetention(now) ==
  /\ Leave(Swept(entries, now), flavors)
  /\ answered' = 0

(* The second DELETE of the sweep fails after the first has committed.     *)
EnforceRetentionFails(now) ==
  /\ Leave(Without(entries, Expired(entries, now)), flavors)
  /\ answered' = 0

-----------------------------------------------------------------------------
ClockReads(at) == ClockSteps \/ \A i \in DOMAIN entries : entries[i].last_used_at < at

Next ==
  \/ \E at \in Stamps :
       /\ ClockReads(at)
       /\ \/ \E sel \in Captures : \E new \in NewEntries(sel, at) : Insert(new)
          \/ \E id \in EntryIds : Touch(id, at)
          \/ EnforceRetention(at)
          \/ EnforceRetentionFails(at)
  \/ \E id \in EntryIds, pinned \in BOOLEAN : SetPinned(id, pinned)
  \/ \E id \in EntryIds : Delete(id)
  \/ \E includePinned \in BOOLEAN : Clear(includePinned)

Spec == Init /\ [][Next]_vars

-----------------------------------------------------------------------------
(* Properties.                                                             *)

(* One row per content: hash UNIQUE, which is the whole of deduplication.  *)
(* A second row for a content would show a copy twice and let a delete     *)
(* leave it behind.                                                        *)
OneRowPerContent ==
  \A i, j \in DOMAIN entries : entries[i].hash = entries[j].hash => i = j

(* The bytes an entry's identity rests on are in the database: no cap, no  *)
(* duplicate spelling, no derived thumbnail and no cascade ever leaves a   *)
(* row whose hash names a flavor that is not stored, or a stored flavor    *)
(* whose row is gone (a reused id would inherit it).                       *)
HashNamesStoredBytes ==
  /\ DOMAIN flavors = DOMAIN entries
  /\ \A i \in DOMAIN entries : \E c \in DOMAIN flavors[i] :
       /\ IsCanonical(entries[i].kind, flavors[i], c)
       /\ Identity(flavors[i][c]) = entries[i].hash

IdentityHolds == OneRowPerContent /\ HashNamesStoredBytes

(* The flag and the mask move together through every sequence of bumps: a  *)
(* row that is not an image is masked exactly when it is flagged.          *)
MaskFollowsFlag ==
  \A i \in DOMAIN entries :
    entries[i].preview.masked <=> entries[i].sensitive /\ entries[i].kind # "image"

(* Whatever Copy would put on the clipboard, the row warns of: no stored   *)
(* text flavor holds a detectable secret under a row that is not flagged.  *)
SecretsAreFlagged ==
  \A i \in DOMAIN entries : \A p \in DOMAIN flavors[i] :
    flavors[i][p].mime \in TextMimes /\ flavors[i][p].data \in Secrets
      => entries[i].sensitive

SecretsAreMasked == MaskFollowsFlag /\ SecretsAreFlagged

(* An insert leaves the unpinned history within both of its limits.        *)
InsertLeavesWithinLimits ==
  answered # 0 =>
    /\ Cardinality(Unpinned(entries)) <= MaxEntries
    /\ answered \in DOMAIN entries => Expired(entries, entries[answered].last_used_at) = {}

(* An insert answers with the entry that now holds the copy (Insertion::id *)
(* and the daemon's "recorded a copy"), provided the clock has moved on.   *)
InsertAnswersWithHolder == answered # 0 => answered \in DOMAIN entries

(* A pinned entry leaves only when it is named by Delete or when Clear is  *)
(* told to include it: no sweep, bump or plain Clear removes it.           *)
PinnedLeavesOnlyByName ==
  [][\A i \in DOMAIN entries :
       entries[i].pinned /\ i \notin DOMAIN entries' => Delete(i) \/ Clear(TRUE)]_vars

(* An entry that was ever sensitive stays sensitive, masked, and the same  *)
(* content for as long as its row exists.                                  *)
SensitiveStays ==
  [][\A i \in DOMAIN entries \cap DOMAIN entries' :
       /\ entries'[i].hash = entries[i].hash
       /\ entries[i].sensitive => entries'[i].sensitive
       /\ entries[i].preview.masked => entries'[i].preview.masked]_vars

(* Retention drops from the bottom of the list: when an insert or a sweep  *)
(* removes a row, every unpinned row above it in the list it leaves is     *)
(* newer in use than the one removed.                                      *)
EvictsOldestFirst ==
  [][(\E now \in Stamps : EnforceRetention(now)) \/ answered' # 0 =>
       \A gone \in DOMAIN entries \ DOMAIN entries' : \A kept \in Unpinned(entries') :
         entries'[kept].last_used_at >= entries[gone].last_used_at]_vars

(* Only unpinning takes the history over max_entries: pinned rows are      *)
(* outside the budget, so unpinning one can put it over until the next     *)
(* insert, and nothing else can.                                           *)
OnlyUnpinningOverfills ==
  [][Cardinality(Unpinned(entries')) > MaxEntries =>
       \/ Cardinality(Unpinned(entries)) > MaxEntries
       \/ \E i \in EntryIds : SetPinned(i, FALSE)]_vars

=============================================================================
