------------------------------ MODULE Flavors ------------------------------
(***************************************************************************)
(* What one copy is made of, and what gives it an identity: the MIME       *)
(* flavors of clippo-core, the canonical flavor and entry hash of          *)
(* clippo-store/dedup.rs, the derived thumbnail of images.rs, the flavors  *)
(* Store::insert agrees to write, and the row a capture is described as by *)
(* clippod/preview.rs.  Nothing here has state.                            *)
(*                                                                         *)
(* A list of flavors is a function from a finite set of positions to       *)
(* flavors: dropping a flavor restricts the function, so the ones that are *)
(* left keep their order and nothing is renumbered.  Content is an opaque  *)
(* Data value; BLAKE3 is taken to be injective, so a hash is the pair of   *)
(* values hashed.                                                          *)
(***************************************************************************)
EXTENDS Integers, FiniteSets, Functions

CONSTANTS
  Data,         \* contents a flavor may have
  OverCap,      \* the contents longer than max_image_bytes
  Undecodable,  \* the contents no image decoder accepts
  Secrets,      \* the contents a detection rule fires on
  MaxFlavors    \* the most flavors one selection carries

ASSUME FlavorsAssumption ==
  /\ OverCap \subseteq Data
  /\ Undecodable \subseteq Data
  /\ Secrets \subseteq Data
  /\ MaxFlavors \in Nat

HintMime  == "x-kde-passwordManagerHint"
ThumbMime == "image/png;clippo-thumb"

(* One token per MIME type the code tells apart, two of them spellings of  *)
(* the same charset, two of them images of equal rank.                     *)
ImageMimes == {"image/png", "image/jpeg", "image/gif", "image/bmp", ThumbMime}
PlainMimes == {"text/plain;charset=utf-8", "text/plain; charset=UTF-8", "text/plain"}
TextMimes  == PlainMimes \cup {"text/rtf", "text/html", "text/uri-list"}
Mimes      == ImageMimes \cup TextMimes \cup {HintMime}

Flavor  == [mime : Mimes, data : Data]
Slots   == 1 .. MaxFlavors
ThumbSlot == MaxFlavors + 1      \* the thumbnail is written after the rest

(* f is a function into R that is defined on some of S.                    *)
IsPartial(f, S, R) == DOMAIN f \subseteq S /\ f \in [DOMAIN f -> R]

IsFlavorList(fs) == IsPartial(fs, Slots \cup {ThumbSlot}, Flavor)

-----------------------------------------------------------------------------
(* EntryKind.  The variants are ordered, richest last.                     *)
Kinds  == {"text", "html", "uris", "image"}
NoKind == "none"

Level == [k \in Kinds \cup {NoKind} |->
            CASE k = "none" -> 0
              [] k = "text" -> 1
              [] k = "html" -> 2
              [] k = "uris" -> 3
              [] k = "image" -> 4]

FromMime(m) == CASE m = "text/html"     -> "html"
                 [] m = "text/uri-list" -> "uris"
                 [] m \in ImageMimes    -> "image"
                 [] m \in PlainMimes \cup {"text/rtf"} -> "text"
                 [] OTHER               -> NoKind

(* EntryKind::for_flavors: the richest kind any flavor implies.            *)
IsKindOf(kind, fs) ==
  /\ kind \in Kinds
  /\ \E i \in DOMAIN fs : FromMime(fs[i].mime) = kind
  /\ \A i \in DOMAIN fs : Level[FromMime(fs[i].mime)] <= Level[kind]

-----------------------------------------------------------------------------
(* dedup.rs: which flavor is the entry's identity, and the hash of it.     *)
Essence(m) == CASE m \in PlainMimes -> "text/plain"
                [] m = ThumbMime    -> "image/png"
                [] OTHER            -> m

(* rank: 0 stands for None, a flavor that can never be canonical.          *)
Rank(kind, m) ==
  IF m = ThumbMime \/ FromMime(m) # kind THEN 0
  ELSE CASE m \in (PlainMimes \ {"text/plain"}) \cup {"image/png"} -> 3
         [] m \in {"text/plain", "image/jpeg"}                     -> 2
         [] OTHER                                                  -> 1

(* canonical_flavor: the highest rank, and the earliest flavor on a tie.   *)
IsCanonical(kind, fs, c) ==
  /\ c \in DOMAIN fs
  /\ Rank(kind, fs[c].mime) > 0
  /\ \A i \in DOMAIN fs :
       \/ Rank(kind, fs[i].mime) < Rank(kind, fs[c].mime)
       \/ Rank(kind, fs[i].mime) = Rank(kind, fs[c].mime) /\ c <= i

Identity(f) == <<Essence(f.mime), f.data>>
Hashes == {Identity(f) : f \in Flavor}

-----------------------------------------------------------------------------
(* The flavors Store::insert writes.                                       *)

(* distinct_flavors: (entry_id, mime) is the table's key; the first wins.  *)
Distinct(fs) ==
  Restrict(fs, {i \in DOMAIN fs : \A j \in DOMAIN fs : j < i => fs[j].mime # fs[i].mime})

IsOverImageCap(f) == FromMime(f.mime) = "image" /\ f.data \in OverCap

(* storable_flavors refuses the copy when its canonical flavor is over the *)
(* cap, and otherwise leaves out the images that are.                      *)
IsRefused(kind, fs) ==
  \E c \in DOMAIN Distinct(fs) :
    IsCanonical(kind, Distinct(fs), c) /\ IsOverImageCap(fs[c])

WithinCap(fs) == Restrict(fs, {i \in DOMAIN fs : ~IsOverImageCap(fs[i])})

(* thumbnail_for: an image's thumbnail, from its canonical flavor.  A      *)
(* flavor with the thumbnail's MIME and data d is the downscale of d.      *)
WithThumbnail(kind, fs) ==
  LET sources == {c \in DOMAIN fs : IsCanonical(kind, fs, c) /\ fs[c].data \notin Undecodable}
      carried == \E i \in DOMAIN fs : fs[i].mime = ThumbMime
  IN  IF kind # "image" \/ carried \/ sources = {}
      THEN fs
      ELSE [i \in DOMAIN fs \cup {ThumbSlot} |->
              IF i \in DOMAIN fs THEN fs[i]
              ELSE [mime |-> ThumbMime, data |-> fs[CHOOSE c \in sources : TRUE].data]]

StorableFlavors(kind, fs) == WithThumbnail(kind, WithinCap(Distinct(fs)))

(* is_offerable: everything but what clippo derived for itself.            *)
Offerable(fs) == Restrict(fs, {i \in DOMAIN fs : fs[i].mime # ThumbMime})

-----------------------------------------------------------------------------
(* What the daemon makes of a captured selection.                          *)

IsSelection(sel) ==
  /\ sel \in [flavors : {sel.flavors}, hinted : BOOLEAN]
  /\ IsPartial(sel.flavors, Slots, Flavor)

(* Mutant: only the plain text is scanned for secrets.                     *)
IsPlainlySensitive(sel) ==
  \/ sel.hinted
  \/ \E i \in DOMAIN sel.flavors :
       sel.flavors[i].mime \in PlainMimes /\ sel.flavors[i].data \in Secrets

(* has_password_manager_hint, then detect_over_flavors: the marker, read   *)
(* or only advertised, or a rule firing on any text flavor.                *)
IsSensitive(sel) ==
  \/ sel.hinted
  \/ \E i \in DOMAIN sel.flavors : sel.flavors[i].mime = HintMime
  \/ \E i \in DOMAIN sel.flavors :
       sel.flavors[i].mime \in TextMimes /\ sel.flavors[i].data \in Secrets

(* preview_source: the first text/plain flavor of an entry that is not an  *)
(* image, or else the canonical one.                                       *)
IsPreviewSource(kind, fs, p) ==
  LET plain == {i \in DOMAIN fs : fs[i].mime \in PlainMimes}
  IN  IF kind # "image" /\ plain # {}
      THEN p \in plain /\ \A i \in plain : p <= i
      ELSE IsCanonical(kind, fs, p)

(* A preview is one line of one flavor, masked or in the clear.            *)
Previews == [of : Data, masked : BOOLEAN]

(* new_entry and describe: the NewEntry a selection becomes at time at, as *)
(* a set of none or one.                                                   *)
NewEntries(sel, at) ==
  {[created_at |-> at,
    kind       |-> t[1],
    hash       |-> Identity(sel.flavors[t[2]]),
    sensitive  |-> IsSensitive(sel),
    preview    |-> [of     |-> sel.flavors[t[3]].data,
                    masked |-> IsSensitive(sel) /\ t[1] # "image"],
    flavors    |-> sel.flavors] :
      t \in {u \in Kinds \X (DOMAIN sel.flavors) \X (DOMAIN sel.flavors) :
               /\ IsKindOf(u[1], sel.flavors)
               /\ IsCanonical(u[1], sel.flavors, u[2])
               /\ IsPreviewSource(u[1], sel.flavors, u[3])}}
=============================================================================
