------------------------------ MODULE Rendering ------------------------------
(***************************************************************************)
(* What of a copy reaches a row: masking.rs, the flattening and cutting of *)
(* clippod/preview.rs, and display.rs, through which every frontend writes *)
(* a row.  A text is a sequence of characters; grapheme clusters are taken *)
(* for characters of their own.  White, Control and Invisible may overlap, *)
(* and what Escaped writes is of none of them.                             *)
(***************************************************************************)
EXTENDS Integers, Sequences, SequencesExt

CONSTANTS
  White,       \* the characters that are whitespace
  Control,     \* the control characters
  Invisible,   \* those that are not shown, or reorder what is
  Escaped      \* what an unprintable character is written as

Space    == "space"
Bullet   == "bullet"
Ellipsis == "ellipsis"

Bullets == [i \in 1..8 |-> Bullet]

(* mask_with: a value with nothing between what may be shown is not shown. *)
MaskWith(value, prefix, suffix) ==
  IF Len(value) <= prefix + suffix
  THEN Bullets
  ELSE SubSeq(value, 1, prefix) \o Bullets \o SubSeq(value, Len(value) - suffix + 1, Len(value))

(* What is written for the character at i: after a blank, a space first,   *)
(* unless nothing has been written yet.  as is what each is written as.    *)
Piece(text, i, blanks, as) ==
  IF text[i] \in blanks THEN << >>
  ELSE IF i > 1 /\ text[i - 1] \in blanks /\ (\E j \in 1..(i - 1) : text[j] \notin blanks)
  THEN <<Space>> \o as[text[i]]
  ELSE as[text[i]]

Pieces(text, n, blanks, as) ==
  FlattenSeq([i \in 1..n |-> Piece(text, i, blanks, as)])

(* flatten, and truncate to PREVIEW_MAX_CHARS.                             *)
AsIs(text)    == [c \in ToSet(text) |-> <<c>>]
Flatten(text) == Pieces(text, Len(text), White \cup Control, AsIs(text))
Truncate(text, max) ==
  IF Len(text) > max THEN Append(SubSeq(text, 1, max), Ellipsis) ELSE text

(* describe: the preview of an entry that is not an image.                 *)
Preview(text, sensitive, prefix, suffix, max) ==
  IF sensitive THEN MaskWith(Flatten(text), prefix, suffix) ELSE Truncate(Flatten(text), max)

(* one_line: as many whole pieces as fit; if that is not all of them, the  *)
(* last makes room for the ellipsis.                                       *)
Visible(text) ==
  [c \in ToSet(text) |-> IF c \in Control \cup Invisible THEN Escaped[c] ELSE <<c>>]

Fits(text, n, max) == Len(Pieces(text, n, White, Visible(text))) <= max

OneLine(text, max) ==
  IF max = 0 THEN {<< >>}
  ELSE {LET kept == Pieces(text, n, White, Visible(text))
        IN  IF n = Len(text) THEN kept
            ELSE Append(IF Len(kept) >= max THEN SubSeq(kept, 1, max - 1) ELSE kept, Ellipsis) :
        n \in {m \in 0..Len(text) : Fits(text, m, max) /\ (m < Len(text) => ~Fits(text, m + 1, max))}}
=============================================================================
