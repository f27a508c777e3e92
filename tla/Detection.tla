------------------------------ MODULE Detection ------------------------------
(***************************************************************************)
(* Which copies are suspected secrets, and by which rule: clippo-core's    *)
(* secrets.rs, shapes.rs and entropy.rs, and clippod/preview.rs where it   *)
(* runs them over every flavor of a copy.  A text, trimmed, is what the    *)
(* rules can see of it: the shapes that match in its first 64 KiB, and the *)
(* answers of the entropy rule's gates.                                    *)
(***************************************************************************)
EXTENDS Integers, Sequences

CONSTANT Shapes   \* Shape::ALL, a sequence: the provider tokens looked for

None == "none"
Hint == "mime-hint"
Entropy == "entropy"

ShapeSet == {Shapes[i] : i \in DOMAIN Shapes}

MinChars == 8
MaxChars == 128
MinCharacterClasses == 3
Threshold == 350   \* of hundredths of a bit per character

(* The length in characters, and in bytes: 1 to 4 for each character.      *)
IsText(text) ==
  /\ text.shapes \subseteq ShapeSet
  /\ text.token \in BOOLEAN /\ text.locator \in BOOLEAN
  /\ text.chars \in Nat /\ text.bytes \in text.chars..(4 * text.chars)
  /\ text.classes \in 0..4 /\ text.bits \in Nat

(* matched: the first shape, in their order, that the text has.            *)
Matched(text) ==
  {Shapes[i] : i \in {j \in DOMAIN Shapes : Shapes[j] \in text.shapes
                                         /\ \A k \in 1..(j - 1) : Shapes[k] \notin text.shapes}}

(* entropy::fires.                                                         *)
Fires(text) ==
  /\ text.bytes <= 4 * MaxChars
  /\ text.token /\ ~text.locator
  /\ text.chars >= MinChars /\ text.chars <= MaxChars
  /\ text.classes >= MinCharacterClasses
  /\ text.bits > Threshold

(* detect, of one text.                                                    *)
Detect(text, hinted, entropyRule) ==
  CASE hinted                     -> {Hint}
    [] ~hinted /\ text.shapes # {} -> Matched(text)
    [] OTHER                      -> IF entropyRule /\ Fires(text) THEN {Entropy} ELSE {}

(* detect_over_flavors: the texts of a copy in the order of                *)
(* detection_flavors, the canonical flavor's first.                        *)
DetectOverFlavors(texts, hinted, entropyRule) ==
  LET found(i) == Detect(texts[i], FALSE, entropyRule)
      shaped   == {i \in DOMAIN texts : found(i) \cap ShapeSet # {}}
      first    == {i \in shaped : \A j \in shaped : i <= j}
  IN  IF hinted THEN {Hint}
      ELSE IF shaped # {} THEN UNION {found(i) : i \in first}
      ELSE UNION {found(i) : i \in DOMAIN texts}
=============================================================================
