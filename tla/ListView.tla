------------------------------ MODULE ListView ------------------------------
(***************************************************************************)
(* The arithmetic of clippo-applet's list: how tall its rows are (view.rs), *)
(* where it is scrolled to when the highlight moves (app.rs), and how much *)
(* of a revealed value is drawn.  Heights are in pixels; the scale between *)
(* estimated and real ones is a whole number here.                         *)
(***************************************************************************)
EXTENDS Integers, SequencesExt

RowSpacing == 2
TextLine   == 21
Icon       == 16
Thumb      == 40
RowPadding == 4

Taller(m, n) == IF m > n THEN m ELSE n

(* row_height: an image row grows when its thumbnail arrives.              *)
RowHeight(isImage, pictured) ==
  2 * RowPadding + Taller(IF isImage /\ pictured THEN Thumb ELSE Icon, TextLine)

SumOf(heights) ==
  LET sum[i \in 0..Len(heights)] == IF i = 0 THEN 0 ELSE sum[i - 1] + heights[i]
  IN  sum[Len(heights)]

(* content_height.                                                         *)
ContentHeight(heights) == SumOf(heights) + RowSpacing * (Taller(Len(heights), 1) - 1)

(* Mutant: the gaps between the rows above are left out.                   *)
RowTopWithoutGaps(heights, index) == SumOf(SubSeq(heights, 1, index - 1))

(* row_top, with the first row at index 1.                                 *)
RowTop(heights, index) == SumOf(SubSeq(heights, 1, index - 1)) + RowSpacing * (index - 1)

(* scroll_offset: at most one offset to scroll to.  Of a row taller than   *)
(* the viewport it is the top that shows, wherever the list was.           *)
ScrollOffset(heights, index, list) ==
  LET top    == RowTop(heights, index) * list.scale
      bottom == top + heights[index] * list.scale
  IN  IF ContentHeight(heights) * list.scale <= list.viewport THEN {}
      ELSE IF top < list.offset THEN {top}
      ELSE IF bottom > list.offset + list.viewport
      THEN {IF bottom - list.viewport < top THEN bottom - list.viewport ELSE top}
      ELSE {}

-----------------------------------------------------------------------------
(* A revealed value is a sequence of Letter and Newline; CutMark marks a   *)
(* cut.                                                                    *)

Letter   == "letter"
Newline  == "newline"
CutMark  == "cut"

NewlinesIn(value) == {i \in DOMAIN value : value[i] = Newline}

(* Where the last line that is drawn ends.                                 *)
LineCut(value, lines) ==
  {i \in NewlinesIn(value) : Len(SelectSeq(SubSeq(value, 1, i), LAMBDA c : c = Newline)) = lines}

(* readable: the scan stops at whichever cap it meets first.               *)
Readable(value, chars, lines) ==
  LET cut == {i \in LineCut(value, lines) : i <= chars}
  IN  IF cut # {}
      THEN LET i == Min(cut)
           IN  SubSeq(value, 1, i - 1) \o (IF i = Len(value) THEN << >> ELSE <<CutMark>>)
      ELSE IF Len(value) > chars
           THEN Append(SubSeq(value, 1, chars - 1), CutMark)
           ELSE value

-----------------------------------------------------------------------------
(* What is wanted of them, for the properties of the modules that use them. *)

(* Whether row index is on screen with the list at offset.                 *)
Shows(heights, index, list, offset) ==
  LET top == (SumOf(SubSeq(heights, 1, index - 1)) + (index - 1) * RowSpacing) * list.scale
  IN  offset <= top /\ top + heights[index] * list.scale <= offset + list.viewport

ScrolledTo(heights, index, list) ==
  LET to == ScrollOffset(heights, index, list) IN IF to = {} THEN list.offset ELSE Min(to)

WithinCaps(value, chars, lines) == Len(value) <= chars /\ Cardinality(NewlinesIn(value)) < lines
=============================================================================
