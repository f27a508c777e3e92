------------------------------ MODULE MCApplet ------------------------------
EXTENDS Applet

MCQueries == {"", "a"}
MCImages  == {2, 3}
MCViewports == {30, 70}
MCMatches(text, at) == text = "a" /\ at = 2

TextsOver(alphabet, n) == UNION {[1..m -> alphabet] : m \in 0..n}

Rows == INSTANCE Rendering WITH
          White <- {"space"}, Control <- {"esc"}, Invisible <- {"override"},
          Escaped <- [c \in {"esc", "override"} |-> <<"backslash", "u">>]

(* What one_line writes of any short text is one line, as wide as asked for *)
(* at most, with nothing in it that a terminal or a list would act on; and *)
(* flattening what is flat already changes nothing.                        *)
ASSUME RowsAreSafe ==
  \A text \in TextsOver({"a", "space", "esc", "override"}, 4) : \A max \in 0..4 :
    /\ Cardinality(Rows!OneLine(text, max)) = 1
    /\ \A line \in Rows!OneLine(text, max) :
         /\ Len(line) <= max
         /\ \A i \in DOMAIN line : line[i] \notin {"esc", "override"}
    /\ Rows!Flatten(Rows!Flatten(text)) = Rows!Flatten(text)

(* A revealed value takes no more characters and lines than it is allowed. *)
ASSUME RevealIsBounded ==
  \A value \in TextsOver({Letter, Newline}, 5) : \A chars \in 1..4 : \A lines \in 1..3 :
    WithinCaps(Readable(value, chars, lines), chars, lines)
=============================================================================
