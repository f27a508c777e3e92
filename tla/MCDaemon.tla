----------------------------- MODULE MCDaemon -----------------------------
(* Small instances of Daemon: two contents, and one reading of the clock,   *)
(* or two when what is stored at the first has expired by the second.       *)
EXTENDS Daemon, TLC

CONSTANTS one, two   \* two contents

Fl(m, d) == [mime |-> m, data |-> d]
Text(d)  == [flavors |-> <<Fl("text/plain", d)>>, hinted |-> FALSE]

NoData     == {}
TwoData    == {one, two}
TwoCopies  == {Text(one), Text(two)}
OneCopy    == {Text(one)}
OneTick    == {1}
TwoTicks   == {1, 3}
OneCall    == {"call"}
TwoCalls   == {"call", "another"}
NoPins     == {}
AnyPin     == BOOLEAN

(* Nothing but Captures tells the contents apart, and it holds both.        *)
DataSymmetry == Permutations(TwoData)

(* Contents that a pipe can be cut short to: the only one, or one that no   *)
(* application copies.                                                      *)
OneData    == {one}
SpareData  == {two}
=============================================================================
