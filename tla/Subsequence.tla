---------------------------- MODULE Subsequence ----------------------------
(***************************************************************************)
(* Filters of sequences, by the places they keep.  SelectSeq is defined by *)
(* recursion and so says nothing to a proof; this says the same.           *)
(***************************************************************************)
EXTENDS Naturals, Sequences, FiniteSets

(* How many of the places are not above i, and the place that is the kth.  *)
PlacesTo(places, i) == Cardinality({j \in places : j <= i})
Nth(places, k)      == CHOOSE i \in places : PlacesTo(places, i) = k

SubsequenceAt(s, places) == [k \in 1..Cardinality(places) |-> s[Nth(places, k)]]

(* Iterator::filter, and Vec::retain.                                      *)
Keep(s, Test(_)) == SubsequenceAt(s, {i \in DOMAIN s : Test(s[i])})
=============================================================================
