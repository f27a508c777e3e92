----------------------------- MODULE MCWatcher -----------------------------
(* Watcher on a small instance, and what is remembered of an offer before  *)
(* it is a selection on another.                                           *)
EXTENDS Watcher

Ceiling == 1
Read    == {"text", "hint"}

AnOffer == INSTANCE Offers WITH MaxAdvertised <- Ceiling, Interesting <- Read

Spellings == [is : Read \cup {"other"}, spelt : 1..2]

(* The ceiling on what is remembered of an offer never costs clippo a      *)
(* flavor, its place or its spelling, and is a bound all the same; each    *)
(* flavor is read once.                                                    *)
ASSUME CeilingCostsNothing ==
  \A n \in 0..4 : \A offered \in [1..n -> Spellings] :
    LET remembered == AnOffer!Advertised(offered)
        wanted     == AnOffer!InterestingFlavors(remembered)
    IN  /\ wanted = AnOffer!InterestingFlavors(offered)
        /\ {wanted[i].is : i \in DOMAIN wanted} = {offered[i].is : i \in DOMAIN offered} \cap Read
        /\ Len(wanted) = Cardinality({wanted[i].is : i \in DOMAIN wanted})
        /\ Len(remembered) <= Ceiling + Cardinality(Read)
=============================================================================
