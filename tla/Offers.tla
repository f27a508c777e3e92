-------------------------------- MODULE Offers --------------------------------
(***************************************************************************)
(* The MIME types of an offer before it is a selection, in clippo-wayland's *)
(* watch.rs: how many of what a source advertises are remembered, and      *)
(* which of them are read.  A type is a record of its normalised form and  *)
(* its spelling: sources write one type in many ways.                      *)
(***************************************************************************)
EXTENDS Naturals, Sequences, SequencesExt

CONSTANTS
  MaxAdvertised,    \* MAX_ADVERTISED_MIMES
  Interesting       \* mime::INTERESTING_MIMES

IsInteresting(mime) == mime.is \in Interesting
Same(mime, other)   == mime.is = other.is

(* AdvertisedMimes::push: past the ceiling, only a type clippo would read  *)
(* that has not come past it before.                                       *)
Push(mimes, mime) ==
  LET tail == SubSeq(mimes, MaxAdvertised + 1, Len(mimes))
      fits == \/ Len(mimes) < MaxAdvertised
              \/ IsInteresting(mime) /\ ~\E i \in DOMAIN tail : Same(tail[i], mime)
  IN  IF fits THEN Append(mimes, mime) ELSE mimes

(* What is remembered of the types of an offer, in the order they came.    *)
Advertised(offered) == FoldLeft(Push, << >>, offered)

(* interesting_flavors, one type at a time.                                *)
Want(wanted, mime) ==
  IF IsInteresting(mime) /\ ~\E i \in DOMAIN wanted : Same(wanted[i], mime)
  THEN Append(wanted, mime)
  ELSE wanted

InterestingFlavors(advertised) == FoldLeft(Want, << >>, advertised)
=============================================================================
