-------------------------------- MODULE Ids --------------------------------
(***************************************************************************)
(* clippo-cli's ids.rs: which entries a typed reference names, against a   *)
(* list of the whole history.  The code compares spellings, so a reference *)
(* is a number only when its digits are that number's decimal spelling;    *)
(* any other, a word or digits with a leading zero (03), is 0, which names *)
(* no entry.                                                               *)
(***************************************************************************)
EXTENDS Subsequence

(* The decimal spelling of id starts with that of typed.                   *)
Starts(typed, id) == typed > 0 /\ \E n \in 0..9 : id \div 10^n = typed

(* The ids a reference could mean: an id that is there means itself.       *)
Named(typed, ids) ==
  IF typed \in ids THEN {typed} ELSE {id \in ids : Starts(typed, id)}

(* resolve: one id; no such entry, and several of them, are errors.        *)
Resolves(typed, ids) == Cardinality(Named(typed, ids)) = 1
Resolve(typed, ids)  == CHOOSE id \in Named(typed, ids) : TRUE

(* resolve_all, of references that all resolve: the entries they name, each *)
(* once and in the order typed.                                            *)
ResolveAll(refs, ids) ==
  LET named == [i \in DOMAIN refs |-> Resolve(refs[i], ids)]
      first == {i \in DOMAIN refs : \A j \in 1..(i - 1) : named[j] # named[i]}
  IN  SubsequenceAt(named, first)
=============================================================================
