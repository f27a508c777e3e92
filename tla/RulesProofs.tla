----------------------------- MODULE RulesProofs -----------------------------
(***************************************************************************)
(* What the rules that have no state promise for every input: masking,     *)
(* detection, the configuration, the ids a command is given, whom clippo   *)
(* trusts, the types of an offer, the arithmetic of the clock and a list   *)
(* that scrolls.                                                           *)
(***************************************************************************)
EXTENDS Rendering, Detection, Settings, Ids, Peers, Offers, Times, ListView,
        FiniteSetTheorems, FunctionTheorems, SequenceTheorems, WellFoundedInduction, TLAPS

LEMMA LengthOfThree ==
  ASSUME NEW C, NEW B, NEW a \in Seq(C), NEW b \in Seq(B), NEW c \in Seq(C)
  PROVE  Len(a \o b \o c) = Len(a) + Len(b) + Len(c)
<1>1. a \in Seq(C \cup B) /\ b \in Seq(C \cup B) /\ c \in Seq(C \cup B)
  OBVIOUS
<1> DEFINE D == C \cup B
<1> HIDE DEF D
<1>2. a \in Seq(D) /\ b \in Seq(D) /\ c \in Seq(D)
  BY <1>1 DEF D
<1>3. a \o b \in Seq(D) /\ Len(a \o b) = Len(a) + Len(b)
  BY <1>2
<1> QED
  BY <1>2, <1>3

(* A mask is no longer than what it shows at the two ends and its bullets, *)
(* and never shows anything of a value that has no middle (masking.rs).    *)
THEOREM MaskIsBounded ==
  ASSUME NEW C, NEW value \in Seq(C), NEW prefix \in Nat, NEW suffix \in Nat
  PROVE  /\ Len(MaskWith(value, prefix, suffix)) <= prefix + 8 + suffix
         /\ Len(value) <= prefix + suffix => MaskWith(value, prefix, suffix) = Bullets
<1> DEFINE head == SubSeq(value, 1, prefix)
           tail == SubSeq(value, Len(value) - suffix + 1, Len(value))
<1>1. Bullets \in Seq({Bullet}) /\ Len(Bullets) = 8
  BY DEF Bullets
<1>2. ASSUME Len(value) <= prefix + suffix PROVE MaskWith(value, prefix, suffix) = Bullets
  BY <1>2 DEF MaskWith
<1>3. ASSUME Len(value) > prefix + suffix
      PROVE  Len(MaskWith(value, prefix, suffix)) = prefix + 8 + suffix
  <2>1. head \in Seq(C) /\ Len(head) = prefix
    BY <1>3
  <2>2. tail \in Seq(C) /\ Len(tail) = suffix
    BY <1>3
  <2>3. ~(Len(value) <= prefix + suffix)
    BY <1>3
  <2>4. MaskWith(value, prefix, suffix) = head \o Bullets \o tail
    BY <2>3 DEF MaskWith
  <2> HIDE DEF head, tail
  <2>5. Len(head \o Bullets \o tail) = Len(head) + Len(Bullets) + Len(tail)
    <3>1. head \in Seq(C) /\ tail \in Seq(C) /\ Bullets \in Seq({Bullet})
      BY <1>1, <2>1, <2>2
    <3> DEFINE b == Bullets
    <3>2. b \in Seq({Bullet})
      BY <3>1
    <3> HIDE DEF b
    <3>3. Len(head \o b \o tail) = Len(head) + Len(b) + Len(tail)
      BY <3>1, <3>2, LengthOfThree
    <3> QED
      BY <3>3 DEF b
  <2> QED
    BY <1>1, <2>1, <2>2, <2>4, <2>5
<1> QED
  <2>1. CASE Len(value) <= prefix + suffix
    <3>1. MaskWith(value, prefix, suffix) = Bullets
      BY <1>2, <2>1
    <3>2. Len(MaskWith(value, prefix, suffix)) = 8
      BY <1>1, <3>1
    <3> HIDE DEF head, tail
    <3> QED
      BY <3>1, <3>2
  <2>2. CASE Len(value) > prefix + suffix
    BY <1>3, <2>2
  <2> QED
    BY <2>1, <2>2

(* Two values that begin and end alike have the same mask, however long    *)
(* they are and whatever is between: a mask tells neither the middle of a  *)
(* secret nor its length.                                                  *)
THEOREM MaskHidesTheMiddle ==
  ASSUME NEW C, NEW value \in Seq(C), NEW other \in Seq(C),
         NEW prefix \in Nat, NEW suffix \in Nat,
         Len(value) > prefix + suffix, Len(other) > prefix + suffix,
         \A i \in 1..prefix : value[i] = other[i],
         \A i \in 0..(suffix - 1) : value[Len(value) - i] = other[Len(other) - i]
  PROVE  MaskWith(value, prefix, suffix) = MaskWith(other, prefix, suffix)
<1>1. SubSeq(value, 1, prefix) = SubSeq(other, 1, prefix)
  OBVIOUS
<1>2. SubSeq(value, Len(value) - suffix + 1, Len(value))
        = SubSeq(other, Len(other) - suffix + 1, Len(other))
  <2> DEFINE tail(s) == [i \in 1..suffix |-> s[Len(s) - (suffix - i)]]
  <2>1. SubSeq(value, Len(value) - suffix + 1, Len(value)) = tail(value)
    <3>1. Len(value) - (Len(value) - suffix + 1) + 1 = suffix
      OBVIOUS
    <3>2. \A i \in 1..suffix : (Len(value) - suffix + 1) + i - 1 = Len(value) - (suffix - i)
      OBVIOUS
    <3> QED
      BY <3>1, <3>2
  <2>2. SubSeq(other, Len(other) - suffix + 1, Len(other)) = tail(other)
    <3>1. Len(other) - (Len(other) - suffix + 1) + 1 = suffix
      OBVIOUS
    <3>2. \A i \in 1..suffix : (Len(other) - suffix + 1) + i - 1 = Len(other) - (suffix - i)
      OBVIOUS
    <3> QED
      BY <3>1, <3>2
  <2>3. \A i \in 1..suffix : value[Len(value) - (suffix - i)] = other[Len(other) - (suffix - i)]
    <3> TAKE i \in 1..suffix
    <3>1. suffix - i \in 0..(suffix - 1)
      OBVIOUS
    <3> QED
      BY <3>1
  <2> QED
    BY <2>1, <2>2, <2>3
<1>3. ~(Len(value) <= prefix + suffix) /\ ~(Len(other) <= prefix + suffix)
  OBVIOUS
<1> QED
  BY <1>1, <1>2, <1>3 DEF MaskWith

-----------------------------------------------------------------------------
(* Whatever a file says, a configuration that is loaded is within every    *)
(* limit, and its mask leaves at most MAX_MASK_CONTEXT characters visible  *)
(* (config.rs).                                                            *)
LEMMA ChosenIsThere ==
  ASSUME NEW given, NEW default
  PROVE  Chosen(given, default) \in given \/ (given = {} /\ Chosen(given, default) = default)
BY DEF Chosen

LEMMA DefaultsAreInRange ==
  \A k \in NumberKeys : Default[k] \in Nat /\ Least[k] <= Default[k] /\ Default[k] <= Most[k]
                        /\ Least[k] \in Nat /\ Most[k] \in Nat
BY DEF NumberKeys, Default, Least, Most, MaxMaskContext

THEOREM LoadedIsInRange ==
  ASSUME NEW file, NEW config \in Load(file),
         \A k \in NumberKeys : file.raw.numbers[k] \subseteq Int
  PROVE  /\ \A k \in NumberKeys : Least[k] <= config.numbers[k] /\ config.numbers[k] <= Most[k]
         /\ config.numbers["mask_prefix"] + config.numbers["mask_suffix"] <= MaxMaskContext
<1>1. CASE config = Resolved(Unsaid)
  <2>1. \A k \in NumberKeys : config.numbers[k] = Default[k]
    BY <1>1 DEF Resolved, Unsaid, Number, Chosen
  <2>2. {"mask_prefix", "mask_suffix"} \subseteq NumberKeys
    BY DEF NumberKeys
  <2>3. Default["mask_prefix"] + Default["mask_suffix"] <= MaxMaskContext
    BY DEF Default, MaxMaskContext
  <2> QED
    BY <2>1, <2>2, <2>3, DefaultsAreInRange
<1>2. CASE config = Resolved(file.raw) /\ IsValid(file.raw)
  <2>1. \A k \in NumberKeys : config.numbers[k] = Number(file.raw, k)
    BY <1>2 DEF Resolved
  <2>2. \A k \in NumberKeys : Least[k] <= Number(file.raw, k) /\ Number(file.raw, k) <= Most[k]
    BY <1>2, ChosenIsThere, DefaultsAreInRange DEF IsValid, InRange, Number
  <2>3. {"mask_prefix", "mask_suffix"} \subseteq NumberKeys
    BY DEF NumberKeys
  <2> QED
    BY <1>2, <2>1, <2>2, <2>3 DEF IsValid
<1> QED
  BY <1>1, <1>2 DEF Load

(* A value the file gives is the value that is used, zero and FALSE too:   *)
(* no default swallows it (the comment in resolve).                        *)
THEOREM SaidIsKept ==
  ASSUME NEW raw, IsValid(raw), NEW config \in Load([is |-> "file", raw |-> raw])
  PROVE  /\ \A k \in NumberKeys : \A x : raw.numbers[k] = {x} => config.numbers[k] = x
         /\ \A k \in SwitchKeys : \A x : raw.switches[k] = {x} => config.switches[k] = x
<1>1. config = Resolved(raw)
  BY DEF Load
<1>2. \A x, default : Chosen({x}, default) = x
  BY DEF Chosen
<1> QED
  BY <1>1, <1>2 DEF Resolved, Number

-----------------------------------------------------------------------------
(* Detection.                                                              *)

LEMMA SomeShapeMatches ==
  ASSUME NEW text, Shapes \in Seq(ShapeSet), text.shapes \subseteq ShapeSet, text.shapes # {}
  PROVE  Matched(text) # {} /\ Matched(text) \subseteq text.shapes
<1> DEFINE T == {j \in DOMAIN Shapes : Shapes[j] \in text.shapes}
<1>1. T \subseteq Nat /\ T # {}
  BY DEF ShapeSet
<1>2. \E x \in T : \A y \in T : ~(<<y, x>> \in OpToRel(<, Nat))
  <2> HIDE DEF T
  <2> QED
    BY <1>1, WFMin, NatLessThanWellFounded
<1>3. \E x \in T : \A y \in T : ~(y < x)
  BY <1>1, <1>2 DEF OpToRel
<1>4. PICK x \in T : \A y \in T : ~(y < x)
  BY <1>3
<1>5. \A k \in 1..(x - 1) : Shapes[k] \notin text.shapes
  BY <1>4
<1> QED
  BY <1>4, <1>5 DEF Matched

(* A copy is suspected exactly when the password manager marked it or some *)
(* one of its flavors gives it away, whichever flavor that is and in       *)
(* whatever order they came (preview.rs).                                  *)
THEOREM EveryFlavorIsSearched ==
  ASSUME NEW texts, NEW hinted \in BOOLEAN, NEW entropyRule \in BOOLEAN,
         Shapes \in Seq(ShapeSet), \A i \in DOMAIN texts : texts[i].shapes \subseteq ShapeSet,
         DOMAIN texts \subseteq Nat
  PROVE  DetectOverFlavors(texts, hinted, entropyRule) # {}
           <=> \/ hinted
               \/ \E i \in DOMAIN texts : texts[i].shapes # {} \/ (entropyRule /\ Fires(texts[i]))
<1> DEFINE found(i) == Detect(texts[i], FALSE, entropyRule)
           shaped   == {i \in DOMAIN texts : found(i) \cap ShapeSet # {}}
           first    == {i \in shaped : \A j \in shaped : i <= j}
<1>1. \A i \in DOMAIN texts :
         found(i) # {} <=> texts[i].shapes # {} \/ (entropyRule /\ Fires(texts[i]))
  BY SomeShapeMatches DEF Detect
<1>2. CASE hinted
  BY <1>2 DEF DetectOverFlavors
<1>3. CASE ~hinted /\ shaped = {}
  <2>1. DetectOverFlavors(texts, hinted, entropyRule) = UNION {found(i) : i \in DOMAIN texts}
    BY <1>3 DEF DetectOverFlavors
  <2>2. (UNION {found(i) : i \in DOMAIN texts}) # {} <=> \E i \in DOMAIN texts : found(i) # {}
    OBVIOUS
  <2> HIDE DEF found, shaped
  <2> QED
    BY <2>1, <2>2, <1>1, <1>3
<1>4. CASE ~hinted /\ shaped # {}
  <2>1. first # {}
    <3>1. shaped \subseteq Nat
      OBVIOUS
    <3>2. \E x \in shaped : \A y \in shaped : ~(<<y, x>> \in OpToRel(<, Nat))
      <4> HIDE DEF shaped
      <4> QED
        BY <3>1, <1>4, WFMin, NatLessThanWellFounded
    <3> HIDE DEF shaped
    <3>3. \E x \in shaped : \A y \in shaped : ~(y < x)
      BY <3>1, <3>2 DEF OpToRel
    <3>4. PICK x \in shaped : \A y \in shaped : ~(y < x)
      BY <3>3
    <3>5. \A y \in shaped : x <= y
      BY <3>1, <3>4
    <3> QED
      BY <3>4, <3>5
  <2>2. DetectOverFlavors(texts, hinted, entropyRule) = UNION {found(i) : i \in first}
    BY <1>4 DEF DetectOverFlavors
  <2>3. DetectOverFlavors(texts, hinted, entropyRule) # {}
    BY <2>1, <2>2
  <2>4. \E i \in DOMAIN texts : found(i) # {}
    BY <2>1
  <2> QED
    BY <2>3, <2>4, <1>1
<1> QED
  BY <1>2, <1>3, <1>4

-----------------------------------------------------------------------------
(* A set of numbers has a least one.                                       *)
LEMMA LeastExists ==
  ASSUME NEW S, S \subseteq Nat, S # {}
  PROVE  \E n \in S : \A m \in S : n <= m
<1>1. PICK n \in S : \A m \in S : ~(<<m, n>> \in OpToRel(<, Nat))
  BY NatLessThanWellFounded, WFMin
<1>2. \A m \in S : ~(m < n) /\ m \in Nat /\ n \in Nat
  BY <1>1 DEF OpToRel
<1>3. \A m \in S : n <= m
  BY <1>2
<1> QED
  BY <1>3

-----------------------------------------------------------------------------
(* Filters.  The places that are kept are counted by their order: the kth  *)
(* of them is there for every k, and its rank is k.                        *)

(* Finitely many numbers are all below some number: else there is a least  *)
(* beginning of them of which they are not.                                *)
LEMMA NumbersAreBounded ==
  ASSUME NEW N \in Nat, NEW f \in [1..N -> Nat]
  PROVE  \E b \in Nat : \A i \in 1..N : f[i] <= b
<1> DEFINE Below(n, b) == \A i \in 1..n : f[i] <= b
           open == {n \in 0..N : \A b \in Nat : ~Below(n, b)}
<1>1. open = {}
  <2>1. SUFFICES ASSUME open # {} PROVE FALSE
    OBVIOUS
  <2>2. PICK n \in open : \A m \in open : n <= m
    <3>1. open \subseteq Nat
      OBVIOUS
    <3> HIDE DEF open
    <3> QED
      BY <2>1, <3>1, LeastExists
  <2>3. n \in 0..N /\ \A b \in Nat : ~Below(n, b)
    BY <2>2
  <2>4. n # 0
    <3>1. Below(0, 0)
      OBVIOUS
    <3> QED
      BY <3>1, <2>3
  <2>5. n \in 1..N /\ n - 1 \in 0..N /\ ~(n <= n - 1)
    BY <2>3, <2>4
  <2>6. n - 1 \notin open
    BY <2>2, <2>5
  <2>7. PICK b \in Nat : Below(n - 1, b)
    BY <2>5, <2>6
  <2>8. f[n] \in Nat /\ \A i \in 1..(n - 1) : f[i] \in Nat
    BY <2>5
  <2>9. b + f[n] \in Nat /\ Below(n, b + f[n])
    BY <2>5, <2>7, <2>8
  <2> QED
    BY <2>3, <2>9
<1>2. N \notin open
  BY <1>1
<1>3. \E b \in Nat : Below(N, b)
  <2> HIDE DEF Below
  <2> QED
    BY <1>2
<1> QED
  BY <1>3

(* Two sequences one after the other.                                      *)
LEMMA JoinedAt ==
  ASSUME NEW S, NEW a \in Seq(S), NEW b \in Seq(S)
  PROVE  /\ a \o b \in Seq(S) /\ Len(a \o b) = Len(a) + Len(b)
         /\ DOMAIN (a \o b) = 1..(Len(a) + Len(b))
         /\ Len(a) \in Nat /\ Len(b) \in Nat
         /\ \A i \in 1..Len(a) : (a \o b)[i] = a[i]
         /\ \A i \in 1..Len(b) : (a \o b)[Len(a) + i] = b[i]
<1>1. Len(a) \in Nat /\ Len(b) \in Nat
  OBVIOUS
<1>2. a \o b \in Seq(S) /\ Len(a \o b) = Len(a) + Len(b)
  BY ConcatProperties
<1>3. ASSUME NEW i \in 1..Len(a) PROVE (a \o b)[i] = a[i]
  <2>1. i \in 1..(Len(a) + Len(b)) /\ i <= Len(a)
    BY <1>1
  <2> QED
    BY <2>1, ConcatProperties
<1>4. ASSUME NEW i \in 1..Len(b) PROVE (a \o b)[Len(a) + i] = b[i]
  <2>1. Len(a) + i \in 1..(Len(a) + Len(b)) /\ ~(Len(a) + i <= Len(a)) /\ Len(a) + i - Len(a) = i
    BY <1>1
  <2> QED
    BY <2>1, ConcatProperties
<1>5. DOMAIN (a \o b) = 1..Len(a \o b)
  BY <1>2
<1> QED
  BY <1>1, <1>2, <1>3, <1>4, <1>5

LEMMA PlacesAreCounted ==
  ASSUME NEW places, places \subseteq Nat, IsFiniteSet(places)
  PROVE  /\ \A i \in places : PlacesTo(places, i) \in 1..Cardinality(places)
         /\ \A i, j \in places : i < j => PlacesTo(places, i) < PlacesTo(places, j)
<1> DEFINE below(i) == {j \in places : j <= i}
<1>1. ASSUME NEW i \in places
      PROVE  /\ IsFiniteSet(below(i)) /\ Cardinality(below(i)) \in Nat
             /\ Cardinality(below(i)) <= Cardinality(places)
  <2>1. below(i) \in SUBSET places
    OBVIOUS
  <2> QED
    BY <2>1, FS_Subset, FS_CardinalityType
<1>2. ASSUME NEW i \in places PROVE Cardinality(below(i)) # 0
  <2>1. i \in below(i)
    OBVIOUS
  <2> QED
    BY <2>1, <1>1, FS_EmptySet
<1>3. ASSUME NEW i \in places, NEW j \in places, i < j
      PROVE  Cardinality(below(i)) < Cardinality(below(j))
  <2>1. /\ \A k \in places : k <= i => k <= j
        /\ j <= j /\ ~(j <= i)
    BY <1>3
  <2>2. below(i) \in SUBSET below(j) /\ j \in below(j) /\ j \notin below(i)
    BY <2>1, Zenon
  <2>3. Cardinality(below(i)) <= Cardinality(below(j)) /\ Cardinality(below(i)) # Cardinality(below(j))
    BY <2>2, <1>1, FS_Subset
  <2> QED
    BY <2>3, <1>1
<1>4. Cardinality(places) \in Nat
  BY FS_CardinalityType
<1> QED
  BY <1>1, <1>2, <1>3, <1>4 DEF PlacesTo

LEMMA NthIsThere ==
  ASSUME NEW places, places \subseteq Nat, IsFiniteSet(places)
  PROVE  /\ \A k \in 1..Cardinality(places) :
              Nth(places, k) \in places /\ PlacesTo(places, Nth(places, k)) = k
         /\ \A i \in places : Nth(places, PlacesTo(places, i)) = i
<1> DEFINE n == Cardinality(places)
           rank == [i \in places |-> PlacesTo(places, i)]
<1>1. n \in Nat /\ IsFiniteSet(1..n) /\ Cardinality(1..n) = n
  BY FS_CardinalityType, FS_Interval
<1>2. rank \in [places -> 1..n]
  BY PlacesAreCounted
<1>3. \A i, j \in places : rank[i] = rank[j] => i = j
  <2> SUFFICES ASSUME NEW i \in places, NEW j \in places, rank[i] = rank[j] PROVE i = j
    OBVIOUS
  <2>1. PlacesTo(places, i) \in 1..n /\ PlacesTo(places, i) = PlacesTo(places, j)
    BY PlacesAreCounted
  <2>2. ~(i < j) /\ ~(j < i)
    <3>1. /\ i < j => PlacesTo(places, i) < PlacesTo(places, j)
          /\ j < i => PlacesTo(places, j) < PlacesTo(places, i)
      BY PlacesAreCounted
    <3>2. PlacesTo(places, i) \in Int
      BY <2>1, <1>1
    <3> HIDE DEF rank, n
    <3> QED
      BY <2>1, <3>1, <3>2
  <2> QED
    BY <2>2
<1>4. rank \in Injection(places, 1..n)
  BY <1>2, <1>3 DEF Injection, IsInjective
<1>5. rank \in Surjection(places, 1..n)
  BY <1>1, <1>4, FS_Injection
<1>6. \A k \in 1..n : \E i \in places : PlacesTo(places, i) = k
  BY <1>5 DEF Surjection
<1>7. \A k \in 1..n : Nth(places, k) \in places /\ PlacesTo(places, Nth(places, k)) = k
  BY <1>6 DEF Nth
<1>8. ASSUME NEW i \in places PROVE Nth(places, PlacesTo(places, i)) = i
  <2>1. PlacesTo(places, i) \in 1..n
    BY PlacesAreCounted
  <2>2. Nth(places, PlacesTo(places, i)) \in places
        /\ PlacesTo(places, Nth(places, PlacesTo(places, i))) = PlacesTo(places, i)
    BY <2>1, <1>7
  <2> QED
    BY <2>2, <1>3
<1> QED
  BY <1>7, <1>8

(* A filter keeps what is at its places, and nothing else, in its order:   *)
(* Vec::retain and Iterator::filter, wherever the model filters a list.    *)
LEMMA FilterKeepsPlaces ==
  ASSUME NEW S, NEW s \in Seq(S), NEW places \in SUBSET DOMAIN s
  PROVE  LET kept == SubsequenceAt(s, places)
         IN  /\ kept \in Seq(S) /\ DOMAIN kept = 1..Cardinality(places)
             /\ Cardinality(places) \in Nat /\ Len(kept) = Cardinality(places)
             /\ \A k \in DOMAIN kept : Nth(places, k) \in places /\ kept[k] = s[Nth(places, k)]
             /\ \A k, l \in DOMAIN kept : k < l => Nth(places, k) < Nth(places, l)
             /\ \A i \in places : \E k \in DOMAIN kept : Nth(places, k) = i /\ kept[k] = s[i]
<1> DEFINE n == Cardinality(places)
           kept == SubsequenceAt(s, places)
<1>1. places \subseteq Nat /\ IsFiniteSet(places)
  BY FS_Interval, FS_Subset
<1>2. n \in Nat
  BY <1>1, FS_CardinalityType
<1>3. kept = [k \in 1..n |-> s[Nth(places, k)]]
  BY DEF SubsequenceAt
<1>4. \A k \in 1..n : Nth(places, k) \in places /\ PlacesTo(places, Nth(places, k)) = k
  BY <1>1, NthIsThere
<1>5. \A k \in 1..n : kept[k] \in S
  BY <1>3, <1>4
<1>6. kept \in [1..n -> S]
  BY <1>3, <1>5
<1>7. kept \in Seq(S) /\ DOMAIN kept = 1..n /\ Len(kept) = n
  BY <1>6, <1>2
<1>8. ASSUME NEW k \in 1..n, NEW l \in 1..n, k < l PROVE Nth(places, k) < Nth(places, l)
  <2>1. Nth(places, k) \in places /\ Nth(places, l) \in places
    BY <1>4
  <2>2. ~(Nth(places, l) < Nth(places, k)) /\ Nth(places, l) # Nth(places, k)
    BY <2>1, <1>1, <1>4, <1>8, <1>2, PlacesAreCounted
  <2> QED
    BY <2>1, <2>2, <1>1
<1>9. ASSUME NEW i \in places PROVE \E k \in 1..n : Nth(places, k) = i /\ kept[k] = s[i]
  <2>1. PlacesTo(places, i) \in 1..n /\ Nth(places, PlacesTo(places, i)) = i
    BY <1>1, PlacesAreCounted, NthIsThere
  <2> QED
    BY <2>1, <1>3
<1> HIDE DEF kept
<1> QED
  BY <1>2, <1>3, <1>4, <1>7, <1>8, <1>9 DEF kept

-----------------------------------------------------------------------------
(* An id that is in the history always means the entry that has it,        *)
(* however many longer ids begin with its digits (ids.rs, rule 1).         *)
THEOREM AnExactIdIsItself ==
  ASSUME NEW ids, NEW id \in ids
  PROVE  Resolves(id, ids) /\ Resolve(id, ids) = id
<1>1. Named(id, ids) = {id}
  BY DEF Named
<1>2. Cardinality({id}) = 1
  BY FS_Singleton
<1> QED
  BY <1>1, <1>2 DEF Resolves, Resolve

(* A reference that resolves names an entry that is there.                 *)
LEMMA ResolvedIsThere ==
  ASSUME NEW ids, NEW typed, Resolves(typed, ids)
  PROVE  Resolve(typed, ids) \in ids
<1>1. Named(typed, ids) # {}
  BY FS_EmptySet DEF Resolves
<1>2. Named(typed, ids) \subseteq ids
  BY DEF Named
<1> QED
  BY <1>1, <1>2 DEF Resolve

(* References that all resolve name what each of them means, and name it   *)
(* once however often it was typed (ids.rs resolve_all).                   *)
THEOREM EachIsNamedOnce ==
  ASSUME NEW ids, NEW T, NEW refs \in Seq(T),
         \A i \in DOMAIN refs : Resolves(refs[i], ids)
  PROVE  LET all == ResolveAll(refs, ids)
         IN  /\ all \in Seq(ids) /\ (refs # << >> => all # << >>)
             /\ \A k, l \in DOMAIN all : all[k] = all[l] => k = l
             /\ {all[k] : k \in DOMAIN all} = {Resolve(refs[i], ids) : i \in DOMAIN refs}
<1> DEFINE named == [i \in DOMAIN refs |-> Resolve(refs[i], ids)]
           first == {i \in DOMAIN refs : \A j \in 1..(i - 1) : named[j] # named[i]}
           all   == SubsequenceAt(named, first)
<1>1. ResolveAll(refs, ids) = all
  BY DEF ResolveAll
<1>2. DOMAIN refs = 1..Len(refs) /\ Len(refs) \in Nat
  OBVIOUS
<1>3. \A i \in DOMAIN refs : Resolve(refs[i], ids) \in ids
  BY ResolvedIsThere
<1>4. named \in [1..Len(refs) -> ids]
  BY <1>2, <1>3
<1>5. named \in Seq(ids) /\ DOMAIN named = DOMAIN refs
  BY <1>2, <1>4
<1>6. first \in SUBSET DOMAIN named
  BY <1>5
<1>7. /\ all \in Seq(ids) /\ DOMAIN all = 1..Cardinality(first)
      /\ Cardinality(first) \in Nat /\ Len(all) = Cardinality(first)
      /\ \A k \in DOMAIN all : Nth(first, k) \in first /\ all[k] = named[Nth(first, k)]
      /\ \A k, l \in DOMAIN all : k < l => Nth(first, k) < Nth(first, l)
      /\ \A i \in first : \E k \in DOMAIN all : Nth(first, k) = i /\ all[k] = named[i]
  <2> HIDE DEF named, first
  <2> QED
    BY <1>5, <1>6, FilterKeepsPlaces
<1>8. ASSUME NEW i \in DOMAIN refs
      PROVE  \E k \in DOMAIN all : all[k] = named[i]
  <2> DEFINE same == {j \in DOMAIN refs : named[j] = named[i]}
  <2>1. same \subseteq Nat /\ same # {}
    BY <1>2
  <2>2. PICK j \in same : \A m \in same : j <= m
    BY <2>1, LeastExists
  <2>3. j \in DOMAIN refs /\ named[j] = named[i]
    BY <2>2
  <2>4. ASSUME NEW m \in 1..(j - 1) PROVE named[m] # named[j]
    <3>1. m \in DOMAIN refs /\ ~(j <= m)
      BY <1>2, <2>3
    <3> HIDE DEF named
    <3> QED
      BY <3>1, <2>2, <2>3
  <2>5. j \in first
    BY <2>3, <2>4
  <2> HIDE DEF first, named, all
  <2> QED
    BY <2>3, <2>5, <1>7
<1>9. ASSUME NEW k \in DOMAIN all, NEW l \in DOMAIN all, k < l
      PROVE  all[k] # all[l]
  <2>1. Nth(first, k) \in first /\ Nth(first, l) \in first /\ Nth(first, k) < Nth(first, l)
    BY <1>7, <1>9
  <2>2. Nth(first, k) \in 1..(Nth(first, l) - 1)
    BY <2>1, <1>2
  <2>3. named[Nth(first, k)] # named[Nth(first, l)]
    BY <2>1, <2>2
  <2> HIDE DEF first, named, all
  <2> QED
    BY <2>3, <1>7
<1>10. ASSUME NEW k \in DOMAIN all, NEW l \in DOMAIN all, all[k] = all[l] PROVE k = l
  <2>1. ~(k < l) /\ ~(l < k)
    BY <1>9, <1>10
  <2>2. k \in Nat /\ l \in Nat
    <3> HIDE DEF all, first
    <3> QED
      BY <1>7
  <2> QED
    BY <2>1, <2>2
<1>11. ASSUME NEW k \in DOMAIN all
       PROVE  \E i \in DOMAIN refs : all[k] = Resolve(refs[i], ids)
  <2>1. Nth(first, k) \in DOMAIN refs /\ all[k] = named[Nth(first, k)]
    BY <1>7
  <2> HIDE DEF first, all
  <2> QED
    BY <2>1
<1>12. ASSUME NEW i \in DOMAIN refs
       PROVE  \E k \in DOMAIN all : all[k] = Resolve(refs[i], ids)
  BY <1>8
<1>13. refs # << >> => all # << >>
  <2>1. ASSUME refs # << >> PROVE 1 \in DOMAIN refs
    BY <2>1, <1>2
  <2> HIDE DEF all
  <2> QED
    BY <2>1, <1>12
<1> HIDE DEF all
<1>14. {all[k] : k \in DOMAIN all} = {Resolve(refs[i], ids) : i \in DOMAIN refs}
  BY <1>11, <1>12
<1>15. all \in Seq(ids)
  BY <1>7
<1> QED
  BY <1>1, <1>15, <1>10, <1>13, <1>14

-----------------------------------------------------------------------------
(* Nobody is taken for one of clippo's own but an unsandboxed process that *)
(* runs an installed binary, whatever could not be found out about it      *)
(* (peer.rs judge_with, from_paths).                                       *)
THEOREM OnlyInstalledIsTrusted ==
  ASSUME NEW holders, NEW beside, NEW home, NEW links,
         OwnerOf(holders, Policy(Installed(beside, home), links)) = "trusted"
  PROVE  /\ holders # {}
         /\ \A process \in holders :
              /\ process.pid # {} /\ ~process.sandboxed /\ process.exe # {}
              /\ \A exe \in process.exe : \E path \in Installed(beside, home) :
                   exe = path \/ (path \in DOMAIN links /\ exe = links[path])
<1> DEFINE policy == Policy(Installed(beside, home), links)
<1>1. holders # {} /\ \A process \in holders : Judge(process, policy) = "peer"
  BY DEF OwnerOf
<1>2. ASSUME NEW process \in holders
      PROVE  process.pid # {} /\ ~process.sandboxed /\ process.exe # {} /\ process.exe \subseteq policy
  <2> HIDE DEF policy
  <2> QED
    BY <1>1 DEF Judge
<1>3. ASSUME NEW exe \in policy
      PROVE  \E path \in Installed(beside, home) : exe = path \/ (path \in DOMAIN links /\ exe = links[path])
  BY DEF Policy
<1> QED
  BY <1>1, <1>2, <1>3

(* However many types a source has advertised, one that clippo reads is    *)
(* remembered when it comes, under some spelling of it (watch.rs           *)
(* AdvertisedMimes::push).                                                 *)
THEOREM InterestingIsRemembered ==
  ASSUME NEW Mime, NEW mimes \in Seq(Mime), NEW mime \in Mime, IsInteresting(mime),
         MaxAdvertised \in Nat
  PROVE  \E i \in DOMAIN Push(mimes, mime) : Same(Push(mimes, mime)[i], mime)
<1> DEFINE tail == SubSeq(mimes, MaxAdvertised + 1, Len(mimes))
           grown == Append(mimes, mime)
<1>1. grown \in Seq(Mime) /\ Len(grown) \in DOMAIN grown /\ grown[Len(grown)] = mime
  OBVIOUS
<1>2. CASE Push(mimes, mime) = grown
  <2> HIDE DEF grown
  <2> QED
    BY <1>1, <1>2 DEF Same
<1>3. CASE Push(mimes, mime) # grown
  <2>1. Push(mimes, mime) = mimes /\ ~(Len(mimes) < MaxAdvertised)
        /\ \E i \in DOMAIN tail : Same(tail[i], mime)
    BY <1>3 DEF Push
  <2>2. PICK i \in DOMAIN tail : Same(tail[i], mime)
    BY <2>1
  <2>3. i + MaxAdvertised \in DOMAIN mimes /\ tail[i] = mimes[i + MaxAdvertised]
    BY <2>1, <2>2
  <2> QED
    BY <2>1, <2>2, <2>3
<1> QED
  BY <1>2, <1>3

(* The sweep drops nothing that is younger than max_age by the clock it    *)
(* reads, however far off that clock is: no word wraps (entry.rs           *)
(* saturating_sub, retention.rs sweep).                                    *)
THEOREM NoneIsDroppedYoung ==
  ASSUME MaxWord \in Nat, NEW now \in Words, NEW last_used \in Words, NEW max_age \in Nat,
         TooOld(last_used, now, max_age)
  PROVE  /\ now - last_used > MillisOf(max_age)
         /\ SaturatingSub(now, max_age) \in Words
<1>1. MillisOf(max_age) \in Nat
  BY DEF MillisOf
<1> QED
  BY <1>1 DEF TooOld, SaturatingSub, Saturated, Words, MinWord

(* A row whose clock reading lies ahead is of age zero, and no age is ever *)
(* negative (entry.rs since).                                              *)
THEOREM AgeIsNatural ==
  ASSUME MaxWord \in Nat, NEW now \in Words, NEW earlier \in Words
  PROVE  /\ Since(now, earlier) \in Nat
         /\ now <= earlier => Since(now, earlier) = 0
BY DEF Since, Saturated, Words, MinWord
-----------------------------------------------------------------------------
(* Where rows begin and a list is scrolled to.                             *)

(* Induction on a number, of a set.                                        *)
LEMMA ReachesAll ==
  ASSUME NEW G \in SUBSET Nat, 0 \in G, \A n \in Nat : n \in G => n + 1 \in G
  PROVE  G = Nat
<1> SUFFICES ASSUME G # Nat PROVE FALSE
  OBVIOUS
<1>1. PICK m \in Nat \ G : \A k \in Nat \ G : m <= k
  BY LeastExists
<1>2. m - 1 \in Nat /\ m - 1 \in G
  BY <1>1
<1> QED
  BY <1>1, <1>2

(* f adds up the first n rows of a list.                                   *)
SumsTo(f, heights, n) ==
  f \in [0..n -> Nat] /\ f[0] = 0 /\ \A i \in 1..n : f[i] = f[i - 1] + heights[i]

(* The sums of a list of heights can be written down.                      *)
LEMMA SumsExist ==
  ASSUME NEW heights \in Seq(Nat)
  PROVE  \E f : SumsTo(f, heights, Len(heights))
<1> DEFINE G == {n \in Nat : n <= Len(heights) => \E f : SumsTo(f, heights, n)}
<1>1. 0 \in G
  <2>1. SumsTo([i \in 0..0 |-> 0], heights, 0)
    BY DEF SumsTo
  <2> QED
    BY <2>1
<1>2. ASSUME NEW n \in Nat, n <= Len(heights) => \E f : SumsTo(f, heights, n), n + 1 <= Len(heights)
      PROVE  \E f : SumsTo(f, heights, n + 1)
  <2>1. PICK f : SumsTo(f, heights, n)
    BY <1>2
  <2> DEFINE g == [i \in 0..(n + 1) |-> IF i = n + 1 THEN f[n] + heights[n + 1] ELSE f[i]]
  <2>2. heights[n + 1] \in Nat /\ f[n] \in Nat
    BY <1>2, <2>1 DEF SumsTo
  <2>3. g \in [0..(n + 1) -> Nat] /\ g[0] = 0
    BY <2>1, <2>2 DEF SumsTo
  <2>4. ASSUME NEW i \in 1..(n + 1) PROVE g[i] = g[i - 1] + heights[i]
    <3>1. i - 1 \in 0..n /\ i \in 0..(n + 1) /\ i - 1 \in 0..(n + 1) /\ i - 1 # n + 1
      OBVIOUS
    <3>2. CASE i = n + 1
      <4>1. i - 1 = n
        BY <3>2
      <4>2. g[i] = f[n] + heights[n + 1] /\ g[i - 1] = f[i - 1]
        BY <3>1, <3>2
      <4> QED
        BY <3>2, <4>1, <4>2
    <3>3. CASE i # n + 1
      <4>1. i \in 1..n
        BY <3>3
      <4>2. g[i] = f[i] /\ g[i - 1] = f[i - 1]
        BY <3>1, <3>3
      <4> QED
        BY <2>1, <4>1, <4>2 DEF SumsTo
    <3> QED
      BY <3>2, <3>3
  <2>5. SumsTo(g, heights, n + 1)
    BY <2>3, <2>4 DEF SumsTo
  <2> QED
    BY <2>5
<1>3. G = Nat
  <2>1. G \in SUBSET Nat /\ \A n \in Nat : n \in G => n + 1 \in G
    BY <1>2
  <2> HIDE DEF G
  <2> QED
    BY <1>1, <2>1, ReachesAll
<1>4. Len(heights) \in Nat
  OBVIOUS
<1> QED
  BY <1>3, <1>4

(* SumOf is the last of them.                                              *)
LEMMA SumsAreSums ==
  ASSUME NEW heights \in Seq(Nat)
  PROVE  \E f : SumsTo(f, heights, Len(heights)) /\ SumOf(heights) = f[Len(heights)]
<1> DEFINE n == Len(heights)
           sum == CHOOSE f : f = [i \in 0..n |-> IF i = 0 THEN 0 ELSE f[i - 1] + heights[i]]
<1>0. n \in Nat
  OBVIOUS
<1>1. PICK f : SumsTo(f, heights, n)
  BY SumsExist
<1>2. f = [i \in 0..n |-> IF i = 0 THEN 0 ELSE f[i - 1] + heights[i]]
  <2>1. f \in [0..n -> Nat] /\ \A i \in 0..n : f[i] = IF i = 0 THEN 0 ELSE f[i - 1] + heights[i]
    BY <1>0, <1>1 DEF SumsTo
  <2> QED
    BY <2>1
<1>3. sum = [i \in 0..n |-> IF i = 0 THEN 0 ELSE sum[i - 1] + heights[i]]
  BY <1>2
<1>4. SumOf(heights) = sum[n]
  BY DEF SumOf
<1> HIDE DEF sum
<1>5. ASSUME NEW g, g = [i \in 0..n |-> IF i = 0 THEN 0 ELSE g[i - 1] + heights[i]]
      PROVE  g[n] = f[n]
  <2> DEFINE G == {k \in Nat : k <= n => g[k] = f[k]}
  <2>1. 0 \in G
    BY <1>0, <1>1, <1>5 DEF SumsTo
  <2>2. ASSUME NEW k \in Nat, k \in G PROVE k + 1 \in G
    <3> SUFFICES ASSUME k + 1 <= n PROVE g[k + 1] = f[k + 1]
      OBVIOUS
    <3>1. g[k] = f[k] /\ k + 1 \in 1..n /\ (k + 1) - 1 = k /\ k + 1 \in 0..n /\ k + 1 # 0
      BY <1>0, <2>2
    <3>2. f[k + 1] = f[k] + heights[k + 1]
      BY <1>1, <3>1 DEF SumsTo
    <3>3. g[k + 1] = g[k] + heights[k + 1]
      BY <1>5, <3>1
    <3> QED
      BY <3>1, <3>2, <3>3
  <2>3. G = Nat
    <3>1. G \in SUBSET Nat
      OBVIOUS
    <3> HIDE DEF G
    <3> QED
      BY <2>1, <2>2, <3>1, ReachesAll
  <2> QED
    BY <1>0, <2>3
<1>6. sum[n] = f[n]
  BY <1>3, <1>5
<1> QED
  BY <1>1, <1>4, <1>6

(* Equal heights have equal sums.                                          *)
LEMMA SumsAgree ==
  ASSUME NEW n \in Nat, NEW f, NEW g, NEW heights, NEW others,
         SumsTo(f, heights, n), SumsTo(g, others, n), \A i \in 1..n : heights[i] = others[i]
  PROVE  f[n] = g[n]
<1> DEFINE G == {k \in Nat : k <= n => f[k] = g[k]}
<1>1. 0 \in G
  BY DEF SumsTo
<1>2. ASSUME NEW k \in Nat, k <= n => f[k] = g[k], k + 1 <= n PROVE f[k + 1] = g[k + 1]
  <2>1. k + 1 \in 1..n /\ (k + 1) - 1 = k /\ f[k] = g[k]
    BY <1>2
  <2>2. f[k + 1] = f[k] + heights[k + 1] /\ g[k + 1] = g[k] + others[k + 1]
    BY <2>1 DEF SumsTo
  <2> QED
    BY <2>1, <2>2
<1>3. G = Nat
  <2>1. G \in SUBSET Nat /\ \A k \in Nat : k \in G => k + 1 \in G
    BY <1>2
  <2> HIDE DEF G
  <2> QED
    BY <1>1, <2>1, ReachesAll
<1> QED
  BY <1>3

(* More rows are no shorter than fewer.                                    *)
LEMMA SumsRise ==
  ASSUME NEW n \in Nat, NEW f, NEW heights, SumsTo(f, heights, n), NEW i \in 0..n,
         \A k \in 1..n : heights[k] \in Nat
  PROVE  f[i] <= f[n]
<1> DEFINE G == {k \in Nat : i + k <= n => f[i] <= f[i + k]}
<1>0. \A k \in 0..n : f[k] \in Nat
  BY DEF SumsTo
<1>1. 0 \in G
  BY <1>0
<1>2. ASSUME NEW k \in Nat, i + k <= n => f[i] <= f[i + k], i + (k + 1) <= n
      PROVE  f[i] <= f[i + (k + 1)]
  <2>1. i + (k + 1) \in 1..n /\ (i + (k + 1)) - 1 = i + k /\ i + k \in 0..n
    BY <1>2
  <2>2. f[i + (k + 1)] = f[i + k] + heights[i + (k + 1)] /\ heights[i + (k + 1)] \in Nat
    BY <2>1 DEF SumsTo
  <2> QED
    BY <1>0, <1>2, <2>1, <2>2
<1>3. G = Nat
  <2>1. G \in SUBSET Nat /\ \A k \in Nat : k \in G => k + 1 \in G
    BY <1>2
  <2> HIDE DEF G
  <2> QED
    BY <1>1, <2>1, ReachesAll
<1>4. n - i \in Nat /\ i + (n - i) = n /\ n <= n
  OBVIOUS
<1>5. n - i \in G
  BY <1>3, <1>4
<1> QED
  BY <1>4, <1>5

(* A row ends no lower than the list does.                                 *)
LEMMA RowsFit ==
  ASSUME NEW heights \in Seq(Nat), NEW index \in DOMAIN heights
  PROVE  /\ RowTop(heights, index) \in Nat /\ heights[index] \in Nat
         /\ ContentHeight(heights) \in Nat
         /\ RowTop(heights, index) + heights[index] <= ContentHeight(heights)
<1> DEFINE n     == Len(heights)
           above == SubSeq(heights, 1, index - 1)
<1>1. n \in Nat /\ index \in 1..n /\ \A k \in 1..n : heights[k] \in Nat
  OBVIOUS
<1>2. /\ above \in Seq(Nat) /\ Len(above) = index - 1
      /\ \A i \in 1..(index - 1) : above[i] = heights[i]
  OBVIOUS
<1>3. PICK f : SumsTo(f, heights, n) /\ SumOf(heights) = f[n]
  BY SumsAreSums
<1>4. SumOf(above) = f[index - 1]
  <2>1. PICK g : SumsTo(g, above, index - 1) /\ SumOf(above) = g[index - 1]
    BY <1>2, SumsAreSums
  <2>2. [i \in 0..(index - 1) |-> f[i]] \in [0..(index - 1) -> Nat]
    BY <1>1, <1>3 DEF SumsTo
  <2>3. SumsTo([i \in 0..(index - 1) |-> f[i]], heights, index - 1)
    BY <1>1, <1>3, <2>2 DEF SumsTo
  <2>4. index - 1 \in Nat /\ \A i \in 1..(index - 1) : heights[i] = above[i]
    BY <1>1, <1>2
  <2>5. [i \in 0..(index - 1) |-> f[i]][index - 1] = f[index - 1]
    BY <1>1
  <2> HIDE DEF above, n
  <2>6. [i \in 0..(index - 1) |-> f[i]][index - 1] = g[index - 1]
    BY <2>1, <2>3, <2>4, SumsAgree
  <2> QED
    BY <2>1, <2>5, <2>6
<1>5. /\ f[index - 1] \in Nat /\ f[index] \in Nat /\ f[n] \in Nat
      /\ f[index] = f[index - 1] + heights[index]
  <2>1. index - 1 \in 0..n /\ index \in 0..n /\ n \in 0..n
    BY <1>1
  <2> HIDE DEF n
  <2> QED
    BY <1>1, <1>3, <2>1 DEF SumsTo
<1>6. f[index] <= f[n]
  BY <1>1, <1>3, SumsRise
<1>7. Taller(n, 1) = n
  <2> HIDE DEF n
  <2>1. n \in Nat /\ n >= 1
    BY <1>1
  <2> QED
    BY <2>1 DEF Taller
<1>8. RowTop(heights, index) = f[index - 1] + 2 * (index - 1)
  BY <1>4 DEF RowTop, RowSpacing
<1>9. ContentHeight(heights) = f[n] + 2 * (n - 1)
  BY <1>3, <1>7 DEF ContentHeight, RowSpacing
<1>10. index \in Nat /\ 1 <= index /\ index <= n /\ heights[index] \in Nat
  BY <1>1
<1>11. ASSUME NEW a \in Nat, NEW b \in Nat, NEW h \in Nat, NEW i \in Nat, NEW m \in Nat,
              1 <= i, i <= m, a + h <= b
       PROVE  /\ a + 2 * (i - 1) \in Nat /\ b + 2 * (m - 1) \in Nat
              /\ (a + 2 * (i - 1)) + h <= b + 2 * (m - 1)
  BY <1>11
<1>12. f[index - 1] + heights[index] <= f[n]
  BY <1>5, <1>6
<1> HIDE DEF n, above
<1>13. n \in Nat
  BY <1>1
<1>14. /\ f[index - 1] + 2 * (index - 1) \in Nat /\ f[n] + 2 * (n - 1) \in Nat
       /\ (f[index - 1] + 2 * (index - 1)) + heights[index] <= f[n] + 2 * (n - 1)
  BY <1>5, <1>10, <1>11, <1>12, <1>13
<1> QED
  BY <1>8, <1>9, <1>10, <1>14

(* With the list anywhere between its ends, scroll_offset (app.rs) brings  *)
(* the row that is highlighted on screen whole, or begins with it where it *)
(* is taller than the viewport, and does not move a list that shows it.    *)
THEOREM ScrollShowsTheRow ==
  ASSUME NEW heights \in Seq(Nat), NEW index \in DOMAIN heights,
         NEW list \in [viewport : Nat, offset : Nat, scale : Nat \ {0}],
         list.offset + list.viewport <= ContentHeight(heights) * list.scale
  PROVE  LET to == ScrolledTo(heights, index, list)
         IN  /\ IF heights[index] * list.scale > list.viewport
                THEN to = RowTop(heights, index) * list.scale
                ELSE Shows(heights, index, list, to)
             /\ Shows(heights, index, list, list.offset) => to = list.offset
<1> DEFINE to     == ScrolledTo(heights, index, list)
           begins == RowTop(heights, index) * list.scale
           height == heights[index] * list.scale
           whole  == ContentHeight(heights) * list.scale
<1>1. begins \in Nat /\ height \in Nat /\ whole \in Nat /\ begins + height <= whole
  <2>1. ASSUME NEW a \in Nat, NEW b \in Nat, NEW c \in Nat, NEW s \in Nat, a + b <= c
        PROVE  a * s \in Nat /\ b * s \in Nat /\ c * s \in Nat /\ a * s + b * s <= c * s
    <3>1. PICK d \in Nat : c = a + b + d
      BY <2>1
    <3>2. c * s = a * s + b * s + d * s
      BY <3>1
    <3>3. a * s \in Nat /\ b * s \in Nat /\ d * s \in Nat
      OBVIOUS
    <3> QED
      BY <3>2, <3>3
  <2>2. list.scale \in Nat
    OBVIOUS
  <2> QED
    BY <2>1, <2>2, RowsFit
<1>2. /\ height > list.viewport => to = begins
      /\ height <= list.viewport => to <= begins /\ begins + height <= to + list.viewport
      /\ list.offset <= begins /\ begins + height <= list.offset + list.viewport => to = list.offset
  <2>1. list.offset \in Nat /\ list.viewport \in Nat /\ list.offset + list.viewport <= whole
    OBVIOUS
  <2>2. ASSUME NEW b, NEW h, NEW w, NEW t,
               b = RowTop(heights, index) * list.scale, h = heights[index] * list.scale,
               w = ContentHeight(heights) * list.scale, t = ScrolledTo(heights, index, list),
               b \in Nat, h \in Nat, w \in Nat, b + h <= w, list.offset + list.viewport <= w
        PROVE  /\ h > list.viewport => t = b
               /\ h <= list.viewport => t <= b /\ b + h <= t + list.viewport
               /\ list.offset <= b /\ b + h <= list.offset + list.viewport => t = list.offset
    <3> DEFINE ends  == b + h
               least == IF ends - list.viewport < b THEN ends - list.viewport ELSE b
               scrolled == ScrollOffset(heights, index, list)
    <3>0. /\ b \in Nat /\ h \in Nat /\ w \in Nat /\ list.offset \in Nat /\ list.viewport \in Nat
          /\ b + h <= w /\ list.offset + list.viewport <= w
      BY <2>1, <2>2, Zenon
    <3>1. scrolled = IF w <= list.viewport THEN {}
                     ELSE IF b < list.offset THEN {b}
                     ELSE IF ends > list.offset + list.viewport THEN {least} ELSE {}
      BY <2>2, Zenon DEF ScrollOffset
    <3>2. t = IF scrolled = {} THEN list.offset ELSE Min(scrolled)
      BY <2>2 DEF ScrolledTo
    <3>3. \A n \in Nat : Min({n}) = n
      BY DEF Min
    <3>4. ends \in Nat /\ (ends > list.offset + list.viewport => least \in Nat)
      BY <3>0
    <3> HIDE DEF scrolled
    <3>5. CASE w <= list.viewport
      <4>1. t = list.offset
        BY <3>0, <3>1, <3>2, <3>5
      <4> QED
        BY <3>0, <3>5, <4>1
    <3>6. CASE ~(w <= list.viewport) /\ b < list.offset
      <4>1. t = b
        BY <3>0, <3>1, <3>2, <3>3, <3>6
      <4> QED
        BY <3>0, <3>6, <4>1
    <3>7. CASE ~(w <= list.viewport) /\ ~(b < list.offset) /\ ends > list.offset + list.viewport
      <4>1. t = least
        <5> HIDE DEF least, ends
        <5> QED
          BY <3>0, <3>1, <3>2, <3>3, <3>4, <3>7
      <4> QED
        BY <3>0, <3>7, <4>1
    <3>8. CASE ~(w <= list.viewport) /\ ~(b < list.offset) /\ ~(ends > list.offset + list.viewport)
      <4>1. t = list.offset
        BY <3>0, <3>1, <3>2, <3>8
      <4> QED
        BY <3>0, <3>8, <4>1
    <3> QED
      BY <3>5, <3>6, <3>7, <3>8
  <2> QED
    BY <1>1, <2>1, <2>2, Zenon
<1>3. \A n : Shows(heights, index, list, n) <=> n <= begins /\ begins + height <= n + list.viewport
  <2>1. (SumOf(SubSeq(heights, 1, index - 1)) + (index - 1) * RowSpacing) * list.scale = begins
    <3>1. index - 1 \in Int
      OBVIOUS
    <3>2. (index - 1) * RowSpacing = RowSpacing * (index - 1)
      BY <3>1 DEF RowSpacing
    <3> QED
      BY <3>2 DEF RowTop
  <2> QED
    BY <2>1 DEF Shows
<1>4. height > list.viewport \/ height <= list.viewport
  <2>1. height \in Nat /\ list.viewport \in Nat
    BY <1>1
  <2> HIDE DEF height
  <2> QED
    BY <2>1
<1> QED
  BY <1>2, <1>3, <1>4
=============================================================================
