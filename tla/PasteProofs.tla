---------------------------- MODULE PasteProofs ----------------------------
(***************************************************************************)
(* What holds of PasteWrites for every set of pastes, every blob, pipe and *)
(* limit, and whether or not registrations fail: the bookkeeping of parked *)
(* pastes never comes apart, their pipes stay within the limit, and every  *)
(* application reads the start of the blob it asked for.                   *)
(***************************************************************************)
EXTENDS PasteWrites, FiniteSetTheorems, SequenceTheorems, TLAPS

(* Two parked pastes never share a pipe.                                   *)
PipesDistinct == \A i, j \in DOMAIN loop : loop[i] = loop[j] => i = j

LoopInv == LoopOK /\ Accounted /\ PipesBounded

IInv == PipesOK /\ LoopInv /\ BytesAreTheBlobs /\ PipesDistinct

-----------------------------------------------------------------------------
(* Removing an id that is queued once leaves the others in their order.    *)
LEMMA WithoutKeepsOrder ==
  ASSUME NEW n \in Nat, NEW q \in Seq(0 .. n - 1), Increasing(q), NEW id \in Range(q)
  PROVE  /\ Without(q, id) \in Seq(0 .. n - 1)
         /\ Increasing(Without(q, id))
         /\ Range(Without(q, id)) = Range(q) \ {id}
<1> DEFINE at == CHOOSE k \in DOMAIN q : q[k] = id
           front == SubSeq(q, 1, at - 1)
           back == SubSeq(q, at + 1, Len(q))
<1>1. at \in 1 .. Len(q) /\ q[at] = id
  BY DEF Range
<1> HIDE DEF at
<1>2. /\ front \in Seq(0 .. n - 1) /\ Len(front) = at - 1
      /\ \A i \in 1 .. at - 1 : front[i] = q[i]
  BY <1>1, SubSeqProperties
<1>3. /\ back \in Seq(0 .. n - 1) /\ Len(back) = Len(q) - at
      /\ \A i \in 1 .. Len(q) - at : back[i] = q[at + i]
  <2>1. \A i \in at + 1 .. Len(q) : q[i] \in 0 .. n - 1
    BY <1>1
  <2>2. Len(q) \in Nat /\ at + 1 \in Int
    BY <1>1
  <2> HIDE DEF back
  <2>3. /\ back \in Seq(0 .. n - 1)
        /\ Len(back) = IF at + 1 <= Len(q) THEN Len(q) - (at + 1) + 1 ELSE 0
        /\ \A i \in 1 .. Len(q) - (at + 1) + 1 : back[i] = q[at + 1 + i - 1]
    BY <2>1, <2>2, SubSeqProperties DEF back
  <2> QED
    BY <2>2, <2>3, <1>1
<1> HIDE DEF front, back
<1> DEFINE w == front \o back
<1>4. /\ w \in Seq(0 .. n - 1) /\ Len(w) = Len(q) - 1
      /\ \A i \in 1 .. Len(q) - 1 : w[i] = IF i < at THEN q[i] ELSE q[i + 1]
  <2>1. /\ w \in Seq(0 .. n - 1) /\ Len(w) = Len(front) + Len(back)
        /\ \A i \in 1 .. Len(front) + Len(back) :
             w[i] = IF i <= Len(front) THEN front[i] ELSE back[i - Len(front)]
    BY <1>2, <1>3, ConcatProperties
  <2>2. /\ at \in Int /\ Len(q) \in Nat /\ 1 <= at /\ at <= Len(q)
        /\ Len(front) = at - 1 /\ Len(back) = Len(q) - at
    BY <1>1, <1>2, <1>3
  <2> HIDE DEF w
  <2>3. Len(w) = Len(q) - 1
    BY <2>1, <2>2
  <2>4. ASSUME NEW i \in 1 .. Len(q) - 1
        PROVE  w[i] = IF i < at THEN q[i] ELSE q[i + 1]
    <3>1. CASE i < at
      <4>1. i \in 1 .. Len(front) + Len(back) /\ i <= Len(front) /\ i \in 1 .. at - 1
        BY <2>2, <3>1
      <4> QED
        BY <4>1, <3>1, <2>1, <1>2
    <3>2. CASE ~(i < at)
      <4>1. /\ i \in 1 .. Len(front) + Len(back) /\ ~(i <= Len(front))
            /\ i - Len(front) \in 1 .. Len(q) - at /\ at + (i - Len(front)) = i + 1
        BY <2>2, <3>2
      <4>2. w[i] = back[i - Len(front)]
        BY <4>1, <2>1
      <4>3. back[i - Len(front)] = q[at + (i - Len(front))]
        BY <4>1, <1>3
      <4> QED
        BY <4>1, <4>2, <4>3, <3>2
    <3> QED
      BY <3>1, <3>2
  <2> QED
    BY <2>1, <2>3, <2>4
<1> HIDE DEF w
<1>5. Without(q, id) = w
  BY DEF Without, w, front, back, at
<1> DEFINE place(i) == IF i < at THEN i ELSE i + 1
           size == Len(q)
<1>0. /\ at \in Int /\ size \in Int /\ 1 <= at /\ at <= size /\ q[at] = id
      /\ DOMAIN q = 1 .. size /\ DOMAIN w = 1 .. size - 1
  BY <1>1, <1>4
<1>a. \A i \in 1 .. size - 1 : w[i] = q[place(i)]
  BY <1>4
<1> HIDE DEF size
<1>b. ASSUME NEW i \in 1 .. size - 1
      PROVE  place(i) \in 1 .. size /\ place(i) # at
  BY <1>0
<1>c. ASSUME NEW j \in 1 .. size - 1, NEW k \in 1 .. size - 1, j < k
      PROVE  place(j) < place(k)
  BY <1>0, <1>c
<1>d. ASSUME NEW k \in 1 .. size, k # at
      PROVE  \E i \in 1 .. size - 1 : place(i) = k
  <2>1. CASE k < at
    <3>1. k \in 1 .. size - 1 /\ place(k) = k
      BY <2>1, <1>0
    <3> QED
      BY <3>1
  <2>2. CASE ~(k < at)
    <3>1. k - 1 \in 1 .. size - 1 /\ place(k - 1) = k
      BY <2>2, <1>0, <1>d
    <3> QED
      BY <3>1
  <2> QED
    BY <2>1, <2>2
<1> HIDE DEF place
<1>6. Increasing(w)
  <2> SUFFICES ASSUME NEW j \in 1 .. size - 1, NEW k \in 1 .. size - 1, j < k
               PROVE  w[j] < w[k]
    BY <1>0 DEF Increasing
  <2>1. place(j) \in 1 .. size /\ place(k) \in 1 .. size /\ place(j) < place(k)
    BY <1>b, <1>c
  <2>2. q[place(j)] < q[place(k)]
    BY <2>1, <1>0 DEF Increasing
  <2> QED
    BY <2>2, <1>a
<1>7. Range(w) \subseteq Range(q) \ {id}
  <2> SUFFICES ASSUME NEW i \in 1 .. size - 1
               PROVE  w[i] \in Range(q) /\ w[i] # id
    BY <1>0 DEF Range
  <2>1. place(i) \in 1 .. size /\ place(i) # at
    BY <1>b
  <2>2. \A j, k \in 1 .. size : j # k => q[j] # q[k]
    <3>1. \A j \in 1 .. size : q[j] \in Int
      BY <1>0, ElementOfSeq
    <3>2. \A j, k \in 1 .. size : j < k => q[j] < q[k]
      BY <1>0 DEF Increasing
    <3> QED
      BY <3>1, <3>2, <1>0
  <2>3. q[place(i)] # q[at]
    BY <2>1, <2>2, <1>0
  <2> QED
    BY <2>1, <2>3, <1>0, <1>a DEF Range
<1>8. Range(q) \ {id} \subseteq Range(w)
  <2> SUFFICES ASSUME NEW k \in 1 .. size, q[k] # id
               PROVE  q[k] \in Range(w)
    BY <1>0 DEF Range
  <2>1. PICK i \in 1 .. size - 1 : place(i) = k
    BY <1>0, <1>d
  <2>2. w[i] = q[k]
    BY <2>1, <1>a
  <2> QED
    BY <2>2, <1>0 DEF Range
<1> QED
  BY <1>4, <1>5, <1>6, <1>7, <1>8

(* The parked pastes are finitely many.                                    *)
LEMMA WritesFinite ==
  ASSUME LoopInv
  PROVE  IsFiniteSet(DOMAIN writes) /\ Cardinality(DOMAIN writes) \in Nat
<1>1. next_write - 1 \in Int /\ DOMAIN writes \subseteq 0 .. next_write - 1
  BY DEF LoopInv, LoopOK
<1>2. IsFiniteSet(0 .. next_write - 1)
  BY <1>1, FS_Interval
<1> QED
  BY <1>1, <1>2, FS_Subset, FS_CardinalityType

(* make_room_for_a_write removes nothing while there is room, and only the *)
(* oldest paste when there is none.                                        *)
LEMMA MakesRoomForOne ==
  ASSUME LoopInv
  PROVE  \/ /\ Cardinality(DOMAIN writes) < MaxPending
            /\ Popped = 0 /\ Evicted = {}
         \/ /\ Cardinality(DOMAIN writes) = MaxPending
            /\ Len(write_order) > 0 /\ Popped = 1 /\ Evicted = {write_order[1]}
<1> DEFINE C == Cardinality(DOMAIN writes)
<1>1. IsFiniteSet(DOMAIN writes) /\ C \in Nat /\ C <= MaxPending /\ MaxPending \in Nat \ {0}
  BY WritesFinite, PasteAssumption DEF LoopInv, PipesBounded, Accounted
<1>2. write_order \in Seq(Int) /\ Len(write_order) \in Nat
  BY DEF LoopInv, LoopOK
<1>3. DOMAIN writes \ {write_order[k] : k \in 1 .. 0} = DOMAIN writes
  OBVIOUS
<1>4. HasRoom(0) <=> Len(write_order) = 0 \/ C < MaxPending
  BY <1>2, <1>3 DEF HasRoom
<1>5. CASE C < MaxPending
  <2>1. Popped = 0
    BY <1>2, <1>4, <1>5 DEF Popped
  <2> QED
    BY <2>1, <1>5 DEF Evicted
<1>6. CASE C = MaxPending
  <2>1. DOMAIN writes # {}
    BY <1>1, <1>6, FS_EmptySet
  <2>2. Range(write_order) = DOMAIN writes
    BY DEF LoopInv, Accounted
  <2>3. Len(write_order) > 0
    BY <2>1, <2>2, <1>2 DEF Range
  <2>4. write_order[1] \in DOMAIN writes
    BY <2>2, <2>3, <1>2 DEF Range
  <2>5. {write_order[k] : k \in 1 .. 1} = {write_order[1]}
    OBVIOUS
  <2>6. Cardinality(DOMAIN writes \ {write_order[1]}) = C - 1
    BY <2>4, <1>1, FS_RemoveElement
  <2>7. HasRoom(1) /\ ~HasRoom(0)
    <3>1. Cardinality(DOMAIN writes \ {write_order[k] : k \in 1 .. 1}) = C - 1
      BY <2>5, <2>6
    <3>2. HasRoom(1)
      BY <3>1, <1>1, <1>6 DEF HasRoom
    <3> QED
      BY <3>2, <2>3, <1>1, <1>4, <1>6
  <2>8. Popped = 1
    <3>1. 1 \in 0 .. Len(write_order) /\ \A j \in 0 .. 1 - 1 : ~HasRoom(j)
      BY <2>3, <2>7, <1>2
    <3>2. \A k \in 0 .. Len(write_order) :
            HasRoom(k) /\ (\A j \in 0 .. k - 1 : ~HasRoom(j)) => k = 1
      BY <2>7, <1>2
    <3> QED
      BY <3>1, <3>2, <2>7 DEF Popped
  <2> QED
    BY <2>3, <2>5, <2>8, <1>6 DEF Evicted
<1> QED
  BY <1>1, <1>5, <1>6

(* What is left after make_room_for_a_write is in order and in agreement,  *)
(* with room for one more.                                                 *)
LEMMA RoomIsMade ==
  ASSUME LoopInv
  PROVE  LET waiting == SubSeq(write_order, Popped + 1, Len(write_order))
         IN  /\ waiting \in Seq(0 .. next_write - 1)
             /\ Increasing(waiting)
             /\ Range(waiting) = DOMAIN writes \ Evicted
             /\ IsFiniteSet(DOMAIN writes \ Evicted)
             /\ Cardinality(DOMAIN writes \ Evicted) \in 0 .. MaxPending - 1
<1> DEFINE n == next_write
           waiting == SubSeq(write_order, Popped + 1, Len(write_order))
<1>1. /\ n \in Nat /\ write_order \in Seq(0 .. n - 1) /\ Increasing(write_order)
      /\ Range(write_order) = DOMAIN writes
  BY DEF LoopInv, LoopOK, Accounted
<1>2. IsFiniteSet(DOMAIN writes) /\ Cardinality(DOMAIN writes) \in Nat /\ MaxPending \in Nat \ {0}
  BY WritesFinite, PasteAssumption
<1>3. CASE Popped = 0 /\ Evicted = {} /\ Cardinality(DOMAIN writes) < MaxPending
  <2>1. SubSeq(write_order, 1, Len(write_order)) = write_order
    BY <1>1, SubSeqFull
  <2>2. waiting = write_order
    BY <2>1, <1>3
  <2> HIDE DEF waiting
  <2>3. DOMAIN writes \ Evicted = DOMAIN writes
    BY <1>3
  <2>4. Cardinality(DOMAIN writes \ Evicted) \in 0 .. MaxPending - 1
    BY <2>3, <1>2, <1>3
  <2> QED
    BY <2>2, <2>3, <2>4, <1>1, <1>2 DEF waiting
<1>4. CASE /\ Popped = 1 /\ Len(write_order) > 0 /\ Evicted = {write_order[1]}
           /\ Cardinality(DOMAIN writes) = MaxPending
  <2>1. \A i \in 2 .. Len(write_order) : write_order[i] \in 0 .. n - 1
    BY <1>1
  <2>2. /\ waiting \in Seq(0 .. n - 1)
        /\ Len(waiting) = Len(write_order) - 1
        /\ \A i \in 1 .. Len(write_order) - 1 : waiting[i] = write_order[i + 1]
    <3>1. Len(write_order) \in Nat /\ Popped + 1 = 2
      BY <1>1, <1>4
    <3>2. /\ waiting \in Seq(0 .. n - 1)
          /\ Len(waiting) = IF 2 <= Len(write_order) THEN Len(write_order) - 2 + 1 ELSE 0
          /\ \A i \in 1 .. Len(write_order) - 2 + 1 : waiting[i] = write_order[2 + i - 1]
      <4> DEFINE tail == SubSeq(write_order, 2, Len(write_order))
      <4>1. /\ tail \in Seq(0 .. n - 1)
            /\ Len(tail) = IF 2 <= Len(write_order) THEN Len(write_order) - 2 + 1 ELSE 0
            /\ \A i \in 1 .. Len(write_order) - 2 + 1 : tail[i] = write_order[2 + i - 1]
        <5> HIDE DEF tail
        <5> QED
          BY <2>1, <3>1, SubSeqProperties DEF tail
      <4> QED
        BY <4>1, <3>1
    <3> HIDE DEF waiting
    <3>3. Len(waiting) = Len(write_order) - 1
      <4>1. Len(waiting) = IF 2 <= Len(write_order) THEN Len(write_order) - 2 + 1 ELSE 0
        BY <3>2
      <4>2. Len(write_order) > 0 /\ Len(write_order) \in Nat
        BY <1>4, <3>1
      <4>3. CASE Len(write_order) = 1
        BY <4>1, <4>3
      <4>4. CASE Len(write_order) >= 2
        BY <4>1, <4>2, <4>4
      <4>5. \A l \in Nat : l > 0 => l = 1 \/ l >= 2
        OBVIOUS
      <4> QED
        BY <4>2, <4>3, <4>4, <4>5
    <3>4. ASSUME NEW i \in 1 .. Len(write_order) - 1
          PROVE  waiting[i] = write_order[i + 1]
      <4>1. i \in 1 .. Len(write_order) - 2 + 1 /\ 2 + i - 1 = i + 1
        BY <3>1
      <4> QED
        BY <4>1, <3>2
    <3> QED
      BY <3>2, <3>3, <3>4
  <2> HIDE DEF waiting
  <2>0. /\ DOMAIN waiting = 1 .. Len(write_order) - 1 /\ DOMAIN write_order = 1 .. Len(write_order)
        /\ Len(write_order) \in Nat
    BY <2>2, <1>1
  <2>3. Increasing(waiting)
    <3> SUFFICES ASSUME NEW j \in 1 .. Len(write_order) - 1, NEW k \in 1 .. Len(write_order) - 1, j < k
                 PROVE  waiting[j] < waiting[k]
      BY <2>0 DEF Increasing
    <3>1. j + 1 \in DOMAIN write_order /\ k + 1 \in DOMAIN write_order /\ j + 1 < k + 1
      BY <2>0
    <3>2. write_order[j + 1] < write_order[k + 1]
      BY <3>1, <1>1 DEF Increasing
    <3> QED
      BY <3>2, <2>2
  <2>4. write_order[1] \in DOMAIN writes
    BY <1>1, <1>4 DEF Range
  <2>5. Range(waiting) = DOMAIN writes \ {write_order[1]}
    <3>1. \A i \in 2 .. Len(write_order) : write_order[i] # write_order[1]
      <4>1. \A i \in 2 .. Len(write_order) : write_order[1] < write_order[i] /\ write_order[i] \in Int
        BY <2>0, <1>1 DEF Increasing
      <4> QED
        BY <4>1, <1>1, <1>4
    <3>2. \A i \in 2 .. Len(write_order) : i - 1 \in DOMAIN waiting /\ waiting[i - 1] = write_order[i]
      <4> SUFFICES ASSUME NEW i \in 2 .. Len(write_order)
                   PROVE  i - 1 \in DOMAIN waiting /\ waiting[i - 1] = write_order[i]
        OBVIOUS
      <4>1. i - 1 \in 1 .. Len(write_order) - 1 /\ (i - 1) + 1 = i
        BY <2>0
      <4> QED
        BY <4>1, <2>2, <2>0
    <3>3. Range(waiting) \subseteq Range(write_order) \ {write_order[1]}
      <4> SUFFICES ASSUME NEW k \in 1 .. Len(write_order) - 1
                   PROVE  waiting[k] \in Range(write_order) \ {write_order[1]}
        BY <2>0 DEF Range
      <4>1. waiting[k] = write_order[k + 1] /\ k + 1 \in 2 .. Len(write_order)
        BY <2>2, <2>0
      <4> QED
        BY <4>1, <3>1, <2>0 DEF Range
    <3>4. Range(write_order) \ {write_order[1]} \subseteq Range(waiting)
      <4> SUFFICES ASSUME NEW i \in 1 .. Len(write_order), write_order[i] # write_order[1]
                   PROVE  write_order[i] \in Range(waiting)
        BY <2>0 DEF Range
      <4>1. i \in 2 .. Len(write_order)
        BY <2>0
      <4> QED
        BY <4>1, <3>2 DEF Range
    <3> QED
      BY <3>3, <3>4, <1>1
  <2>6. /\ IsFiniteSet(DOMAIN writes \ {write_order[1]})
        /\ Cardinality(DOMAIN writes \ {write_order[1]}) = MaxPending - 1
    BY <2>4, <1>2, <1>4, FS_RemoveElement
  <2> QED
    BY <2>2, <2>3, <2>5, <2>6, <1>2, <1>4 DEF waiting
<1> QED
  BY <1>3, <1>4, MakesRoomForOne

-----------------------------------------------------------------------------
(* Parking one more paste.                                                 *)
LEMMA ParkKeepsLoop ==
  ASSUME LoopInv, NEW r \in Requests, NEW source \in Sources,
         Pumped(r, source, 0) \in Nat, Park(r, source)
  PROVE  LoopInv'
<1> DEFINE n == next_write
           kept == DOMAIN writes \ Evicted
           waiting == SubSeq(write_order, Popped + 1, Len(write_order))
           write(timed) == [source |-> source, written |-> Pumped(r, source, 0), timed |-> timed]
<1>1. /\ waiting \in Seq(0 .. n - 1) /\ Increasing(waiting) /\ Range(waiting) = kept
      /\ IsFiniteSet(kept) /\ Cardinality(kept) \in 0 .. MaxPending - 1
  BY RoomIsMade
<1> HIDE DEF waiting
<1>2. /\ n \in Nat /\ kept \subseteq 0 .. n - 1 /\ DOMAIN loop = DOMAIN writes
      /\ writes \in [DOMAIN writes -> Write] /\ loop \in [DOMAIN loop -> Requests]
      /\ timers = {i \in DOMAIN writes : writes[i].timed}
  BY DEF LoopInv, LoopOK, Accounted
<1>3. next_write' = n + 1 /\ MaxPending \in Nat
  BY PasteAssumption DEF Park
<1>4. CASE \E timed \in BOOLEAN :
             /\ writes' = [i \in kept \cup {n} |-> IF i = n THEN write(timed) ELSE writes[i]]
             /\ write_order' = Append(waiting, n)
             /\ loop' = [i \in (DOMAIN loop \ Evicted) \cup {n} |-> IF i = n THEN r ELSE loop[i]]
             /\ timers' = (timers \ Evicted) \cup {i \in {n} : timed}
  <2> PICK timed \in BOOLEAN :
             /\ writes' = [i \in kept \cup {n} |-> IF i = n THEN write(timed) ELSE writes[i]]
             /\ write_order' = Append(waiting, n)
             /\ loop' = [i \in (DOMAIN loop \ Evicted) \cup {n} |-> IF i = n THEN r ELSE loop[i]]
             /\ timers' = (timers \ Evicted) \cup {i \in {n} : timed}
    BY <1>4
  <2>1. n \notin kept /\ DOMAIN loop' = kept \cup {n} /\ DOMAIN writes' = kept \cup {n}
    BY <1>2
  <2>2. writes' \in [DOMAIN writes' -> Write] /\ loop' \in [DOMAIN loop' -> Requests]
    BY <1>2, <2>1 DEF Write
  <2>3. waiting \in Seq(0 .. n) /\ n \in 0 .. n
    BY <1>1, <1>2, SeqMonotonic
  <2>4. /\ write_order' \in Seq(0 .. n) /\ Len(write_order') = Len(waiting) + 1
        /\ \A i \in 1 .. Len(waiting) : write_order'[i] = waiting[i]
        /\ write_order'[Len(waiting) + 1] = n
    BY <2>3, AppendProperties
  <2>5. (next_write - 1)' = n /\ 0 .. n - 1 \subseteq 0 .. n
    BY <1>2, <1>3
  <2>6. timers' = {i \in DOMAIN writes' : writes'[i].timed}
    <3>1. \A i \in kept : writes'[i] = writes[i]
      BY <2>1
    <3>2. writes'[n].timed = timed
      BY <2>1
    <3> QED
      BY <1>2, <2>1, <3>1, <3>2
  <2>7. LoopOK'
    BY <1>2, <1>3, <2>1, <2>2, <2>4, <2>5, <2>6 DEF LoopOK
  <2>8. \A i \in 1 .. Len(waiting) : waiting[i] \in 0 .. n - 1
    BY <1>1, ElementOfSeq
  <2>9. Increasing(write_order')
    <3> SUFFICES ASSUME NEW j \in 1 .. Len(waiting) + 1, NEW k \in 1 .. Len(waiting) + 1, j < k
                 PROVE  write_order'[j] < write_order'[k]
      BY <2>4 DEF Increasing
    <3>1. Len(waiting) \in Nat /\ DOMAIN waiting = 1 .. Len(waiting)
      BY <1>1
    <3>2. j \in 1 .. Len(waiting)
      BY <3>1
    <3>3. CASE k = Len(waiting) + 1
      BY <3>2, <3>3, <2>4, <2>8, <1>2
    <3>4. CASE k \in 1 .. Len(waiting)
      BY <3>1, <3>2, <3>4, <2>4, <1>1 DEF Increasing
    <3> QED
      BY <3>1, <3>3, <3>4
  <2>10. Range(write_order') = kept \cup {n}
    <3>1. DOMAIN waiting = 1 .. Len(waiting) /\ DOMAIN write_order' = 1 .. Len(waiting) + 1
          /\ Len(waiting) \in Nat
      BY <1>1, <2>4
    <3>2. Range(write_order') \subseteq Range(waiting) \cup {n}
      BY <3>1, <2>4 DEF Range
    <3>3. Range(waiting) \subseteq Range(write_order') /\ n \in Range(write_order')
      BY <3>1, <2>4 DEF Range
    <3> QED
      BY <3>2, <3>3, <1>1
  <2>11. Accounted'
    BY <2>1, <2>6, <2>9, <2>10 DEF Accounted, Increasing
  <2>12. Cardinality(kept \cup {n}) = Cardinality(kept) + 1
    BY <1>1, <2>1, FS_AddElement
  <2>13. PipesBounded'
    BY <2>1, <2>12, <1>1, <1>3 DEF PipesBounded
  <2> QED
    BY <2>7, <2>11, <2>13 DEF LoopInv
<1>5. CASE /\ writes' = Restrict(writes, kept)
           /\ write_order' = waiting
           /\ loop' = Restrict(loop, DOMAIN loop \ Evicted)
           /\ timers' = timers \ Evicted
  <2>1. DOMAIN writes' = kept /\ DOMAIN loop' = kept
    BY <1>2, <1>5 DEF Restrict
  <2>2. /\ writes' \in [DOMAIN writes' -> Write] /\ loop' \in [DOMAIN loop' -> Requests]
        /\ \A i \in kept : writes'[i] = writes[i]
    BY <1>2, <1>5, <2>1 DEF Restrict
  <2>3. timers' = {i \in DOMAIN writes' : writes'[i].timed}
    BY <1>2, <1>5, <2>1, <2>2
  <2>4. write_order' \in Seq(0 .. n) /\ (next_write - 1)' = n /\ 0 .. n - 1 \subseteq 0 .. n
    BY <1>1, <1>2, <1>3, <1>5, SeqMonotonic
  <2>5. LoopOK'
    BY <1>2, <1>3, <2>1, <2>2, <2>3, <2>4 DEF LoopOK
  <2>6. Accounted'
    BY <1>1, <1>5, <2>1, <2>3 DEF Accounted, Increasing
  <2>7. PipesBounded'
    BY <1>1, <1>3, <2>1 DEF PipesBounded
  <2> QED
    BY <2>5, <2>6, <2>7 DEF LoopInv
<1> QED
  BY <1>4, <1>5 DEF Park, waiting

(* Forgetting one.                                                         *)
LEMMA ForgetKeepsLoop ==
  ASSUME LoopInv, NEW id \in DOMAIN writes, ForgetWrite(id)
  PROVE  LoopInv'
<1> DEFINE n == next_write
           kept == DOMAIN writes \ {id}
<1>1. /\ n \in Nat /\ DOMAIN writes \subseteq 0 .. n - 1 /\ DOMAIN loop = DOMAIN writes
      /\ writes \in [DOMAIN writes -> Write] /\ loop \in [DOMAIN loop -> Requests]
      /\ timers = {i \in DOMAIN writes : writes[i].timed}
      /\ write_order \in Seq(0 .. n - 1) /\ Increasing(write_order)
      /\ Range(write_order) = DOMAIN writes
  BY DEF LoopInv, LoopOK, Accounted
<1>2. /\ writes' = Restrict(writes, kept) /\ loop' = Restrict(loop, DOMAIN loop \ {id})
      /\ timers' = timers \ {id} /\ next_write' = n
      /\ write_order' = Without(write_order, id)
  BY DEF ForgetWrite
<1>3. /\ write_order' \in Seq(0 .. n - 1) /\ Increasing(write_order') /\ Range(write_order') = kept
  BY <1>1, <1>2, WithoutKeepsOrder
<1>4. DOMAIN writes' = kept /\ DOMAIN loop' = kept
  BY <1>1, <1>2 DEF Restrict
<1>5. /\ writes' \in [DOMAIN writes' -> Write] /\ loop' \in [DOMAIN loop' -> Requests]
      /\ \A i \in kept : writes'[i] = writes[i]
  BY <1>1, <1>2, <1>4 DEF Restrict
<1>6. timers' = {i \in DOMAIN writes' : writes'[i].timed}
  BY <1>1, <1>2, <1>4, <1>5
<1>7. LoopOK'
  BY <1>1, <1>2, <1>3, <1>4, <1>5, <1>6 DEF LoopOK
<1>8. Accounted'
  BY <1>3, <1>4, <1>6 DEF Accounted, Increasing
<1>9. PipesBounded'
  <2>1. /\ IsFiniteSet(DOMAIN writes) /\ Cardinality(DOMAIN writes) \in Nat
        /\ Cardinality(DOMAIN writes) <= MaxPending
    BY WritesFinite, <1>1 DEF LoopInv, PipesBounded
  <2>2. Cardinality(kept) = Cardinality(DOMAIN writes) - 1
    BY <2>1, FS_RemoveElement
  <2> QED
    BY <1>4, <2>1, <2>2, PasteAssumption DEF PipesBounded
<1> QED
  BY <1>7, <1>8, <1>9 DEF LoopInv

-----------------------------------------------------------------------------
LEMMA BlobIsASequence ==
  ASSUME NEW source \in Sources
  PROVE  /\ Sizes[source] \in Nat
         /\ Blob(source) \in Seq(Sources \X Nat) /\ Len(Blob(source)) = Sizes[source]
<1>1. Sizes[source] \in Nat
  BY PasteAssumption DEF Sources
<1> QED
  BY <1>1 DEF Blob

(* A pipe that is given no more than it has room for is not overfilled.    *)
LEMMA StillFits ==
  ASSUME NEW w \in Nat, NEW p \in Nat, NEW room \in Nat, NEW read \in Nat,
         w - read \in 0 .. room, w <= p, p <= w + (room - (w - read))
  PROVE  p - read \in 0 .. room
OBVIOUS

(* A push takes a pipe further into its blob, and no further than it has   *)
(* room for.                                                               *)
LEMMA PushExtends ==
  ASSUME PipesOK, NEW r \in Requests, NEW source \in Sources,
         Len(sent[r]) <= Sizes[source],
         sent[r] = SubSeq(Blob(source), 1, Len(sent[r])),
         Push(r, source, Len(sent[r]))
  PROVE  /\ sent' \in [Requests -> Seq(Sources \X Nat)]
         /\ \A q \in Requests \ {r} : sent'[q] = sent[q]
         /\ Len(sent'[r]) = Pumped(r, source, Len(sent[r]))
         /\ Len(sent'[r]) \in 0 .. Sizes[source]
         /\ Len(sent'[r]) - drained[r] \in 0 .. Room
         /\ sent'[r] = SubSeq(Blob(source), 1, Len(sent'[r]))
<1> DEFINE w == Len(sent[r])
           p == Pumped(r, source, w)
           blob == Blob(source)
           got == SubSeq(blob, w + 1, p)
<1>1. /\ sent \in [Requests -> Seq(Sources \X Nat)] /\ w \in Nat /\ drained[r] \in Nat
      /\ w - drained[r] \in 0 .. Room /\ Room \in Nat
  BY PasteAssumption DEF PipesOK
<1>2. blob \in Seq(Sources \X Nat) /\ Len(blob) = Sizes[source] /\ Sizes[source] \in Nat
  BY BlobIsASequence
<1>3. Space(r) \in 0 .. Room /\ Space(r) = Room - (w - drained[r])
  BY <1>1 DEF Space
<1>4. p \in w .. Sizes[source] /\ p <= w + Space(r)
  <2> DEFINE size == Sizes[source]
             space == Space(r)
  <2>0. w \in Nat /\ size \in Nat /\ w <= size /\ space \in Nat
    BY <1>1, <1>2, <1>3
  <2> HIDE DEF w, size, space
  <2>1. p = IF r \in gone THEN w ELSE IF size <= w + space THEN size ELSE w + space
    BY DEF Pumped, Lesser, size, space
  <2> HIDE DEF p
  <2>2. p \in w .. size /\ p <= w + space
    BY <2>0, <2>1
  <2> QED
    BY <2>2 DEF size, space
<1>5. sent' = [sent EXCEPT ![r] = @ \o got]
  BY DEF Push
<1> HIDE DEF blob, p
<1>6. SubSeq(blob, 1, w) \o got = SubSeq(blob, 1, p)
  <2>1. /\ 1 \in 1 .. Len(blob) + 1 /\ w \in 1 - 1 .. Len(blob) /\ p \in w .. Len(blob)
    BY <1>1, <1>2, <1>4
  <2> HIDE DEF w
  <2> QED
    BY <2>1, <1>2, ConcatAdjacentSubSeq
<1>7. sent'[r] = SubSeq(blob, 1, p)
  BY <1>1, <1>5, <1>6 DEF blob
<1>8. SubSeq(blob, 1, p) \in Seq(Sources \X Nat) /\ Len(SubSeq(blob, 1, p)) = p
  <2>1. \A i \in 1 .. p : blob[i] \in Sources \X Nat
    BY <1>1, <1>2, <1>4, ElementOfSeq
  <2>2. p \in Nat
    BY <1>1, <1>4
  <2> QED
    BY <2>1, <2>2, SubSeqProperties
<1>9. sent' \in [Requests -> Seq(Sources \X Nat)]
  BY <1>1, <1>5, <1>7, <1>8
<1>10. Len(sent'[r]) - drained[r] \in 0 .. Room
  <2>1. p \in Nat /\ w <= p /\ p <= w + (Room - (w - drained[r]))
    BY <1>1, <1>2, <1>3, <1>4
  <2>2. p - drained[r] \in 0 .. Room
    BY <2>1, <1>1, StillFits
  <2> QED
    BY <2>2, <1>7, <1>8
<1>11. \A q \in Requests \ {r} : sent'[q] = sent[q]
  BY <1>1, <1>5
<1>12. Len(sent'[r]) = p /\ p \in 0 .. Sizes[source] /\ sent'[r] = SubSeq(blob, 1, Len(sent'[r]))
  BY <1>1, <1>2, <1>4, <1>7, <1>8
<1> QED
  BY <1>9, <1>10, <1>11, <1>12 DEF p, blob

(* source_send keeps the invariant.                                        *)
LEMMA SourceSendStep ==
  ASSUME IInv, NEW r \in Requests, NEW source \in Sources, SourceSend(r, source)
  PROVE  IInv'
<1>1. /\ PipesOK /\ LoopInv /\ BytesAreTheBlobs /\ PipesDistinct
      /\ asked[r] = 0 /\ source \in 1 .. sources
      /\ asked' = [asked EXCEPT ![r] = source]
      /\ UNCHANGED <<sources, offered, drained, gone>>
  BY DEF IInv, SourceSend
<1>2. /\ sent[r] = << >> /\ Len(sent[r]) = 0 /\ Len(sent[r]) <= Sizes[source]
      /\ sent[r] = SubSeq(Blob(source), 1, Len(sent[r]))
  <2>1. sent[r] = << >>
    BY <1>1 DEF BytesAreTheBlobs
  <2>2. Len(sent[r]) = 0 /\ Sizes[source] \in Nat
    BY <2>1, BlobIsASequence
  <2>3. SubSeq(Blob(source), 1, 0) = << >>
    BY SubSeqEmpty
  <2> QED
    BY <2>1, <2>2, <2>3
<1>3. /\ DOMAIN loop = DOMAIN writes /\ loop \in [DOMAIN loop -> Requests]
      /\ writes \in [DOMAIN writes -> Write]
      /\ next_write \in Nat /\ next_write \notin DOMAIN writes
      /\ \A i \in DOMAIN loop : loop[i] # r
  <2>1. /\ DOMAIN loop = DOMAIN writes /\ loop \in [DOMAIN loop -> Requests]
        /\ writes \in [DOMAIN writes -> Write]
        /\ next_write \in Nat /\ DOMAIN writes \subseteq 0 .. next_write - 1
    BY <1>1 DEF LoopInv, LoopOK, Accounted
  <2>2. \A i \in DOMAIN loop : writes[i].source = asked[loop[i]] /\ writes[i].source \in Sources
    BY <1>1, <2>1 DEF BytesAreTheBlobs, Write
  <2>3. 0 \notin Sources
    BY PasteAssumption DEF Sources
  <2> QED
    BY <1>1, <2>1, <2>2, <2>3
<1>4. asked' \in [Requests -> 0 .. sources'] /\ asked'[r] = source /\ source # 0
      /\ \A q \in Requests \ {r} : asked'[q] = asked[q]
  BY <1>1 DEF PipesOK
<1>5. CASE UNCHANGED <<sent, loopVars>>
  <2>1. PipesOK'
    BY <1>1, <1>4, <1>5 DEF PipesOK
  <2>2. LoopInv'
    BY <1>1, <1>5 DEF LoopInv, LoopOK, Accounted, PipesBounded, Increasing, loopVars
  <2>3. BytesAreTheBlobs'
    <3>1. \A q \in Requests :
            IF asked'[q] = 0 THEN sent[q] = << >>
            ELSE Len(sent[q]) <= Sizes[asked'[q]] /\ sent[q] = SubSeq(Blob(asked'[q]), 1, Len(sent[q]))
      BY <1>1, <1>2, <1>4 DEF BytesAreTheBlobs
    <3>2. \A i \in DOMAIN writes \cap DOMAIN loop :
            writes[i].source = asked'[loop[i]] /\ writes[i].written = Len(sent[loop[i]])
      BY <1>1, <1>3, <1>4 DEF BytesAreTheBlobs
    <3> QED
      BY <3>1, <3>2, <1>5 DEF BytesAreTheBlobs, loopVars, Blob
  <2>4. PipesDistinct'
    BY <1>1, <1>5 DEF PipesDistinct, loopVars
  <2> QED
    BY <2>1, <2>2, <2>3, <2>4 DEF IInv
<1>6. CASE Push(r, source, 0) /\ (UNCHANGED loopVars \/ Park(r, source))
  <2>1. /\ sent' \in [Requests -> Seq(Sources \X Nat)]
        /\ \A q \in Requests \ {r} : sent'[q] = sent[q]
        /\ Len(sent'[r]) = Pumped(r, source, 0)
        /\ Len(sent'[r]) \in 0 .. Sizes[source] /\ Len(sent'[r]) - drained[r] \in 0 .. Room
        /\ sent'[r] = SubSeq(Blob(source), 1, Len(sent'[r]))
    BY <1>1, <1>2, <1>6, PushExtends
  <2>2. PipesOK'
    BY <1>1, <1>4, <2>1 DEF PipesOK
  <2>3. \A q \in Requests :
          IF asked'[q] = 0 THEN sent'[q] = << >>
          ELSE Len(sent'[q]) <= Sizes[asked'[q]] /\ sent'[q] = SubSeq(Blob(asked'[q]), 1, Len(sent'[q]))
    <3>1. \A q \in Requests \ {r} :
            IF asked[q] = 0 THEN sent[q] = << >>
            ELSE Len(sent[q]) <= Sizes[asked[q]] /\ sent[q] = SubSeq(Blob(asked[q]), 1, Len(sent[q]))
      BY <1>1 DEF BytesAreTheBlobs
    <3>2. Len(sent'[r]) <= Sizes[source]
      BY <2>1
    <3> QED
      BY <3>1, <3>2, <1>4, <2>1
  <2>4. Pumped(r, source, 0) \in Nat
    BY <2>1
  <2>5. LoopInv'
    <3>1. CASE UNCHANGED loopVars
      BY <1>1, <3>1 DEF LoopInv, LoopOK, Accounted, PipesBounded, Increasing, loopVars
    <3>2. CASE Park(r, source)
      BY <1>1, <2>4, <3>2, ParkKeepsLoop
    <3> QED
      BY <1>6, <3>1, <3>2
  <2>6. \A i \in DOMAIN loop' \cap DOMAIN writes' :
          \/ i \in DOMAIN loop /\ i \in DOMAIN writes /\ loop'[i] = loop[i] /\ writes'[i] = writes[i]
          \/ /\ i = next_write /\ loop'[i] = r
             /\ writes'[i].source = source /\ writes'[i].written = Pumped(r, source, 0)
    <3>1. CASE UNCHANGED loopVars
      BY <3>1 DEF loopVars
    <3>2. CASE Park(r, source)
      <4> DEFINE write(timed) == [source |-> source, written |-> Pumped(r, source, 0), timed |-> timed]
      <4>1. CASE \E timed \in BOOLEAN :
                   /\ writes' = [i \in (DOMAIN writes \ Evicted) \cup {next_write} |->
                                   IF i = next_write THEN write(timed) ELSE writes[i]]
                   /\ loop' = [i \in (DOMAIN loop \ Evicted) \cup {next_write} |->
                                   IF i = next_write THEN r ELSE loop[i]]
        BY <4>1
      <4>2. CASE writes' = Restrict(writes, DOMAIN writes \ Evicted)
                 /\ loop' = Restrict(loop, DOMAIN loop \ Evicted)
        BY <4>2 DEF Restrict
      <4> QED
        BY <3>2, <4>1, <4>2 DEF Park
    <3> QED
      BY <1>6, <3>1, <3>2
  <2>7. DOMAIN loop' = DOMAIN writes'
    BY <2>5 DEF LoopInv, Accounted
  <2>8. BytesAreTheBlobs'
    <3>1. \A i \in DOMAIN writes \cap DOMAIN loop :
            writes[i].source = asked[loop[i]] /\ writes[i].written = Len(sent[loop[i]])
      BY <1>1 DEF BytesAreTheBlobs
    <3>2. \A i \in DOMAIN writes' \cap DOMAIN loop' :
            writes'[i].source = asked'[loop'[i]] /\ writes'[i].written = Len(sent'[loop'[i]])
      <4> SUFFICES ASSUME NEW i \in DOMAIN writes' \cap DOMAIN loop'
                   PROVE  writes'[i].source = asked'[loop'[i]] /\ writes'[i].written = Len(sent'[loop'[i]])
        OBVIOUS
      <4>1. CASE /\ i \in DOMAIN loop /\ i \in DOMAIN writes
                 /\ loop'[i] = loop[i] /\ writes'[i] = writes[i]
        <5>1. loop[i] \in Requests \ {r}
          BY <4>1, <1>3
        <5>2. asked'[loop[i]] = asked[loop[i]] /\ sent'[loop[i]] = sent[loop[i]]
          BY <5>1, <2>1, <1>4
        <5>3. writes[i].source = asked[loop[i]] /\ writes[i].written = Len(sent[loop[i]])
          BY <4>1, <3>1
        <5>4. writes'[i].source = asked'[loop'[i]]
          BY <4>1, <5>2, <5>3
        <5>5. writes'[i].written = Len(sent'[loop'[i]])
          BY <4>1, <5>2, <5>3
        <5> QED
          BY <5>4, <5>5
      <4>2. CASE /\ i = next_write /\ loop'[i] = r
                 /\ writes'[i].source = source /\ writes'[i].written = Pumped(r, source, 0)
        BY <4>2, <2>1, <1>4
      <4> QED
        BY <4>1, <4>2, <2>6
    <3> QED
      BY <2>3, <3>2 DEF BytesAreTheBlobs, Blob
  <2>9. PipesDistinct'
    BY <1>1, <1>3, <2>6, <2>7 DEF PipesDistinct
  <2> QED
    BY <2>2, <2>5, <2>8, <2>9 DEF IInv
<1> QED
  BY <1>5, <1>6 DEF SourceSend, BeginWrite

(* on_write_ready keeps it.                                                *)
LEMMA WriteReadyStep ==
  ASSUME IInv, NEW id \in Ids, OnWriteReady(id)
  PROVE  IInv'
<1> DEFINE r == loop[id]
           source == writes[id].source
           w == writes[id].written
<1>1. /\ PipesOK /\ LoopInv /\ BytesAreTheBlobs /\ PipesDistinct
      /\ id \in DOMAIN loop /\ DOMAIN loop = DOMAIN writes
      /\ loop \in [DOMAIN loop -> Requests] /\ writes \in [DOMAIN writes -> Write]
      /\ UNCHANGED <<sources, offered, asked, drained, gone>>
  BY DEF IInv, LoopInv, LoopOK, Accounted, OnWriteReady
<1>2. /\ r \in Requests /\ source = asked[r] /\ source \in Sources /\ w = Len(sent[r])
  BY <1>1 DEF BytesAreTheBlobs, Write
<1>3. source # 0
  BY <1>2, PasteAssumption DEF Sources
<1>4. Len(sent[r]) <= Sizes[source] /\ sent[r] = SubSeq(Blob(source), 1, Len(sent[r]))
  BY <1>1, <1>2, <1>3 DEF BytesAreTheBlobs
<1>5. /\ Push(r, source, w)
      /\ \/ /\ writes' = [writes EXCEPT ![id].written = Pumped(r, source, w)]
            /\ UNCHANGED <<write_order, next_write, loop, timers>>
         \/ ForgetWrite(id)
  BY <1>1 DEF OnWriteReady
<1>6. /\ sent' \in [Requests -> Seq(Sources \X Nat)]
      /\ \A q \in Requests \ {r} : sent'[q] = sent[q]
      /\ Len(sent'[r]) = Pumped(r, source, w)
      /\ Len(sent'[r]) \in 0 .. Sizes[source] /\ Len(sent'[r]) - drained[r] \in 0 .. Room
      /\ sent'[r] = SubSeq(Blob(source), 1, Len(sent'[r]))
  BY <1>1, <1>2, <1>4, <1>5, PushExtends
<1> HIDE DEF r, source, w
<1>7. PipesOK'
  BY <1>1, <1>2, <1>6 DEF PipesOK
<1>8. \A q \in Requests :
        IF asked[q] = 0 THEN sent'[q] = << >>
        ELSE Len(sent'[q]) <= Sizes[asked[q]] /\ sent'[q] = SubSeq(Blob(asked[q]), 1, Len(sent'[q]))
  <2>1. \A q \in Requests \ {r} :
          IF asked[q] = 0 THEN sent[q] = << >>
          ELSE Len(sent[q]) <= Sizes[asked[q]] /\ sent[q] = SubSeq(Blob(asked[q]), 1, Len(sent[q]))
    BY <1>1 DEF BytesAreTheBlobs
  <2>2. Len(sent'[r]) <= Sizes[source]
    BY <1>6
  <2> QED
    BY <2>1, <2>2, <1>2, <1>3, <1>6
<1>9. CASE /\ writes' = [writes EXCEPT ![id].written = Pumped(r, source, w)]
           /\ UNCHANGED <<write_order, next_write, loop, timers>>
  <2>1. Pumped(r, source, w) \in Nat
    BY <1>6
  <2>2. /\ DOMAIN writes' = DOMAIN writes /\ writes' \in [DOMAIN writes -> Write]
        /\ \A i \in DOMAIN writes : /\ writes'[i].timed = writes[i].timed
                                    /\ writes'[i].source = writes[i].source
        /\ \A i \in DOMAIN writes \ {id} : writes'[i].written = writes[i].written
        /\ writes'[id].written = Pumped(r, source, w)
    BY <1>1, <1>9, <2>1 DEF Write
  <2>3. LoopOK'
    BY <1>1, <1>9, <2>2 DEF LoopInv, LoopOK
  <2>4. Accounted' /\ PipesBounded'
    BY <1>1, <1>9, <2>2 DEF LoopInv, Accounted, Increasing, PipesBounded
  <2>5. \A i \in DOMAIN writes \cap DOMAIN loop :
          writes'[i].source = asked[loop[i]] /\ writes'[i].written = Len(sent'[loop[i]])
    <3> SUFFICES ASSUME NEW i \in DOMAIN writes \cap DOMAIN loop
                 PROVE  writes'[i].source = asked[loop[i]] /\ writes'[i].written = Len(sent'[loop[i]])
      OBVIOUS
    <3>1. writes[i].source = asked[loop[i]] /\ writes[i].written = Len(sent[loop[i]])
      BY <1>1 DEF BytesAreTheBlobs
    <3>2. CASE i = id
      BY <3>1, <3>2, <1>6, <2>2 DEF r
    <3>3. CASE i # id
      <4>1. loop[i] \in Requests \ {r}
        BY <3>3, <1>1 DEF PipesDistinct, r
      <4>2. sent'[loop[i]] = sent[loop[i]]
        BY <4>1, <1>6
      <4> QED
        BY <3>1, <3>3, <4>2, <2>2
    <3> QED
      BY <3>2, <3>3
  <2>6. BytesAreTheBlobs'
    <3>1. DOMAIN writes' \cap DOMAIN loop' = DOMAIN writes \cap DOMAIN loop /\ loop' = loop
      BY <1>9, <2>2
    <3> QED
      BY <1>1, <1>8, <2>5, <3>1 DEF BytesAreTheBlobs
  <2>7. PipesDistinct'
    BY <1>1, <1>9 DEF PipesDistinct
  <2> QED
    BY <1>7, <2>3, <2>4, <2>6, <2>7 DEF IInv, LoopInv
<1>10. CASE ForgetWrite(id)
  <2>1. LoopInv'
    BY <1>1, <1>10, ForgetKeepsLoop
  <2>2. /\ DOMAIN loop' = DOMAIN loop \ {id} /\ DOMAIN writes' = DOMAIN writes \ {id}
        /\ \A i \in DOMAIN loop \ {id} : loop'[i] = loop[i] /\ writes'[i] = writes[i]
    BY <1>1, <1>10 DEF ForgetWrite, Restrict
  <2>3. \A i \in DOMAIN writes' \cap DOMAIN loop' :
          writes'[i].source = asked[loop'[i]] /\ writes'[i].written = Len(sent'[loop'[i]])
    <3> SUFFICES ASSUME NEW i \in DOMAIN loop \ {id}
                 PROVE  writes[i].source = asked[loop[i]] /\ writes[i].written = Len(sent'[loop[i]])
      BY <2>2
    <3>1. writes[i].source = asked[loop[i]] /\ writes[i].written = Len(sent[loop[i]])
      BY <1>1 DEF BytesAreTheBlobs
    <3>2. loop[i] \in Requests \ {r}
      BY <1>1 DEF PipesDistinct, r
    <3>3. sent'[loop[i]] = sent[loop[i]]
      BY <3>2, <1>6
    <3> QED
      BY <3>1, <3>3
  <2>4. BytesAreTheBlobs'
    BY <1>1, <1>8, <2>3 DEF BytesAreTheBlobs, Blob
  <2>5. PipesDistinct'
    BY <1>1, <2>2 DEF PipesDistinct
  <2> QED
    BY <1>7, <2>1, <2>4, <2>5 DEF IInv
<1> QED
  BY <1>5, <1>9, <1>10 DEF r, source, w

(* on_write_timeout keeps it.                                              *)
LEMMA WriteTimeoutStep ==
  ASSUME IInv, NEW id \in Ids, OnWriteTimeout(id)
  PROVE  IInv'
<1>1. /\ PipesOK /\ LoopInv /\ BytesAreTheBlobs /\ PipesDistinct
      /\ DOMAIN loop = DOMAIN writes /\ id \in DOMAIN writes
      /\ ForgetWrite(id) /\ UNCHANGED <<sources, offered, pipeVars>>
  BY DEF IInv, LoopInv, Accounted, OnWriteTimeout
<1>2. LoopInv'
  BY <1>1, ForgetKeepsLoop
<1>3. PipesOK'
  BY <1>1 DEF PipesOK, pipeVars
<1>4. /\ DOMAIN loop' = DOMAIN loop \ {id} /\ DOMAIN writes' = DOMAIN writes \ {id}
      /\ \A i \in DOMAIN loop \ {id} : loop'[i] = loop[i] /\ writes'[i] = writes[i]
  BY <1>1 DEF ForgetWrite, Restrict
<1>5. BytesAreTheBlobs'
  BY <1>1, <1>4 DEF BytesAreTheBlobs, pipeVars
<1>6. PipesDistinct'
  BY <1>1, <1>4 DEF PipesDistinct
<1> QED
  BY <1>2, <1>3, <1>5, <1>6 DEF IInv

(* The steps that leave the parked pastes alone.                           *)
LEMMA OtherSteps ==
  ASSUME IInv, UNCHANGED <<loopVars, sent>>, PipesOK', asked' = asked
  PROVE  IInv'
BY DEF IInv, LoopInv, LoopOK, Accounted, Increasing, PipesBounded, BytesAreTheBlobs, PipesDistinct,
       loopVars

THEOREM Invariance == Spec => []IInv
<1>1. Init => IInv
  <2> SUFFICES ASSUME Init
               PROVE  IInv
    OBVIOUS
  <2>1. /\ DOMAIN writes = {} /\ DOMAIN loop = {} /\ timers = {} /\ next_write = 0
        /\ write_order = << >> /\ Len(write_order) = 0 /\ Range(write_order) = {}
    BY DEF Init, Range
  <2>2. PipesOK
    BY PasteAssumption DEF Init, PipesOK
  <2>3. LoopOK
    BY <2>1 DEF LoopOK, Init
  <2>4. Accounted
    BY <2>1 DEF Accounted, Increasing
  <2>5. PipesBounded
    BY <2>1, FS_EmptySet, PasteAssumption DEF PipesBounded
  <2>6. BytesAreTheBlobs
    BY <2>1 DEF BytesAreTheBlobs, Init
  <2> QED
    BY <2>1, <2>2, <2>3, <2>4, <2>5, <2>6 DEF IInv, LoopInv, PipesDistinct
<1>2. IInv /\ [Next]_vars => IInv'
  <2> SUFFICES ASSUME IInv, [Next]_vars
               PROVE  IInv'
    OBVIOUS
  <2>0. PipesOK
    BY DEF IInv
  <2>1. CASE TakeSelection
    <3>1. PipesOK'
      BY <2>0, <2>1, PasteAssumption DEF PipesOK, TakeSelection, pipeVars
    <3> QED
      BY <2>1, <3>1, OtherSteps DEF TakeSelection, pipeVars
  <2>2. ASSUME NEW source \in Sources, SourceCancelled(source)
        PROVE  IInv'
    <3>1. PipesOK'
      BY <2>0, <2>2 DEF PipesOK, SourceCancelled, pipeVars
    <3> QED
      BY <2>2, <3>1, OtherSteps DEF SourceCancelled, pipeVars
  <2>3. ASSUME NEW r \in Requests, AppReads(r)
        PROVE  IInv'
    <3>1. PipesOK'
      <4>0. \A q \in Requests : Len(sent[q]) \in Nat
        BY <2>0, LenProperties DEF PipesOK
      <4>1. /\ drained \in [Requests -> Nat] /\ Room \in Nat
            /\ \A q \in Requests : Len(sent[q]) \in Nat /\ Len(sent[q]) - drained[q] \in 0 .. Room
            /\ drained[r] < Len(sent[r]) /\ drained' = [drained EXCEPT ![r] = @ + 1]
        <5>1. \A q \in Requests : Len(sent[q]) - drained[q] \in 0 .. Room
          BY <2>0 DEF PipesOK
        <5>2. drained \in [Requests -> Nat] /\ Room \in Nat
          BY <2>0, PasteAssumption DEF PipesOK
        <5> QED
          BY <5>1, <5>2, <4>0, <2>3 DEF AppReads
      <4>2. drained' \in [Requests -> Nat]
        BY <4>1
      <4>3. ASSUME NEW q \in Requests
            PROVE  Len(sent[q]) - drained'[q] \in 0 .. Room
        <5>1. CASE q = r
          BY <5>1, <4>1
        <5>2. CASE q # r
          BY <5>2, <4>1
        <5> QED
          BY <5>1, <5>2
      <4> QED
        BY <2>0, <2>3, <4>2, <4>3 DEF PipesOK, AppReads
    <3> QED
      BY <2>3, <3>1, OtherSteps DEF AppReads
  <2>4. ASSUME NEW r \in Requests, AppCloses(r)
        PROVE  IInv'
    <3>1. PipesOK'
      BY <2>0, <2>4 DEF PipesOK, AppCloses
    <3> QED
      BY <2>4, <3>1, OtherSteps DEF AppCloses
  <2>5. CASE UNCHANGED vars
    <3>1. PipesOK'
      BY <2>0, <2>5 DEF PipesOK, vars, pipeVars
    <3> QED
      BY <2>5, <3>1, OtherSteps DEF vars, pipeVars
  <2> QED
    BY <2>1, <2>2, <2>3, <2>4, <2>5, SourceSendStep, WriteReadyStep, WriteTimeoutStep
    DEF Next, WatcherNext
<1> QED
  BY <1>1, <1>2, PTL DEF Spec

(* For every limit, blob and pipe, and whether or not registrations fail,  *)
(* no state of the pastes has the wrong shape and no pipe is overfilled.   *)
THEOREM TypeCorrect == Spec => []TypeOK
<1>1. IInv => TypeOK
  BY DEF IInv, LoopInv, TypeOK
<1> QED
  BY <1>1, Invariance, PTL

(* The map, the queue and the loop never come apart, the agreement that    *)
(* make_room_for_a_write only asserts in debug builds; and clippo never    *)
(* holds more than max_pending_pastes pipes for readers that do not read.  *)
THEOREM AlwaysAccounted == Spec => []PastesAreAccounted
<1>1. IInv => PastesAreAccounted
  BY DEF IInv, LoopInv, PastesAreAccounted
<1> QED
  BY <1>1, Invariance, PTL

(* What an application reads is the start of the blob it asked for,        *)
(* whatever clippo came to offer in the meantime.                          *)
THEOREM AlwaysTheBlobs == Spec => []BytesAreTheBlobs
<1>1. IInv => BytesAreTheBlobs
  BY DEF IInv
<1> QED
  BY <1>1, Invariance, PTL

(* A paste never ends for one that could have waited beside it: a step     *)
(* that drops a parked paste has written it, found its reader gone, run    *)
(* its timer, or made room in a full queue by dropping its front.          *)
THEOREM NoneIsDroppedEarly == Spec => EndsForAReason
<1> DEFINE Reason(id) ==
             \/ Len(sent'[loop[id]]) = Sizes[asked[loop[id]]]
             \/ loop[id] \in gone
             \/ id \in timers /\ next_write' = next_write
             \/ /\ next_write' = next_write + 1
                /\ Cardinality(DOMAIN loop) = MaxPending
                /\ \A other \in DOMAIN loop : id <= other
<1>1. ASSUME IInv, Next, NEW id \in DOMAIN loop \ DOMAIN loop'
      PROVE  Reason(id)
  <2>0. /\ PipesOK /\ LoopInv /\ BytesAreTheBlobs
        /\ DOMAIN loop = DOMAIN writes /\ loop \in [DOMAIN loop -> Requests]
        /\ writes \in [DOMAIN writes -> Write]
    BY <1>1 DEF IInv, LoopInv, LoopOK, Accounted
  <2>1. ASSUME NEW r \in Requests, NEW source \in Sources, SourceSend(r, source)
        PROVE  Reason(id)
    <3>1. Park(r, source)
      BY <1>1, <2>1 DEF SourceSend, BeginWrite, loopVars
    <3>2. id \in Evicted /\ next_write' = next_write + 1
      <4>1. /\ next_write' = next_write + 1
            /\ \/ DOMAIN loop' = (DOMAIN loop \ Evicted) \cup {next_write}
               \/ DOMAIN loop' = DOMAIN loop \cap (DOMAIN loop \ Evicted)
        BY <3>1 DEF Park, Restrict
      <4> QED
        BY <1>1, <4>1
    <3>3. Cardinality(DOMAIN loop) = MaxPending /\ id = write_order[1]
      BY <2>0, <3>2, MakesRoomForOne
    <3>4. /\ write_order \in Seq(0 .. next_write - 1) /\ Increasing(write_order)
          /\ Range(write_order) = DOMAIN loop /\ next_write \in Nat
      BY <2>0 DEF LoopInv, LoopOK, Accounted
    <3>5. ASSUME NEW other \in DOMAIN loop
          PROVE  id <= other
      <4>1. PICK k \in DOMAIN write_order : write_order[k] = other
        BY <3>4 DEF Range
      <4>2. 1 \in DOMAIN write_order /\ k \in Nat /\ k >= 1 /\ id \in Int /\ other \in Int
        BY <3>3, <3>4, <4>1
      <4>3. CASE k = 1
        BY <4>1, <4>2, <4>3, <3>3
      <4>4. CASE k > 1
        <5>1. write_order[1] < write_order[k]
          BY <4>2, <4>4, <3>4 DEF Increasing
        <5> QED
          BY <5>1, <4>1, <4>2, <3>3
      <4> QED
        BY <4>2, <4>3, <4>4
    <3> QED
      BY <3>2, <3>3, <3>5
  <2>2. ASSUME NEW i \in Ids, OnWriteReady(i)
        PROVE  Reason(id)
    <3> DEFINE r == loop[i]
               source == writes[i].source
               w == writes[i].written
    <3>1. i = id /\ i \in DOMAIN writes
      BY <1>1, <2>0, <2>2 DEF OnWriteReady, ForgetWrite, Restrict
    <3>2. /\ source = asked[r] /\ source \in Sources /\ r \in Requests /\ w = Len(sent[r])
      BY <2>0, <3>1 DEF BytesAreTheBlobs, Write
    <3>3. source # 0 /\ Sizes[source] \in Nat
      BY <3>2, BlobIsASequence, PasteAssumption DEF Sources
    <3>4. Len(sent[r]) <= Sizes[source] /\ sent[r] = SubSeq(Blob(source), 1, Len(sent[r]))
      BY <2>0, <3>2, <3>3 DEF BytesAreTheBlobs
    <3>5. Push(r, source, w) /\ ~Blocks(r, source, w)
      BY <1>1, <2>2, <3>1 DEF OnWriteReady
    <3>6. Len(sent'[r]) = Pumped(r, source, w) /\ Len(sent'[r]) \in 0 .. Sizes[source]
      BY <2>0, <3>2, <3>4, <3>5, PushExtends
    <3>7. r \in gone \/ Pumped(r, source, w) = Sizes[source]
      BY <3>3, <3>5, <3>6 DEF Blocks
    <3> QED
      BY <3>1, <3>2, <3>6, <3>7
  <2>3. ASSUME NEW i \in Ids, OnWriteTimeout(i)
        PROVE  Reason(id)
    <3>1. i \in timers /\ ForgetWrite(i)
      BY <2>0, <2>3 DEF OnWriteTimeout, LoopInv, Accounted
    <3>2. i = id
      BY <1>1, <3>1 DEF ForgetWrite, Restrict
    <3> QED
      BY <3>1, <3>2 DEF ForgetWrite
  <2>4. CASE TakeSelection \/ \E s \in Sources : SourceCancelled(s)
    BY <1>1, <2>4 DEF TakeSelection, SourceCancelled, loopVars
  <2>5. CASE \E r \in Requests : AppReads(r) \/ AppCloses(r)
    BY <1>1, <2>5 DEF AppReads, AppCloses, loopVars
  <2> QED
    BY <1>1, <2>1, <2>2, <2>3, <2>4, <2>5 DEF Next, WatcherNext
<1>2. IInv /\ [Next]_vars => [\A id \in DOMAIN loop \ DOMAIN loop' : Reason(id)]_vars
  BY <1>1
<1> QED
  BY <1>2, Invariance, PTL DEF Spec, EndsForAReason
=============================================================================
