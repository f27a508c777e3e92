--------------------------- MODULE WatcherProofs ---------------------------
(***************************************************************************)
(* What holds of Watcher for every set of flavors, every cap and channel,  *)
(* and whether or not pipes and registrations fail: its bookkeeping agrees *)
(* with the event loop, and it implements Capture, the promise clippod     *)
(* relies on.                                                              *)
(***************************************************************************)
EXTENDS Watcher, FiniteSetTheorems, SequenceTheorems, TLAPS

Event == [of : Generations, slots : UNION {[S -> Flavor] : S \in SUBSET Mimes}]

IInv ==
  /\ TypeOK /\ events \in Seq(Event)
  /\ NothingStale /\ PendingIsOpen /\ OneEventEachInOrder

Told == [k \in DOMAIN events |-> events[k].of]

(* With the sources and the timer of the pending selection out, the loop   *)
(* is empty.                                                               *)
LEMMA ClearedIsEmpty ==
  ASSUME NothingStale
  PROVE  Cleared.reads = {} /\ Cleared.timers = {}
BY DEF NothingStale, Cleared

-----------------------------------------------------------------------------
(* Telling the daemon of a selection newer than those in the channel.      *)
LEMMA EmitInOrder ==
  ASSUME events \in Seq(Event), Len(events) <= Capacity,
         \A j, k \in DOMAIN events : j < k => events[j].of < events[k].of,
         NEW g \in Generations, \A k \in DOMAIN events : events[k].of < g,
         NEW content, AreSlots(content), Emit(Captured(g, content))
  PROVE  /\ events' \in Seq(Event) /\ Len(events') <= Capacity
         /\ \A j, k \in DOMAIN events' : j < k => events'[j].of < events'[k].of
         /\ \A k \in DOMAIN events' : events'[k].of <= g
         /\ Told' = IF Len(Told) < Capacity THEN Append(Told, g) ELSE Told
<1> DEFINE event == Captured(g, content)
           n == Len(events)
<1>1. event \in Event /\ event.of = g
  BY DEF Captured, Event, AreSlots
<1>2. /\ n \in Nat /\ DOMAIN events = 1 .. n /\ Capacity \in Nat /\ g \in Nat
      /\ \A k \in 1 .. n : events[k].of \in Nat
  <2>1. \A k \in 1 .. n : events[k] \in Event
    BY ElementOfSeq
  <2> QED
    BY <2>1, WatcherAssumption DEF Event, Generations
<1>3. Told \in Seq(Nat) /\ Len(Told) = n /\ DOMAIN Told = 1 .. n
  BY <1>2 DEF Told
<1> HIDE DEF event
<1>4. CASE n < Capacity
  <2>1. events' = Append(events, event)
    BY <1>4 DEF Emit, event
  <2>2. /\ events' \in Seq(Event) /\ Len(events') = n + 1 /\ DOMAIN events' = 1 .. n + 1
        /\ \A k \in 1 .. n : events'[k] = events[k]
        /\ events'[n + 1] = event
    BY <2>1, <1>1, <1>2, AppendProperties
  <2>3. ASSUME NEW j \in 1 .. n + 1, NEW k \in 1 .. n + 1, j < k
        PROVE  events'[j].of < events'[k].of
    <3>1. j \in 1 .. n
      BY <2>3, <1>2
    <3>2. CASE k = n + 1
      BY <3>1, <3>2, <2>2, <1>1, <1>2
    <3>3. CASE k \in 1 .. n
      BY <3>1, <3>3, <2>2, <2>3, <1>2
    <3> QED
      BY <3>2, <3>3, <1>2
  <2>4. ASSUME NEW k \in 1 .. n + 1
        PROVE  events'[k].of <= g
    <3>1. CASE k = n + 1
      BY <3>1, <2>2, <1>1, <1>2
    <3>2. CASE k \in 1 .. n
      BY <3>2, <2>2, <1>2
    <3> QED
      BY <3>1, <3>2, <1>2
  <2>5. Told' = Append(Told, g)
    <3> DEFINE app == Append(Told, g)
    <3>1. Told' = [k \in 1 .. n + 1 |-> events'[k].of]
      BY <2>2 DEF Told
    <3>2. /\ app \in Seq(Nat) /\ Len(app) = n + 1 /\ app[n + 1] = g
          /\ \A k \in 1 .. n : app[k] = Told[k]
      BY <1>2, <1>3, AppendProperties
    <3> HIDE DEF app
    <3>3. ASSUME NEW k \in 1 .. n + 1
          PROVE  app[k] = events'[k].of
      <4>1. CASE k = n + 1
        BY <4>1, <3>2, <2>2, <1>1
      <4>2. CASE k \in 1 .. n
        BY <4>2, <3>2, <2>2, <1>2 DEF Told
      <4> QED
        BY <4>1, <4>2, <1>2
    <3>4. app = [k \in 1 .. n + 1 |-> app[k]]
      BY <3>2, <1>2
    <3>5. app = Told'
      BY <3>1, <3>3, <3>4
    <3> QED
      BY <3>5 DEF app
  <2> QED
    BY <2>2, <2>3, <2>4, <2>5, <1>2, <1>3, <1>4
<1>5. CASE ~(n < Capacity)
  BY <1>2, <1>3, <1>5 DEF Emit, Told
<1> QED
  BY <1>4, <1>5

(* When nothing is pending and nothing in the loop, the bookkeeping is     *)
(* trivially in agreement.                                                 *)
LEMMA EndedIsQuiet ==
  ASSUME NothingPending, reads' = {}, timers' = {}
  PROVE  /\ AreSlots(slots)' /\ NothingStale' /\ PendingIsOpen' /\ open' \in Nat
         /\ pending' = 0 /\ read_tokens' \subseteq DOMAIN slots' /\ timeout_token' \in BOOLEAN
<1>1. pending' = 0 /\ DOMAIN slots' = {} /\ open' = 0 /\ read_tokens' = {} /\ timeout_token' = FALSE
  BY DEF NothingPending
<1>2. Cardinality({}) = 0
  BY FS_EmptySet
<1>3. AreSlots(slots)'
  <2>1. slots' = << >> /\ << >> \in [{} -> Flavor]
    BY DEF NothingPending
  <2> QED
    BY <1>1, <2>1 DEF AreSlots
<1>4. NothingStale'
  BY <1>1 DEF NothingStale
<1>5. PendingIsOpen'
  <2>1. read_tokens' = {m \in DOMAIN slots' : IsOpen(slots', m)}
    BY <1>1
  <2>2. open' = Cardinality(read_tokens') /\ (pending' # 0 <=> open' > 0)
    BY <1>1, <1>2
  <2> QED
    BY <2>1, <2>2 DEF PendingIsOpen, IsOpen
<1> QED
  BY <1>1, <1>3, <1>4, <1>5

(* What IInv says that the steps need.                                     *)
LEMMA Facts ==
  ASSUME IInv
  PROVE  /\ generation \in 0 .. Selections /\ Selections \in Nat
         /\ pending \in Nat /\ (pending # 0 => pending = generation /\ generation \in Generations)
         /\ AreSlots(slots) /\ open \in Nat
         /\ read_tokens \subseteq Mimes /\ IsFiniteSet(read_tokens)
         /\ reads = {<<pending, m>> : m \in read_tokens}
         /\ timers = {g \in {pending} : timeout_token}
         /\ events \in Seq(Event) /\ Len(events) <= Capacity
         /\ \A j, k \in DOMAIN events : j < k => events[j].of < events[k].of
         /\ \A k \in DOMAIN events : events[k].of <= generation /\ events[k].of \in Nat
         /\ pending # 0 => \A k \in DOMAIN events : events[k].of < pending
<1>1. \A k \in DOMAIN events : events[k].of \in Nat
  <2>1. \A k \in DOMAIN events : events[k] \in Event
    BY ElementOfSeq DEF IInv
  <2> QED
    BY <2>1, WatcherAssumption DEF Event, Generations
<1>2. IsFiniteSet(read_tokens)
  BY FS_Subset, WatcherAssumption DEF IInv, TypeOK, AreSlots
<1>3. generation \in 0 .. Selections /\ Selections \in Nat /\ pending \in Nat
  BY WatcherAssumption DEF IInv, TypeOK
<1> QED
  BY <1>1, <1>2, <1>3
  DEF IInv, TypeOK, NothingStale, PendingIsOpen, OneEventEachInOrder, AreSlots, Generations

-----------------------------------------------------------------------------
Step == Promise!CaptureNext \/ UNCHANGED Promise!captureVars

LEMMA SelectionChangedStep ==
  ASSUME IInv, SelectionChanged
  PROVE  IInv' /\ Step
<1> DEFINE new == generation + 1
           content(wanted, failed) ==
             [m \in wanted |-> IF m \in failed THEN Dropped ELSE Reading(<< >>)]
<1>1. PICK wanted \in SUBSET Mimes, failed \in SUBSET Mimes, armed \in BOOLEAN :
        StartReads(wanted, failed, armed)
  BY DEF SelectionChanged
<1>2. /\ generation' = new /\ new \in Generations /\ generation \in Nat /\ Selections \in Nat
      /\ UNCHANGED sourceVars
  BY <1>1, Facts DEF SelectionChanged, StartReads, Generations
<1>3. Cleared.reads = {} /\ Cleared.timers = {}
  BY ClearedIsEmpty DEF IInv
<1>4. AreSlots(content(wanted, failed))
  <2>1. Dropped \in Flavor /\ Reading(<< >>) \in Flavor
    BY DEF Dropped, Reading, Flavor
  <2> QED
    BY <2>1 DEF AreSlots
<1>5. \A k \in DOMAIN events : events[k].of < new
  BY Facts, <1>2
<1>6. CASE wanted \ failed = {}
  <2>1. /\ NothingPending /\ reads' = {} /\ timers' = {}
        /\ Emit(Captured(new, content(wanted, failed)))
    BY <1>1, <1>3, <1>6 DEF StartReads
  <2>2. /\ events' \in Seq(Event) /\ Len(events') <= Capacity
        /\ \A j, k \in DOMAIN events' : j < k => events'[j].of < events'[k].of
        /\ \A k \in DOMAIN events' : events'[k].of <= new
        /\ Told' = IF Len(Told) < Capacity THEN Append(Told, new) ELSE Told
    BY <2>1, <1>2, <1>4, <1>5, Facts, EmitInOrder
  <2>3. /\ AreSlots(slots)' /\ NothingStale' /\ PendingIsOpen' /\ open' \in Nat
        /\ pending' = 0 /\ read_tokens' \subseteq DOMAIN slots' /\ timeout_token' \in BOOLEAN
    BY <2>1, EndedIsQuiet
  <2>4. OneEventEachInOrder'
    BY <2>2, <2>3, <1>2 DEF OneEventEachInOrder
  <2>5. \A k \in DOMAIN events' : events'[k].of \in Generations /\ AreSlots(events'[k].slots)
    <3>1. \A k \in DOMAIN events' : events'[k] \in Event
      BY <2>2, ElementOfSeq
    <3> QED
      BY <3>1 DEF Event, AreSlots
  <2>6. TypeOK'
    BY <2>1, <2>2, <2>3, <2>5, <1>2 DEF TypeOK, AreSlots, Generations, sourceVars, IInv
  <2>7. Promise!Announced
    BY <2>2, <2>3, <1>2 DEF Promise!Announced, Promise!Tell, Told, Generations
  <2> QED
    BY <2>2, <2>3, <2>4, <2>6, <2>7 DEF IInv, Step, Promise!CaptureNext
<1>7. CASE wanted \ failed # {}
  <2> DEFINE begun == wanted \ failed
  <2>1. /\ reads' = {<<new, m>> : m \in begun} /\ timers' = {g \in {new} : armed}
        /\ pending' = new /\ slots' = content(wanted, failed) /\ open' = Cardinality(begun)
        /\ read_tokens' = begun /\ timeout_token' = armed /\ events' = events
    BY <1>1, <1>3, <1>7 DEF StartReads
  <2>2. IsFiniteSet(begun) /\ Cardinality(begun) \in Nat /\ Cardinality(begun) > 0
    <3>1. IsFiniteSet(begun)
      BY FS_Subset, WatcherAssumption
    <3> QED
      BY <3>1, <1>7, FS_CardinalityType, FS_EmptySet
  <2>3. NothingStale'
    BY <2>1, <1>2 DEF NothingStale, Generations
  <2>4. PendingIsOpen'
    <3>1. begun = {m \in wanted : content(wanted, failed)[m].state = "reading"}
      BY DEF Dropped, Reading
    <3>2. read_tokens' = {m \in DOMAIN slots' : slots'[m].state = "reading"}
      BY <2>1, <3>1
    <3>3. open' = Cardinality(read_tokens') /\ pending' # 0 /\ open' > 0
      BY <2>1, <2>2, <1>2 DEF Generations
    <3> QED
      BY <3>2, <3>3 DEF PendingIsOpen, IsOpen
  <2>5. OneEventEachInOrder'
    BY <2>1, <1>2, <1>5, Facts DEF OneEventEachInOrder
  <2>6. TypeOK'
    <3>1. reads' \subseteq Pipes /\ timers' \subseteq Generations /\ read_tokens' \subseteq DOMAIN slots'
      BY <2>1, <1>2 DEF Pipes
    <3>2. generation' \in 0 .. Selections /\ pending' \in 0 .. generation' /\ open' \in Nat
      BY <2>1, <2>2, <1>2 DEF Generations
    <3> QED
      BY <2>1, <3>1, <3>2, <1>2, <1>4 DEF TypeOK, AreSlots, sourceVars, IInv
  <2>7. Promise!Announced
    BY <2>1, <1>2 DEF Promise!Announced, Generations
  <2> QED
    BY <2>1, <2>3, <2>4, <2>5, <2>6, <2>7 DEF IInv, Step, Promise!CaptureNext
<1> QED
  BY <1>6, <1>7

(* The pending selection is told of and nothing of it is left.             *)
LEMMA EmittedStep ==
  ASSUME IInv, pending # 0, NEW content, AreSlots(content),
         Emit(Captured(pending, content)), NothingPending, reads' = {}, timers' = {},
         UNCHANGED <<generation, sourceVars>>
  PROVE  IInv' /\ Step
<1>1. /\ pending = generation /\ generation \in Generations
      /\ \A k \in DOMAIN events : events[k].of < pending
  BY Facts
<1>2. /\ events' \in Seq(Event) /\ Len(events') <= Capacity
      /\ \A j, k \in DOMAIN events' : j < k => events'[j].of < events'[k].of
      /\ \A k \in DOMAIN events' : events'[k].of <= pending
      /\ Told' = IF Len(Told) < Capacity THEN Append(Told, pending) ELSE Told
  BY <1>1, Facts, EmitInOrder
<1>3. /\ AreSlots(slots)' /\ NothingStale' /\ PendingIsOpen' /\ open' \in Nat
      /\ pending' = 0 /\ read_tokens' \subseteq DOMAIN slots' /\ timeout_token' \in BOOLEAN
  BY EndedIsQuiet
<1>4. OneEventEachInOrder'
  BY <1>1, <1>2, <1>3 DEF OneEventEachInOrder
<1>5. TypeOK'
  <2>1. \A k \in DOMAIN events' : events'[k].of \in Generations /\ AreSlots(events'[k].slots)
    <3>1. \A k \in DOMAIN events' : events'[k] \in Event
      BY <1>2, ElementOfSeq
    <3> QED
      BY <3>1 DEF Event, AreSlots
  <2>2. generation' \in 0 .. Selections /\ pending' \in 0 .. generation'
    BY <1>3, Facts
  <2> QED
    BY <1>2, <1>3, <2>1, <2>2 DEF TypeOK, AreSlots, sourceVars, IInv
<1>6. Promise!ReadToTheEnd
  BY <1>2, <1>3 DEF Promise!ReadToTheEnd, Promise!Tell, Told
<1> QED
  BY <1>2, <1>3, <1>4, <1>5, <1>6 DEF IInv, Step, Promise!CaptureNext

(* Nothing that the promise speaks of changes.                             *)
LEMMA QuietStep ==
  ASSUME IInv, UNCHANGED <<generation, pending, events>>,
         AreSlots(slots)', open' \in Nat, timeout_token' \in BOOLEAN,
         read_tokens' \subseteq DOMAIN slots', reads' \subseteq Pipes, timers' \subseteq Generations,
         written' \in [Pipes -> 0 .. Chunks], closed' \subseteq Pipes,
         NothingStale', PendingIsOpen'
  PROVE  IInv' /\ Step
<1>1. TypeOK'
  BY DEF IInv, TypeOK, AreSlots
<1>2. OneEventEachInOrder'
  BY DEF IInv, OneEventEachInOrder
<1>3. UNCHANGED Promise!captureVars
  BY DEF Promise!captureVars
<1> QED
  BY <1>1, <1>2, <1>3 DEF IInv, Step

-----------------------------------------------------------------------------
LEMMA SelectionClearedStep ==
  ASSUME IInv, SelectionCleared
  PROVE  IInv' /\ Step
<1>1. /\ NothingPending /\ reads' = {} /\ timers' = {}
      /\ UNCHANGED <<generation, events, sourceVars>>
  BY ClearedIsEmpty DEF IInv, SelectionCleared
<1>2. /\ AreSlots(slots)' /\ NothingStale' /\ PendingIsOpen' /\ open' \in Nat
      /\ pending' = 0 /\ read_tokens' \subseteq DOMAIN slots' /\ timeout_token' \in BOOLEAN
  BY <1>1, EndedIsQuiet
<1>3. TypeOK'
  <2>1. generation' \in 0 .. Selections /\ pending' \in 0 .. generation'
    BY <1>1, <1>2, Facts
  <2> QED
    BY <1>1, <1>2, <2>1 DEF TypeOK, AreSlots, sourceVars, IInv
<1>4. OneEventEachInOrder'
  BY <1>1, <1>2 DEF OneEventEachInOrder, IInv
<1>5. Promise!ClipboardCleared
  BY <1>1, <1>2 DEF Promise!ClipboardCleared
<1> QED
  BY <1>1, <1>2, <1>3, <1>4, <1>5 DEF IInv, Step, Promise!CaptureNext

(* A flavor of the pending selection that is being read is resolved.       *)
LEMMA ResolveStep ==
  ASSUME IInv, NEW m \in read_tokens, NEW flavor \in Flavor, flavor.state # "reading",
         Resolve(m, flavor), UNCHANGED <<generation, sourceVars>>
  PROVE  IInv' /\ Step
<1> DEFINE content == [slots EXCEPT ![m] = flavor]
<1>1. AreSlots(content) /\ DOMAIN content = DOMAIN slots /\ m \in DOMAIN slots
  BY DEF IInv, TypeOK, AreSlots
<1>2. pending # 0 /\ open = Cardinality(read_tokens)
  BY DEF IInv, NothingStale, PendingIsOpen
<1>3. CASE open = 1
  <2>1. /\ Emit(Captured(pending, content)) /\ NothingPending
        /\ reads' = {} /\ timers' = {}
    BY <1>3, ClearedIsEmpty DEF Resolve, IInv
  <2> QED
    BY <2>1, <1>1, <1>2, EmittedStep
<1>4. CASE open # 1
  <2>1. /\ slots' = content /\ open' = open - 1
        /\ read_tokens' = read_tokens \ {m}
        /\ reads' = reads \ {<<pending, m>>}
        /\ UNCHANGED <<pending, timeout_token, timers, events>>
    BY <1>4 DEF Resolve
  <2>2. /\ IsFiniteSet(read_tokens) /\ Cardinality(read_tokens \ {m}) = Cardinality(read_tokens) - 1
        /\ open \in Nat /\ open > 0
    BY <1>2, Facts, FS_RemoveElement DEF IInv, PendingIsOpen
  <2>3. NothingStale'
    BY <2>1, <1>2 DEF IInv, NothingStale
  <2>4. PendingIsOpen'
    <3>1. read_tokens \ {m} = {n \in DOMAIN content : content[n].state = "reading"}
      BY <1>1 DEF IInv, PendingIsOpen, IsOpen
    <3>2. read_tokens' = {n \in DOMAIN slots' : slots'[n].state = "reading"}
      BY <2>1, <3>1
    <3>3. open' = Cardinality(read_tokens') /\ open' > 0 /\ pending' # 0
      BY <2>1, <2>2, <1>2, <1>4
    <3> QED
      BY <3>2, <3>3 DEF PendingIsOpen, IsOpen
  <2>5. /\ AreSlots(slots)' /\ open' \in Nat /\ timeout_token' \in BOOLEAN
        /\ read_tokens' \subseteq DOMAIN slots' /\ reads' \subseteq Pipes /\ timers' \subseteq Generations
        /\ written' \in [Pipes -> 0 .. Chunks] /\ closed' \subseteq Pipes
    <3>1. AreSlots(slots)' /\ open' \in Nat
      BY <2>1, <2>2, <1>1, <1>4 DEF AreSlots
    <3> QED
      BY <3>1, <2>1, <1>1 DEF IInv, TypeOK, sourceVars
  <2> QED
    BY <2>1, <2>3, <2>4, <2>5, QuietStep
<1> QED
  BY <1>3, <1>4

(* What is read so far and what the pipe still holds are chunks of pipes.  *)
LEMMA DataIsChunks ==
  ASSUME IInv, NEW m \in read_tokens
  PROVE  slots[m].data \o SubSeq(Content(<<pending, m>>), Len(slots[m].data) + 1,
                                 written[<<pending, m>>]) \in Seq(Pipes \X Nat)
<1> DEFINE pipe == <<pending, m>>
           data == slots[m].data
           n == written[pipe]
<1>1. pipe \in Pipes
  BY DEF IInv, NothingStale, TypeOK
<1>2. data \in Seq(Pipes \X Nat)
  BY DEF IInv, TypeOK, AreSlots, Flavor
<1>3. n \in Nat
  BY <1>1, WatcherAssumption DEF IInv, TypeOK
<1> DEFINE chunks == Content(pipe)
<1>4. chunks \in Seq(Pipes \X Nat) /\ Len(chunks) = n
  <2>1. chunks = [k \in 1 .. n |-> <<pipe, k>>]
    BY DEF Content
  <2>2. \A k \in 1 .. n : <<pipe, k>> \in Pipes \X Nat
    BY <1>1, <1>3
  <2> HIDE DEF chunks, pipe, n
  <2> QED
    BY <2>1, <2>2, <1>3
<1>5. Len(data) \in Nat
  BY <1>2, LenProperties
<1> DEFINE from == Len(data) + 1
           rest == SubSeq(chunks, from, n)
<1>6. rest \in Seq(Pipes \X Nat)
  <2>1. from \in 1 .. n + 1 => rest \in Seq(Pipes \X Nat)
    <3> HIDE DEF chunks, n, data
    <3> QED
      BY <1>3, <1>4, <1>5, SubSeqProperties
  <2>2. from > n => rest \in Seq(Pipes \X Nat)
    <3> HIDE DEF chunks, n, data
    <3> QED
      BY <1>3, <1>4, <1>5
  <2> QED
    BY <2>1, <2>2, <1>3, <1>5
<1> HIDE DEF data, rest
<1>7. data \o rest \in Seq(Pipes \X Nat)
  BY <1>2, <1>6, ConcatProperties
<1> QED
  BY <1>7 DEF data, rest

LEMMA OnFlavorReadableStep ==
  ASSUME IInv, NEW pipe \in Pipes, OnFlavorReadable(pipe)
  PROVE  IInv' /\ Step
<1>1. PICK m \in read_tokens : pipe = <<pending, m>>
  BY DEF OnFlavorReadable, IInv, NothingStale
<1>2. ReadFlavor(m) /\ UNCHANGED <<generation, sourceVars>>
  BY <1>1 DEF OnFlavorReadable
<1> DEFINE data == slots[m].data \o SubSeq(Content(<<pending, m>>), Len(slots[m].data) + 1,
                                           written[<<pending, m>>])
<1>3. data \in Seq(Pipes \X Nat)
  BY DataIsChunks
<1>4. /\ Dropped \in Flavor /\ Dropped.state # "reading"
      /\ Done(data) \in Flavor /\ Done(data).state # "reading"
      /\ Reading(data) \in Flavor /\ Reading(data).state = "reading"
  <2> HIDE DEF data
  <2> QED
    BY <1>3 DEF Dropped, Done, Reading, Flavor
<1>5. CASE Resolve(m, Dropped)
  BY <1>2, <1>4, <1>5, ResolveStep
<1>6. CASE Resolve(m, Done(data))
  <2> HIDE DEF data
  <2> QED
    BY <1>2, <1>4, <1>6, ResolveStep
<1>7. CASE /\ slots' = [slots EXCEPT ![m] = Reading(data)]
           /\ UNCHANGED <<pending, open, read_tokens, timeout_token, loopVars, events>>
  <2> HIDE DEF data
  <2>1. AreSlots(slots)' /\ DOMAIN slots' = DOMAIN slots /\ m \in DOMAIN slots
    BY <1>4, <1>7 DEF IInv, TypeOK, AreSlots
  <2>2. NothingStale'
    BY <1>7 DEF IInv, NothingStale, loopVars
  <2>3. PendingIsOpen'
    <3>1. read_tokens = {n \in DOMAIN slots : slots[n].state = "reading"}
      BY DEF IInv, PendingIsOpen, IsOpen
    <3>2. read_tokens' = {n \in DOMAIN slots' : slots'[n].state = "reading"}
      BY <3>1, <2>1, <1>4, <1>7
    <3>3. open' = Cardinality(read_tokens') /\ (pending' # 0 <=> open' > 0)
      BY <1>7 DEF IInv, PendingIsOpen
    <3> QED
      BY <3>2, <3>3 DEF PendingIsOpen, IsOpen
  <2>4. /\ open' \in Nat /\ timeout_token' \in BOOLEAN
        /\ read_tokens' \subseteq DOMAIN slots' /\ reads' \subseteq Pipes /\ timers' \subseteq Generations
        /\ written' \in [Pipes -> 0 .. Chunks] /\ closed' \subseteq Pipes
    BY <1>2, <1>7, <2>1 DEF IInv, TypeOK, sourceVars, loopVars
  <2> QED
    BY <1>2, <1>7, <2>1, <2>2, <2>3, <2>4, QuietStep
<1> QED
  BY <1>2, <1>5, <1>6, <1>7 DEF ReadFlavor

LEMMA OnReadTimeoutStep ==
  ASSUME IInv, NEW g \in Generations, OnReadTimeout(g)
  PROVE  IInv' /\ Step
<1> DEFINE content == [m \in DOMAIN slots |-> IF IsOpen(slots, m) THEN Dropped ELSE slots[m]]
<1>1. pending = g /\ pending # 0 /\ timers = {g}
  BY DEF OnReadTimeout, IInv, NothingStale
<1>2. AreSlots(content)
  <2>1. Dropped \in Flavor
    BY DEF Dropped, Flavor
  <2> QED
    BY <2>1 DEF IInv, TypeOK, AreSlots
<1>3. /\ Emit(Captured(pending, content)) /\ NothingPending /\ reads' = {} /\ timers' = {}
      /\ UNCHANGED <<generation, sourceVars>>
  BY <1>1, ClearedIsEmpty DEF OnReadTimeout, IInv
<1> QED
  BY <1>1, <1>2, <1>3, EmittedStep

LEMMA SourceStep ==
  ASSUME IInv, NEW pipe \in Pipes, SourceWrites(pipe) \/ SourceCloses(pipe)
  PROVE  IInv' /\ Step
<1>1. written' \in [Pipes -> 0 .. Chunks] /\ closed' \subseteq Pipes
  BY WatcherAssumption DEF SourceWrites, SourceCloses, IInv, TypeOK
<1>2. UNCHANGED <<generation, pendingVars, loopVars, events>>
  BY DEF SourceWrites, SourceCloses
<1>3. NothingStale' /\ PendingIsOpen'
  BY <1>2 DEF IInv, NothingStale, PendingIsOpen, IsOpen, pendingVars, loopVars
<1>4. /\ AreSlots(slots)' /\ open' \in Nat /\ timeout_token' \in BOOLEAN
      /\ read_tokens' \subseteq DOMAIN slots' /\ reads' \subseteq Pipes /\ timers' \subseteq Generations
  BY <1>2 DEF IInv, TypeOK, AreSlots, pendingVars, loopVars
<1> QED
  BY <1>1, <1>2, <1>3, <1>4, QuietStep DEF pendingVars

LEMMA DaemonReceivesStep ==
  ASSUME IInv, DaemonReceives
  PROVE  IInv' /\ Step
<1> DEFINE n == Len(events)
           rest == Tail(events)
<1>1. n \in Nat /\ n > 0 /\ DOMAIN events = 1 .. n /\ n <= Capacity /\ Capacity \in Nat
  BY WatcherAssumption, LenProperties, EmptySeq DEF DaemonReceives, IInv, TypeOK
<1>2. /\ rest \in Seq(Event) /\ Len(rest) = n - 1 /\ DOMAIN rest = 1 .. n - 1
      /\ \A k \in 1 .. n - 1 : rest[k] = events[k + 1]
  BY <1>1, HeadTailProperties DEF DaemonReceives, IInv
<1>3. events' = rest /\ UNCHANGED <<generation, pendingVars, loopVars, sourceVars>>
  BY DEF DaemonReceives
<1> HIDE DEF rest
<1>4. /\ \A j, k \in DOMAIN events : j < k => events[j].of < events[k].of
      /\ \A k \in DOMAIN events : events[k].of <= generation /\ events[k].of \in Nat
      /\ pending # 0 => pending = generation /\ \A k \in DOMAIN events : events[k].of < pending
  BY Facts
<1> HIDE DEF n
<1>5. OneEventEachInOrder'
  <2>1. \A k \in 1 .. n - 1 : k + 1 \in 1 .. n
    BY <1>1
  <2>2. \A j, k \in 1 .. n - 1 : j < k => rest[j].of < rest[k].of
    <3> SUFFICES ASSUME NEW j \in 1 .. n - 1, NEW k \in 1 .. n - 1, j < k
                 PROVE  rest[j].of < rest[k].of
      OBVIOUS
    <3>1. j + 1 < k + 1 /\ j + 1 \in DOMAIN events /\ k + 1 \in DOMAIN events
      BY <1>1, <2>1
    <3> QED
      BY <3>1, <1>2, <1>4
  <2>3. \A k \in 1 .. n - 1 : rest[k].of <= generation /\ (pending # 0 => rest[k].of < pending)
    BY <2>1, <1>1, <1>2, <1>4
  <2> QED
    BY <2>2, <2>3, <1>2, <1>3, <1>4 DEF OneEventEachInOrder, pendingVars
<1>6. \A k \in DOMAIN events' : events'[k].of \in Generations /\ AreSlots(events'[k].slots)
  <2>1. \A k \in DOMAIN events' : events'[k] \in Event
    BY <1>2, <1>3, ElementOfSeq
  <2> QED
    BY <2>1 DEF Event, AreSlots
<1>7. DOMAIN events' = 1 .. Len(events') /\ Len(events') <= Capacity
  BY <1>1, <1>2, <1>3
<1>8. TypeOK'
  BY <1>3, <1>6, <1>7 DEF IInv, TypeOK, AreSlots, pendingVars, loopVars, sourceVars
<1>9. NothingStale' /\ PendingIsOpen'
  BY <1>3 DEF IInv, NothingStale, PendingIsOpen, IsOpen, pendingVars, loopVars
<1>10. Told' = Tail(Told) /\ Told # << >>
  <2>1. Told \in Seq(Nat) /\ Len(Told) = n /\ DOMAIN Told = 1 .. n
    BY <1>1, <1>4 DEF Told
  <2>2. /\ Told # << >> /\ Len(Tail(Told)) = n - 1 /\ Tail(Told) \in Seq(Nat)
        /\ \A k \in 1 .. n - 1 : Tail(Told)[k] = Told[k + 1]
    BY <1>1, <2>1, HeadTailProperties
  <2>3. Told' = [k \in 1 .. n - 1 |-> rest[k].of]
    BY <1>2, <1>3 DEF Told
  <2>4. \A k \in 1 .. n - 1 : Tail(Told)[k] = rest[k].of
    BY <1>1, <1>2, <2>2 DEF Told
  <2> DEFINE tail == Tail(Told)
  <2>5. tail = [k \in 1 .. n - 1 |-> tail[k]]
    <3> HIDE DEF tail
    <3>1. tail \in Seq(Nat) /\ Len(tail) = n - 1
      BY <2>2 DEF tail
    <3> QED
      BY <3>1, LenProperties
  <2>6. tail = Told'
    BY <2>3, <2>4, <2>5
  <2> QED
    BY <2>2, <2>6
<1>11. Promise!Taken
  BY <1>3, <1>10 DEF Promise!Taken, Told, pendingVars
<1> QED
  BY <1>2, <1>3, <1>5, <1>8, <1>9, <1>11 DEF IInv, Step, Promise!CaptureNext

-----------------------------------------------------------------------------
LEMMA InitIInv ==
  ASSUME Init
  PROVE  IInv
<1>1. DOMAIN slots = {} /\ slots \in [{} -> Flavor] /\ Cardinality({}) = 0
  BY FS_EmptySet DEF Init
<1>2. events \in Seq(Event) /\ DOMAIN events = {} /\ Len(events) = 0
  BY DEF Init
<1>3. TypeOK
  <2>1. AreSlots(slots)
    BY <1>1 DEF AreSlots
  <2>2. \A k \in DOMAIN events : events[k].of \in Generations /\ AreSlots(events[k].slots)
    BY <1>2
  <2>3. written \in [Pipes -> 0 .. Chunks]
    BY WatcherAssumption DEF Init
  <2>4. /\ generation \in 0 .. Selections /\ pending \in 0 .. generation /\ open \in Nat
        /\ DOMAIN events = 1 .. Len(events) /\ Len(events) <= Capacity
    BY <1>2, WatcherAssumption DEF Init
  <2>5. /\ read_tokens \subseteq DOMAIN slots /\ timeout_token \in BOOLEAN
        /\ reads \subseteq Pipes /\ timers \subseteq Generations /\ closed \subseteq Pipes
    BY DEF Init
  <2> QED
    BY <2>1, <2>2, <2>3, <2>4, <2>5 DEF TypeOK
<1>4. NothingStale
  BY DEF Init, NothingStale
<1>5. PendingIsOpen
  <2>1. read_tokens = {m \in DOMAIN slots : IsOpen(slots, m)}
    BY <1>1 DEF Init
  <2> QED
    BY <1>1, <2>1 DEF Init, PendingIsOpen
<1>6. OneEventEachInOrder
  BY <1>2 DEF Init, OneEventEachInOrder
<1> QED
  BY <1>2, <1>3, <1>4, <1>5, <1>6 DEF IInv

LEMMA NextStep ==
  ASSUME IInv, [Next]_vars
  PROVE  IInv' /\ Step
<1>1. CASE SelectionChanged
  BY <1>1, SelectionChangedStep
<1>2. CASE SelectionCleared
  BY <1>2, SelectionClearedStep
<1>3. CASE DaemonReceives
  BY <1>3, DaemonReceivesStep
<1>4. ASSUME NEW p \in Pipes, OnFlavorReadable(p)
      PROVE  IInv' /\ Step
  BY <1>4, OnFlavorReadableStep
<1>5. ASSUME NEW p \in Pipes, SourceWrites(p) \/ SourceCloses(p)
      PROVE  IInv' /\ Step
  BY <1>5, SourceStep
<1>6. ASSUME NEW g \in Generations, OnReadTimeout(g)
      PROVE  IInv' /\ Step
  BY <1>6, OnReadTimeoutStep
<1>7. CASE UNCHANGED vars
  <2>1. NothingStale' /\ PendingIsOpen'
    BY <1>7 DEF IInv, NothingStale, PendingIsOpen, IsOpen, vars, pendingVars, loopVars
  <2>2. /\ AreSlots(slots)' /\ open' \in Nat /\ timeout_token' \in BOOLEAN
        /\ read_tokens' \subseteq DOMAIN slots' /\ reads' \subseteq Pipes /\ timers' \subseteq Generations
        /\ written' \in [Pipes -> 0 .. Chunks] /\ closed' \subseteq Pipes
        /\ UNCHANGED <<generation, pending, events>>
    BY <1>7 DEF IInv, TypeOK, AreSlots, vars, pendingVars, loopVars, sourceVars
  <2> QED
    BY <2>1, <2>2, QuietStep
<1> QED
  BY <1>1, <1>2, <1>3, <1>4, <1>5, <1>6, <1>7 DEF Next

(* The bookkeeping and the event loop agree in every reachable state.      *)
THEOREM Invariance == Spec => []IInv
<1>1. Init => IInv
  BY InitIInv
<1>2. IInv /\ [Next]_vars => IInv'
  BY NextStep
<1> QED
  BY <1>1, <1>2, PTL DEF Spec

(* The watcher's variables keep their types, for every set of flavors, cap *)
(* and channel.                                                            *)
THEOREM TypeCorrect == Spec => []TypeOK
<1>1. IInv => TypeOK
  BY DEF IInv
<1> QED
  BY <1>1, Invariance, PTL

(* A callback that fires is never that of a selection already abandoned or *)
(* emitted: clear_sources leaves nothing behind, whatever failed.  And the *)
(* count of open slots, the slots and the tokens agree, so that a          *)
(* selection is pending just as long as something of it is left to read.   *)
THEOREM AlwaysPending == Spec => []LoopIsPending
<1>1. IInv => LoopIsPending
  BY DEF IInv, LoopIsPending
<1> QED
  BY <1>1, Invariance, PTL

(* The events in the channel are of different selections, oldest first.    *)
THEOREM InOrder == Spec => []OneEventEachInOrder
<1>1. IInv => OneEventEachInOrder
  BY DEF IInv
<1> QED
  BY <1>1, Invariance, PTL

(* The watcher implements Capture: each callback of the loop is one step   *)
(* of the promise, or changes nothing it speaks of.                        *)
THEOREM ImplementsCapture == Spec => KeepsPromise
<1>1. Init => Promise!CaptureInit
  BY DEF Init, Promise!CaptureInit
<1>2. IInv /\ [Next]_vars => [Promise!CaptureNext]_(Promise!captureVars)
  BY NextStep DEF Step
<1> QED
  BY <1>1, <1>2, Invariance, PTL DEF Spec, KeepsPromise, Promise!CaptureSpec

-----------------------------------------------------------------------------
(* No half flavor: what a slot holds while it is read is as much of its own *)
(* pipe as was read, in order, and what it holds when it is done is all     *)
(* that was written.  They say so of a state of the pipes, w and c.         *)
IsPrefix(data, pipe, w) ==
  /\ Len(data) <= w[pipe]
  /\ data = [k \in 1 .. Len(data) |-> <<pipe, k>>]

IsAll(flavor, pipe, w, c) ==
  /\ pipe \in c
  /\ flavor.data = [k \in 1 .. w[pipe] |-> <<pipe, k>>]
  /\ Len(flavor.data) <= Cap

SlotOK(flavor, pipe, w, c) ==
  /\ flavor.state = "done" => IsAll(flavor, pipe, w, c)
  /\ flavor.state = "dropped" => flavor = Dropped
  /\ flavor.state = "reading" => IsPrefix(flavor.data, pipe, w)

SlotsOK(content, g, w, c) == \A m \in DOMAIN content : SlotOK(content[m], <<g, m>>, w, c)
IsSettled(content) == \A m \in DOMAIN content : content[m].state \in {"done", "dropped"}
EventOK(e, w, c)   == SlotsOK(e.slots, e.of, w, c) /\ IsSettled(e.slots)

EventsOK == \A k \in DOMAIN events : EventOK(events[k], written, closed)
Untorn == EventsOK /\ SlotsOK(slots, pending, written, closed)

LEMMA UntornIsWhole == Untorn => WholeOrDropped
BY DEF Untorn, EventsOK, EventOK, SlotsOK, SlotOK, IsSettled, WholeOrDropped, IsAll, IsWhole, Content

LEMMA NonePendingOK ==
  ASSUME NothingPending
  PROVE  SlotsOK(slots, pending, written, closed)'
<1>1. DOMAIN slots' = {}
  BY DEF NothingPending
<1> QED
  BY <1>1 DEF SlotsOK

(* A settled selection that is emitted leaves the channel untorn.          *)
LEMMA EmitUntorn ==
  ASSUME IInv, EventsOK, NEW e, EventOK(e, written, closed), Emit(e), UNCHANGED sourceVars
  PROVE  EventsOK'
<1>1. written' = written /\ closed' = closed
  BY DEF sourceVars
<1>2. CASE Len(events) < Capacity
  <2>1. events' = Append(events, e) /\ DOMAIN events = 1 .. Len(events)
    BY <1>2 DEF Emit, IInv, TypeOK
  <2>2. events \in Seq(Event)
    BY DEF IInv
  <2> DEFINE S == Event \cup {e}
  <2>3. events \in Seq(S) /\ e \in S
    BY <2>2
  <2> HIDE DEF S
  <2>4. /\ DOMAIN events' = 1 .. (Len(events) + 1)
        /\ Len(events) \in Nat
        /\ \A k \in 1 .. Len(events) : events'[k] = events[k]
        /\ events'[Len(events) + 1] = e
    BY <2>1, <2>3, AppendProperties, LenProperties
  <2>5. \A k \in DOMAIN events' : events'[k] = e \/ (k \in DOMAIN events /\ events'[k] = events[k])
    BY <2>1, <2>4
  <2> QED
    BY <1>1, <2>5 DEF EventsOK
<1>3. CASE ~(Len(events) < Capacity)
  <2>1. events' = events
    BY <1>3 DEF Emit
  <2> QED
    BY <1>1, <2>1 DEF EventsOK
<1> QED
  BY <1>2, <1>3

LEMMA SelectionChangedUntorn ==
  ASSUME IInv, Untorn, SelectionChanged
  PROVE  Untorn'
<1> DEFINE new == generation + 1
           content(wanted, failed) ==
             [m \in wanted |-> IF m \in failed THEN Dropped ELSE Reading(<< >>)]
<1>1. PICK wanted \in SUBSET Mimes, failed \in SUBSET Mimes, armed \in BOOLEAN :
        StartReads(wanted, failed, armed)
  BY DEF SelectionChanged
<1>2. new \in Generations /\ UNCHANGED sourceVars
  BY Facts DEF SelectionChanged, Generations
<1>3. written' = written /\ closed' = closed
  BY <1>2 DEF sourceVars
<1> DEFINE slot == content(wanted, failed)
<1>4. \A m \in wanted : written[<<new, m>>] \in Nat
  BY <1>2 DEF IInv, TypeOK, Pipes
<1> HIDE DEF new
<1>5. SlotsOK(slot, new, written, closed)
  <2> SUFFICES ASSUME NEW m \in wanted PROVE SlotOK(slot[m], <<new, m>>, written, closed)
    BY DEF SlotsOK
  <2>1. CASE slot[m] = Dropped
    BY <2>1 DEF SlotOK, Dropped
  <2>2. CASE slot[m] = Reading(<< >>)
    <3>1. IsPrefix(<< >>, <<new, m>>, written)
      BY <1>4 DEF IsPrefix
    <3> QED
      BY <2>2, <3>1 DEF SlotOK, Reading
  <2> QED
    BY <2>1, <2>2
<1>6. CASE wanted \ failed = {}
  <2>1. IsSettled(slot)
    BY <1>6 DEF IsSettled, Dropped
  <2>2. NothingPending /\ Emit(Captured(new, slot))
    BY <1>1, <1>6 DEF StartReads, new
  <2> HIDE DEF slot
  <2>3. EventOK(Captured(new, slot), written, closed)
    BY <1>5, <2>1 DEF EventOK, Captured
  <2> QED
    BY <1>2, <2>2, <2>3, EmitUntorn, NonePendingOK DEF Untorn
<1>7. CASE wanted \ failed # {}
  <2>1. pending' = new /\ slots' = slot /\ events' = events
    BY <1>1, <1>7 DEF StartReads, new
  <2> HIDE DEF slot
  <2> QED
    BY <1>3, <1>5, <2>1 DEF Untorn, EventsOK
<1> QED
  BY <1>6, <1>7

(* A flavor that ends leaves the selection untorn, whether it is the last. *)
LEMMA ResolveUntorn ==
  ASSUME IInv, Untorn, NEW m \in read_tokens, NEW flavor,
         SlotOK(flavor, <<pending, m>>, written, closed), flavor.state \in {"done", "dropped"},
         Resolve(m, flavor), UNCHANGED sourceVars
  PROVE  Untorn'
<1> DEFINE content == [slots EXCEPT ![m] = flavor]
<1>1. /\ DOMAIN content = DOMAIN slots /\ m \in DOMAIN slots
      /\ \A n \in DOMAIN slots : content[n] = IF n = m THEN flavor ELSE slots[n]
  BY DEF IInv, TypeOK, AreSlots
<1>2. read_tokens = {n \in DOMAIN slots : slots[n].state = "reading"} /\ open = Cardinality(read_tokens)
  BY DEF IInv, PendingIsOpen, IsOpen
<1>3. Resolve(m, flavor) => IF open = 1
                            THEN Emit(Captured(pending, content)) /\ NothingPending
                            ELSE slots' = content /\ UNCHANGED <<pending, events>>
  BY DEF Resolve
<1>4. written' = written /\ closed' = closed
  BY DEF sourceVars
<1> HIDE DEF content
<1>5. SlotsOK(content, pending, written, closed)
  BY <1>1 DEF Untorn, SlotsOK
<1>6. CASE open = 1
  <2>1. read_tokens = {m}
    <3>1. IsFiniteSet(read_tokens)
      BY Facts
    <3>2. PICK x : read_tokens = {x}
      BY <1>2, <1>6, <3>1, FS_Singleton
    <3> QED
      BY <3>2
  <2>2. \A n \in DOMAIN slots : slots[n].state \in {"reading", "done", "dropped"}
    BY DEF IInv, TypeOK, AreSlots, Flavor
  <2>3. IsSettled(content)
    BY <1>1, <1>2, <2>1, <2>2 DEF IsSettled
  <2>4. EventOK(Captured(pending, content), written, closed)
    BY <1>5, <2>3 DEF EventOK, Captured
  <2> QED
    BY <1>3, <1>6, <2>4, EmitUntorn, NonePendingOK DEF Untorn
<1>7. CASE open # 1
  <2>1. slots' = content /\ pending' = pending /\ events' = events
    BY <1>3, <1>7
  <2> QED
    BY <1>4, <1>5, <2>1 DEF Untorn, EventsOK
<1> QED
  BY <1>6, <1>7

(* What was read and what the pipe holds is all that was written.          *)
LEMMA DataIsContent ==
  ASSUME IInv, Untorn, NEW m \in read_tokens
  PROVE  slots[m].data \o SubSeq(Content(<<pending, m>>), Len(slots[m].data) + 1,
                                 written[<<pending, m>>]) = Content(<<pending, m>>)
<1> DEFINE pipe == <<pending, m>>
           data == slots[m].data
           n == written[pipe]
           p == Len(data)
           chunks == Content(pipe)
           rest == SubSeq(chunks, p + 1, n)
           T == Pipes \X Nat
<1>1. pipe \in Pipes /\ m \in DOMAIN slots /\ slots[m].state = "reading"
  BY DEF IInv, NothingStale, PendingIsOpen, IsOpen, TypeOK
<1>2. data \in Seq(T)
  BY <1>1 DEF IInv, TypeOK, AreSlots, Flavor
<1>3. n \in Nat
  BY <1>1, WatcherAssumption DEF IInv, TypeOK
<1>4. IsPrefix(data, pipe, written)
  BY <1>1 DEF Untorn, SlotsOK, SlotOK
<1> HIDE DEF T
<1>5. p \in Nat /\ p <= n /\ DOMAIN data = 1 .. p /\ \A k \in 1 .. p : data[k] = <<pipe, k>>
  BY <1>2, <1>4, LenProperties DEF IsPrefix
<1>6. chunks = [k \in 1 .. n |-> <<pipe, k>>]
  BY DEF Content
<1>7. chunks \in Seq(T) /\ Len(chunks) = n
  <2>1. \A k \in 1 .. n : <<pipe, k>> \in T
    BY <1>1, <1>3 DEF T
  <2> HIDE DEF chunks, pipe, n
  <2> QED
    BY <1>3, <1>6, <2>1
<1> HIDE DEF chunks, n, data, pipe, p
<1>8. /\ rest \in Seq(T) /\ Len(rest) = n - p
      /\ \A k \in 1 .. n - p : rest[k] = chunks[p + k]
  <2>1. p + 1 \in 1 .. Len(chunks) + 1 /\ n \in (p + 1) - 1 .. Len(chunks)
    BY <1>3, <1>5, <1>7
  <2>2. /\ rest \in Seq(T)
        /\ Len(rest) = n - (p + 1) + 1
        /\ \A i \in 1 .. n - (p + 1) + 1 : rest[i] = chunks[(p + 1) + i - 1]
    BY ONLY <1>7, <2>1, SubSeqProperties
  <2>3. n - (p + 1) + 1 = n - p /\ \A i \in 1 .. n - p : (p + 1) + i - 1 = p + i
    BY <1>3, <1>5
  <2> QED
    BY <2>2, <2>3
<1> HIDE DEF rest
<1> DEFINE whole == data \o rest
<1>9. /\ whole \in Seq(T) /\ Len(whole) = p + (n - p)
      /\ \A k \in 1 .. p + (n - p) : whole[k] = IF k <= p THEN data[k] ELSE rest[k - p]
  <2>1. Len(data) = p
    BY DEF p
  <2> QED
    BY ONLY <1>2, <1>8, <2>1, ConcatProperties
<1>10. Len(whole) = n /\ \A k \in 1 .. n : whole[k] = chunks[k]
  <2>1. p + (n - p) = n
    BY <1>3, <1>5
  <2>2. ASSUME NEW k \in 1 .. n PROVE whole[k] = chunks[k]
    <3>1. CASE k <= p
      <4>1. k \in 1 .. p
        BY <1>3, <1>5, <3>1
      <4> QED
        BY <1>5, <1>6, <1>9, <2>1, <3>1, <4>1
    <3>2. CASE ~(k <= p)
      <4>1. k - p \in 1 .. n - p /\ p + (k - p) = k
        BY <1>3, <1>5, <3>2
      <4> QED
        BY <1>8, <1>9, <2>1, <3>2, <4>1
    <3> QED
      BY <3>1, <3>2
  <2> QED
    BY <1>9, <2>1, <2>2
<1> HIDE DEF whole
<1>11. whole = chunks
  <2>1. whole = [k \in 1 .. n |-> whole[k]] /\ chunks = [k \in 1 .. n |-> chunks[k]]
    BY <1>7, <1>9, <1>10, LenProperties
  <2> QED
    BY <1>10, <2>1
<1> QED
  BY <1>11 DEF whole, data, rest, chunks, pipe, n, p

LEMMA OnFlavorReadableUntorn ==
  ASSUME IInv, Untorn, NEW pipe \in Pipes, OnFlavorReadable(pipe)
  PROVE  Untorn'
<1>1. PICK m \in read_tokens : pipe = <<pending, m>>
  BY DEF OnFlavorReadable, IInv, NothingStale
<1>2. ReadFlavor(m) /\ UNCHANGED sourceVars
  BY <1>1 DEF OnFlavorReadable
<1> DEFINE data == slots[m].data \o SubSeq(Content(<<pending, m>>), Len(slots[m].data) + 1,
                                           written[<<pending, m>>])
<1>3. data = [k \in 1 .. written[pipe] |-> <<pipe, k>>]
  BY <1>1, DataIsContent DEF Content
<1>4. \/ Resolve(m, Dropped)
      \/ Len(data) <= Cap /\ pipe \in closed /\ Resolve(m, Done(data))
      \/ /\ slots' = [slots EXCEPT ![m] = Reading(data)]
         /\ UNCHANGED <<pending, open, read_tokens, timeout_token, loopVars, events>>
  BY <1>1, <1>2 DEF ReadFlavor
<1>5. written' = written /\ closed' = closed
  BY <1>2 DEF sourceVars
<1> HIDE DEF data
<1>6. CASE Resolve(m, Dropped)
  <2>1. SlotOK(Dropped, <<pending, m>>, written, closed) /\ Dropped.state = "dropped"
    BY DEF SlotOK, Dropped
  <2> QED
    BY <1>2, <1>6, <2>1, ResolveUntorn
<1>7. CASE Len(data) <= Cap /\ pipe \in closed /\ Resolve(m, Done(data))
  <2>1. SlotOK(Done(data), <<pending, m>>, written, closed) /\ Done(data).state = "done"
    BY <1>1, <1>3, <1>7 DEF SlotOK, Done, IsAll
  <2> QED
    BY <1>2, <1>7, <2>1, ResolveUntorn
<1>8. CASE /\ slots' = [slots EXCEPT ![m] = Reading(data)]
           /\ UNCHANGED <<pending, open, read_tokens, timeout_token, loopVars, events>>
  <2>1. IsPrefix(data, pipe, written)
    <3>1. written[pipe] \in Nat
      BY WatcherAssumption DEF IInv, TypeOK
    <3>2. Len(data) = written[pipe]
      BY <1>3, <3>1
    <3> QED
      BY <1>3, <3>1, <3>2 DEF IsPrefix
  <2>2. SlotOK(Reading(data), <<pending, m>>, written, closed)
    BY <1>1, <2>1 DEF SlotOK, Reading
  <2>3. /\ m \in DOMAIN slots /\ DOMAIN slots' = DOMAIN slots
        /\ \A n \in DOMAIN slots : slots'[n] = IF n = m THEN Reading(data) ELSE slots[n]
    BY <1>8 DEF IInv, TypeOK, AreSlots
  <2>4. SlotsOK(slots', pending, written, closed)
    BY <2>2, <2>3 DEF Untorn, SlotsOK
  <2> QED
    BY <1>5, <1>8, <2>4 DEF Untorn, EventsOK
<1> QED
  BY <1>4, <1>6, <1>7, <1>8

LEMMA OnReadTimeoutUntorn ==
  ASSUME IInv, Untorn, NEW g \in Generations, OnReadTimeout(g)
  PROVE  Untorn'
<1> DEFINE content == [m \in DOMAIN slots |-> IF IsOpen(slots, m) THEN Dropped ELSE slots[m]]
<1>1. pending = g
  BY DEF OnReadTimeout, IInv, NothingStale
<1>2. Emit(Captured(pending, content)) /\ NothingPending /\ UNCHANGED sourceVars
  BY <1>1 DEF OnReadTimeout
<1>3. \A m \in DOMAIN slots : slots[m].state \in {"reading", "done", "dropped"}
  BY DEF IInv, TypeOK, AreSlots, Flavor
<1>4. \A p : SlotOK(Dropped, p, written, closed)
  BY DEF SlotOK, Dropped
<1>5. SlotsOK(content, pending, written, closed) /\ IsSettled(content)
  BY <1>3, <1>4 DEF Untorn, SlotsOK, IsSettled, IsOpen, Dropped
<1> HIDE DEF content
<1>6. EventOK(Captured(pending, content), written, closed)
  BY <1>5 DEF EventOK, Captured
<1> QED
  BY <1>2, <1>6, EmitUntorn, NonePendingOK DEF Untorn

(* A closed pipe gets no more, and an open one only more.                  *)
LEMMA SourceUntorn ==
  ASSUME IInv, Untorn, NEW pipe \in Pipes, SourceWrites(pipe) \/ SourceCloses(pipe)
  PROVE  Untorn'
<1>1. UNCHANGED <<pending, slots, events>>
  BY DEF SourceWrites, SourceCloses, pendingVars
<1>2. \A p \in Pipes : /\ written[p] \in Nat /\ written'[p] \in Nat /\ written[p] <= written'[p]
                       /\ p \in closed => p \in closed' /\ written'[p] = written[p]
  BY WatcherAssumption DEF SourceWrites, SourceCloses, IInv, TypeOK
<1>3. ASSUME NEW flavor, NEW p, IsAll(flavor, p, written, closed)
      PROVE  IsAll(flavor, p, written', closed')
  <2>1. p \in Pipes
    BY <1>3 DEF IsAll, IInv, TypeOK
  <2> QED
    BY <1>2, <1>3, <2>1 DEF IsAll
<1>4. ASSUME NEW flavor, NEW p, SlotOK(flavor, p, written, closed), flavor.state # "reading"
      PROVE  SlotOK(flavor, p, written', closed')
  BY <1>3, <1>4 DEF SlotOK
<1>5. EventsOK'
  <2> SUFFICES ASSUME NEW k \in DOMAIN events PROVE EventOK(events[k], written', closed')
    BY <1>1 DEF EventsOK
  <2>1. EventOK(events[k], written, closed)
    BY DEF Untorn, EventsOK
  <2>2. \A m \in DOMAIN events[k].slots : events[k].slots[m].state # "reading"
    BY <2>1 DEF EventOK, IsSettled
  <2> QED
    BY <1>4, <2>1, <2>2 DEF EventOK, SlotsOK
<1>6. ASSUME NEW m \in DOMAIN slots PROVE SlotOK(slots[m], <<pending, m>>, written', closed')
  <2>1. SlotOK(slots[m], <<pending, m>>, written, closed)
    BY DEF Untorn, SlotsOK
  <2>2. CASE slots[m].state = "reading"
    <3>1. <<pending, m>> \in Pipes
      BY <2>2 DEF IInv, NothingStale, PendingIsOpen, IsOpen, TypeOK
    <3>2. Len(slots[m].data) \in Nat
      BY LenProperties DEF IInv, TypeOK, AreSlots, Flavor
    <3>3. IsPrefix(slots[m].data, <<pending, m>>, written')
      BY <1>2, <2>1, <2>2, <3>1, <3>2 DEF SlotOK, IsPrefix
    <3> QED
      BY <2>2, <3>3 DEF SlotOK
  <2> QED
    BY <1>4, <2>1, <2>2
<1> QED
  BY <1>1, <1>5, <1>6 DEF Untorn, SlotsOK

LEMMA DaemonReceivesUntorn ==
  ASSUME IInv, Untorn, DaemonReceives
  PROVE  Untorn'
<1>1. events \in Seq(Event) /\ events # << >> /\ events' = Tail(events)
  BY DEF DaemonReceives, IInv
<1>2. /\ DOMAIN events' = 1 .. Len(events) - 1 /\ DOMAIN events = 1 .. Len(events)
      /\ Len(events) \in Nat
      /\ \A k \in 1 .. Len(events) - 1 : events'[k] = events[k + 1]
  BY <1>1, HeadTailProperties, LenProperties
<1>3. \A k \in DOMAIN events' : \E j \in DOMAIN events : events'[k] = events[j]
  BY <1>2
<1>4. UNCHANGED <<pending, slots, written, closed>>
  BY DEF DaemonReceives, pendingVars, sourceVars
<1> QED
  BY <1>3, <1>4 DEF Untorn, EventsOK

LEMMA NextUntorn == IInv /\ Untorn /\ [Next]_vars => Untorn'
<1> SUFFICES ASSUME IInv, Untorn, [Next]_vars PROVE Untorn'
  OBVIOUS
<1>1. ASSUME SelectionCleared PROVE Untorn'
  <2>1. NothingPending /\ events' = events /\ written' = written /\ closed' = closed
    BY <1>1 DEF SelectionCleared, sourceVars
  <2>2. EventsOK'
    BY <2>1 DEF Untorn, EventsOK
  <2> QED
    BY <2>1, <2>2, NonePendingOK DEF Untorn
<1>2. ASSUME UNCHANGED vars PROVE Untorn'
  <2>1. UNCHANGED <<pending, slots, events, written, closed>>
    BY <1>2 DEF vars, pendingVars, sourceVars
  <2> QED
    BY <2>1 DEF Untorn, EventsOK
<1> QED
  BY <1>1, <1>2, SelectionChangedUntorn, OnFlavorReadableUntorn, OnReadTimeoutUntorn, SourceUntorn,
     DaemonReceivesUntorn DEF Next

(* The daemon never gets a torn flavor: each flavor of an event is dropped  *)
(* or all that its source wrote until it closed the pipe, and no more than  *)
(* the cap, whatever was abandoned, failed or timed out in between.         *)
THEOREM NoneIsTorn == Spec => []WholeOrDropped
<1>1. Init => Untorn
  BY DEF Init, Untorn, EventsOK, SlotsOK
<1> QED
  BY <1>1, NextUntorn, UntornIsWhole, Invariance, PTL DEF Spec
=============================================================================
