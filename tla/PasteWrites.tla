---------------------------- MODULE PasteWrites ----------------------------
(***************************************************************************)
(* The pastes clippo answers (clippo-wayland, watch.rs and offer.rs): each *)
(* application that pastes hands the watcher a pipe, the first push is made *)
(* at once, and what does not fit is parked in the event loop under an id, *)
(* with a timer and a place in a bounded queue.                            *)
(*                                                                         *)
(* Every callback of the loop is one step.  The pipes and the applications *)
(* that read them are external.  An application asks for one flavor, and   *)
(* one that was never offered is refused like one of a superseded source.  *)
(***************************************************************************)
EXTENDS Integers, Sequences, FiniteSets, Functions

CONSTANTS
  Requests,     \* the pastes applications ask for, each with its pipe
  Sizes,        \* bound: the blobs clippo offers in turn, by their chunks
  Room,         \* chunks a pipe holds
  MaxPending,   \* max_pending_pastes
  Fallible      \* whether fcntl or a registration in the loop may fail

ASSUME PasteAssumption ==
  /\ Sizes \in Seq(Nat)
  /\ Room \in Nat \ {0}
  /\ MaxPending \in Nat \ {0}
  /\ Fallible \in BOOLEAN

VARIABLES
  sources,      \* how many sources clippo has created
  offered,      \* the source it offers, 0 when it owns nothing
  asked,        \* the source each paste was asked of, 0 before it is asked
  sent,         \* the chunks written into each pipe so far
  drained,      \* how many of them the application has read
  gone,         \* pipes whose application closed its end
  writes,       \* pastes still being written, by id
  write_order,  \* their ids, the oldest first
  next_write,
  loop,         \* pipes registered in the event loop, by id of the paste
  timers        \* ids of the pastes whose timer is registered

pipeVars == <<asked, sent, drained, gone>>
loopVars == <<writes, write_order, next_write, loop, timers>>
vars == <<sources, offered, pipeVars, loopVars>>

Sources == DOMAIN Sizes

(* A chunk is known by the source it came from and its place in the blob.  *)
Blob(source) == [k \in 1 .. Sizes[source] |-> <<source, k>>]

(* PendingWrite and its BlobWriter.                                        *)
Write == [source : Sources, written : Nat, timed : BOOLEAN]

PipesOK ==
  /\ sources \in 0 .. Len(Sizes) /\ offered \in 0 .. sources
  /\ asked \in [Requests -> 0 .. sources]
  /\ sent \in [Requests -> Seq(Sources \X Nat)]
  /\ drained \in [Requests -> Nat]
  /\ \A r \in Requests : Len(sent[r]) - drained[r] \in 0 .. Room
  /\ gone \subseteq Requests

LoopOK ==
  /\ next_write \in Nat
  /\ DOMAIN writes \subseteq 0 .. next_write - 1
  /\ writes \in [DOMAIN writes -> Write]
  /\ DOMAIN loop \subseteq 0 .. next_write - 1
  /\ loop \in [DOMAIN loop -> Requests]
  /\ timers \subseteq 0 .. next_write - 1
  /\ write_order \in Seq(0 .. next_write - 1)

TypeOK == PipesOK /\ LoopOK

Init ==
  /\ sources = 0 /\ offered = 0
  /\ asked = [r \in Requests |-> 0]
  /\ sent = [r \in Requests |-> << >>] /\ drained = [r \in Requests |-> 0] /\ gone = {}
  /\ writes = << >> /\ write_order = << >> /\ next_write = 0
  /\ loop = << >> /\ timers = {}

-----------------------------------------------------------------------------
(* What clippo offers.                                                     *)

(* take_selection: the new source replaces the old one, and pastes of the  *)
(* old one go on.  Of an entry with no usable flavor nothing is taken.     *)
TakeSelection ==
  /\ sources < Len(Sizes)
  /\ sources' = sources + 1
  /\ offered' = sources'
  /\ UNCHANGED <<pipeVars, loopVars>>

(* source_cancelled: of the source offered now, or of one already replaced. *)
(* The pastes go on here too; the event it emits is Clipboard's subject.   *)
SourceCancelled(source) ==
  /\ source \in 1 .. sources
  /\ offered' = IF source = offered THEN 0 ELSE offered
  /\ UNCHANGED <<sources, pipeVars, loopVars>>

-----------------------------------------------------------------------------
(* BlobWriter::pump.                                                       *)

Space(r) == Room - (Len(sent[r]) - drained[r])

Lesser(a, b) == IF a <= b THEN a ELSE b

(* How far a push gets: until the blob is written or the pipe is full, and *)
(* nowhere if nobody reads.                                                *)
Pumped(r, source, written) ==
  IF r \in gone THEN written ELSE Lesser(Sizes[source], written + Space(r))

(* Mutant: the bytes come from whatever is offered when they are written.  *)
FromOffered(r, source, written) ==
  sent' = [sent EXCEPT ![r] =
    @ \o [k \in 1 .. Pumped(r, source, written) - written |->
           <<IF offered = 0 THEN source ELSE offered, written + k>>]]

Push(r, source, written) ==
  sent' = [sent EXCEPT ![r] =
    @ \o SubSeq(Blob(source), written + 1, Pumped(r, source, written))]

Blocks(r, source, written) ==
  r \notin gone /\ Pumped(r, source, written) < Sizes[source]

-----------------------------------------------------------------------------
(* Parking a paste.                                                        *)

(* Mutant: the limit is taken for the number that must not be reached.     *)
HasRoomEarly(popped) ==
  \/ popped = Len(write_order)
  \/ Cardinality(DOMAIN writes \ {write_order[k] : k \in 1 .. popped}) + 1 < MaxPending

(* make_room_for_a_write pops ids off the front until there is room or no  *)
(* id is left; an id without a write is passed over.                       *)
HasRoom(popped) ==
  \/ popped = Len(write_order)
  \/ Cardinality(DOMAIN writes \ {write_order[k] : k \in 1 .. popped}) < MaxPending

(* Mutant: the limit is looked at after the paste is parked, not before.   *)
PoppedLate == IF Cardinality(DOMAIN writes) > MaxPending THEN 1 ELSE 0

Popped == CHOOSE k \in 0 .. Len(write_order) : HasRoom(k) /\ \A j \in 0 .. k - 1 : ~HasRoom(j)

Evicted == {write_order[k] : k \in 1 .. Popped}

(* begin_write, of a pipe that blocks.  The id is spent and the oldest     *)
(* paste gone even when the loop then refuses the pipe.                    *)
Park(r, source) ==
  LET id       == next_write
      kept     == DOMAIN writes \ Evicted
      waiting  == SubSeq(write_order, Popped + 1, Len(write_order))
      write(timed) == [source |-> source, written |-> Pumped(r, source, 0), timed |-> timed]
  IN  /\ next_write' = id + 1
      /\ \/ \E timed \in IF Fallible THEN BOOLEAN ELSE {TRUE} :
              /\ writes' = [i \in kept \cup {id} |-> IF i = id THEN write(timed) ELSE writes[i]]
              /\ write_order' = Append(waiting, id)
              /\ loop' = [i \in (DOMAIN loop \ Evicted) \cup {id} |-> IF i = id THEN r ELSE loop[i]]
              /\ timers' = (timers \ Evicted) \cup {i \in {id} : timed}
         \/ /\ Fallible
            /\ writes' = Restrict(writes, kept)
            /\ write_order' = waiting
            /\ loop' = Restrict(loop, DOMAIN loop \ Evicted)
            /\ timers' = timers \ Evicted

(* begin_write: the pipe is refused, answered or lost in one push, or parked. *)
BeginWrite(r, source) ==
  \/ Fallible /\ UNCHANGED <<sent, loopVars>>
  \/ /\ ~Blocks(r, source, 0)
     /\ Push(r, source, 0)
     /\ UNCHANGED loopVars
  \/ /\ Blocks(r, source, 0)
     /\ Push(r, source, 0)
     /\ Park(r, source)

(* source_send: a paste of a source that is not the one offered is dropped, *)
(* which closes its pipe.                                                  *)
SourceSend(r, source) ==
  /\ asked[r] = 0 /\ source \in 1 .. sources
  /\ asked' = [asked EXCEPT ![r] = source]
  /\ IF source = offered THEN BeginWrite(r, source) ELSE UNCHANGED <<sent, loopVars>>
  /\ UNCHANGED <<sources, offered, drained, gone>>

-----------------------------------------------------------------------------
(* The callbacks of a parked paste.                                        *)

(* retain: an id is queued once.                                           *)
Without(queue, id) ==
  LET at == CHOOSE k \in DOMAIN queue : queue[k] = id
  IN  SubSeq(queue, 1, at - 1) \o SubSeq(queue, at + 1, Len(queue))

(* Mutant: remove_source is false whoever resolves the paste.              *)
ForgetKeepsPipe(id) ==
  /\ writes' = Restrict(writes, DOMAIN writes \ {id})
  /\ write_order' = Without(write_order, id)
  /\ timers' = timers \ {id}
  /\ UNCHANGED <<next_write, loop>>

(* forget_write, and the removal from the map before it.  The pipe leaves  *)
(* the loop, by this call or by the PostAction of its own callback, and is *)
(* closed.                                                                 *)
ForgetWrite(id) ==
  /\ writes' = Restrict(writes, DOMAIN writes \ {id})
  /\ write_order' = Without(write_order, id)
  /\ loop' = Restrict(loop, DOMAIN loop \ {id})
  /\ timers' = timers \ {id}
  /\ UNCHANGED next_write

(* on_write_ready: the loop reports a pipe that has room or lost its reader. *)
OnWriteReady(id) ==
  /\ id \in DOMAIN loop
  /\ Space(loop[id]) > 0 \/ loop[id] \in gone
  /\ IF id \notin DOMAIN writes
     THEN /\ loop' = Restrict(loop, DOMAIN loop \ {id})
          /\ UNCHANGED <<sent, writes, write_order, next_write, timers>>
     ELSE LET w == writes[id]
              r == loop[id]
          IN  /\ Push(r, w.source, w.written)
              /\ IF Blocks(r, w.source, w.written)
                 THEN /\ writes' = [writes EXCEPT ![id].written = Pumped(r, w.source, w.written)]
                      /\ UNCHANGED <<write_order, next_write, loop, timers>>
                 ELSE ForgetWrite(id)
  /\ UNCHANGED <<sources, offered, asked, drained, gone>>

(* on_write_timeout: a timer fires once.                                   *)
OnWriteTimeout(id) ==
  /\ id \in timers
  /\ IF id \in DOMAIN writes
     THEN ForgetWrite(id)
     ELSE timers' = timers \ {id} /\ UNCHANGED <<writes, write_order, next_write, loop>>
  /\ UNCHANGED <<sources, offered, pipeVars>>

-----------------------------------------------------------------------------
(* The applications.                                                       *)

AppReads(r) ==
  /\ r \notin gone /\ drained[r] < Len(sent[r])
  /\ drained' = [drained EXCEPT ![r] = @ + 1]
  /\ UNCHANGED <<sources, offered, asked, sent, gone, loopVars>>

AppCloses(r) ==
  /\ r \notin gone
  /\ gone' = gone \cup {r}
  /\ UNCHANGED <<sources, offered, asked, sent, drained, loopVars>>

Ids == 0 .. Cardinality(Requests) - 1

WatcherNext ==
  \/ TakeSelection
  \/ \E s \in Sources : SourceCancelled(s)
  \/ \E r \in Requests, s \in Sources : SourceSend(r, s)
  \/ \E id \in Ids : OnWriteReady(id) \/ OnWriteTimeout(id)

Next == WatcherNext \/ \E r \in Requests : AppReads(r) \/ AppCloses(r)

Spec == Init /\ [][Next]_vars

(* A timer that is registered fires: the loop runs until it is stopped and *)
(* the clock does not stop.                                                *)
FairSpec == Spec /\ \A id \in Ids : WF_vars(OnWriteTimeout(id))

-----------------------------------------------------------------------------
Increasing(queue) == \A j, k \in DOMAIN queue : j < k => queue[j] < queue[k]

(* The map, the queue and the loop tell one story: every parked paste has  *)
(* its place in the queue, its pipe in the loop and its timer if one could *)
(* be armed, and nothing else of a paste is left behind.                   *)
Accounted ==
  /\ DOMAIN loop = DOMAIN writes
  /\ timers = {id \in DOMAIN writes : writes[id].timed}
  /\ Range(write_order) = DOMAIN writes
  /\ Increasing(write_order)

(* However many applications stop reading, clippo holds at most            *)
(* max_pending_pastes pipes open for them.                                 *)
PipesBounded == Cardinality(DOMAIN loop) <= MaxPending

PastesAreAccounted == Accounted /\ PipesBounded

(* What an application can read is the start of the blob it asked for,     *)
(* whatever clippo came to offer while the paste was being written, and a  *)
(* parked paste goes on exactly where it stopped.                          *)
BytesAreTheBlobs ==
  /\ \A r \in Requests :
       IF asked[r] = 0 THEN sent[r] = << >>
       ELSE /\ Len(sent[r]) <= Sizes[asked[r]]
            /\ sent[r] = SubSeq(Blob(asked[r]), 1, Len(sent[r]))
  /\ \A id \in DOMAIN writes \cap DOMAIN loop :
       LET r == loop[id]
       IN  writes[id].source = asked[r] /\ writes[id].written = Len(sent[r])

(* A parked paste ends when it is written or its reader is gone, when its  *)
(* own timer fires, or as the oldest of max_pending_pastes when one more   *)
(* has to be parked: never for a paste that could have waited beside it.   *)
EndsForAReason ==
  [][\A id \in DOMAIN loop \ DOMAIN loop' :
       \/ Len(sent'[loop[id]]) = Sizes[asked[loop[id]]]
       \/ loop[id] \in gone
       \/ id \in timers /\ next_write' = next_write
       \/ /\ next_write' = next_write + 1
          /\ Cardinality(DOMAIN loop) = MaxPending
          /\ \A other \in DOMAIN loop : id <= other]_vars

(* No application keeps a pipe of clippo's open for good, if the timer     *)
(* could be armed.                                                         *)
EveryPasteEnds == \A id \in Ids : id \in timers ~> id \notin DOMAIN loop
=============================================================================
