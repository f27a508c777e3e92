--------------------------- MODULE VirtualKeyboard ---------------------------
(***************************************************************************)
(* clippo-wayland's keys.rs: the virtual keyboard clippod presses the      *)
(* paste shortcut on.  Senders take a lock and queue the requests of one   *)
(* chord; a flush puts them on the wire, whole or in part, and the         *)
(* compositor, which is external, handles them in order and in its own     *)
(* time.  The connection may break, and a sender may fail at any step.     *)
(***************************************************************************)
EXTENDS Naturals, Sequences

CONSTANTS
  Senders,       \* the calls that may press the shortcut
  ModifierKeys   \* the keys of the shortcut's modifiers, in their order

VARIABLES
  alive,         \* whether the compositor still has the connection
  holder,        \* the senders inside the lock: none or one
  place,         \* what each sender does next: an index in Script, 0 if nothing
  outbox,        \* requests queued in the client and not yet written
  wire,          \* requests written and not yet handled by the compositor
  held,          \* the keys the compositor believes are down
  mask           \* the modifiers it believes are active

keyboardVars == <<alive, holder, place, outbox, wire, held, mask>>

Mask == {ModifierKeys[i] : i \in DOMAIN ModifierKeys}
Key  == "key"      \* the key of the shortcut that is no modifier

SetModifiers(keys) == [type |-> "modifiers", keys |-> keys]
Press(k)           == [type |-> "press", key |-> k]
Release(k)         == [type |-> "release", key |-> k]
Flush              == [type |-> "flush"]
Sync               == [type |-> "sync"]

(* Mutant: the modifiers of the chord are not released, only its key is.   *)
ReleasesOfTheKey == <<Release(Key), SetModifiers({})>>

(* Mutant: the modifiers are set when the keys have been pressed.          *)
PressesFirst ==
  [i \in DOMAIN ModifierKeys |-> Press(ModifierKeys[i])] \o <<Press(Key), SetModifiers(Mask)>>

(* send, in its order; a round trip is a flush and an answer.              *)
Presses ==
  <<SetModifiers(Mask)>> \o [i \in DOMAIN ModifierKeys |-> Press(ModifierKeys[i])]
                         \o <<Press(Key)>>
Releases ==
  <<Release(Key)>> \o [i \in DOMAIN ModifierKeys |->
                         Release(ModifierKeys[Len(ModifierKeys) + 1 - i])]
                   \o <<SetModifiers({})>>
Script == Presses \o <<Flush>> \o Releases \o <<Flush, Sync>>

KeyboardTypeOK ==
  /\ alive \in BOOLEAN
  /\ holder \subseteq Senders
  /\ place \in [Senders -> 0..Len(Script)]
  /\ held \subseteq Mask \cup {Key} /\ mask \subseteq Mask

(* VirtualKeyboard::new: connected, and nothing pressed.                   *)
KeyboardIsNew ==
  /\ alive = TRUE /\ holder = {} /\ place = [s \in Senders |-> 0]
  /\ outbox = << >> /\ wire = << >> /\ held = {} /\ mask = {}

-----------------------------------------------------------------------------
Sending(s)   == place[s] # 0
Does(s, act) == Sending(s) /\ Script[place[s]] = act
Onward(s)    == place' = [place EXCEPT ![s] = @ + 1]

(* The lock: one sender at a time.                                         *)
Lock(s) ==
  /\ ~Sending(s)
  /\ holder = {} /\ holder' = {s}
  /\ place' = [place EXCEPT ![s] = 1]
  /\ UNCHANGED <<alive, outbox, wire, held, mask>>

(* A request is queued in the client; which sender it is of is not sent.   *)
Queue(s) ==
  /\ Sending(s) /\ Script[place[s]] \notin {Flush, Sync}
  /\ outbox' = Append(outbox, [by |-> s, does |-> Script[place[s]]])
  /\ Onward(s)
  /\ UNCHANGED <<alive, holder, wire, held, mask>>

(* All that is queued is written, what an earlier send left there included. *)
Write(s) ==
  /\ Does(s, Flush) /\ alive
  /\ wire' = wire \o outbox /\ outbox' = << >>
  /\ Onward(s)
  /\ UNCHANGED <<alive, holder, held, mask>>

(* Mutant: a send that fails returns with the lock still taken.            *)
KeepLock(s) == UNCHANGED holder /\ place' = [place EXCEPT ![s] = 0]

(* The guard is dropped on every way out of send, a panic's included, and  *)
(* a poisoned lock is taken like any other.                                *)
Unlock(s) == holder' = holder \ {s} /\ place' = [place EXCEPT ![s] = 0]

(* A flush or a round trip fails: the connection is gone, or its buffer is *)
(* full, and then what did not fit stays queued.                           *)
WriteFails(s) ==
  /\ Does(s, Flush)
  /\ \/ ~alive /\ UNCHANGED <<outbox, wire>>
     \/ /\ alive
        /\ \E n \in 0..(Len(outbox) - 1) :
             /\ wire' = wire \o SubSeq(outbox, 1, n)
             /\ outbox' = SubSeq(outbox, n + 1, Len(outbox))
  /\ Unlock(s)
  /\ UNCHANGED <<alive, held, mask>>

SyncFails(s) == /\ Does(s, Sync) /\ ~alive
                /\ Unlock(s)
                /\ UNCHANGED <<alive, outbox, wire, held, mask>>

(* A panic between two requests, which the lock's comment allows for.      *)
Panics(s) == /\ Sending(s) /\ Script[place[s]] \notin {Flush, Sync}
             /\ Unlock(s)
             /\ UNCHANGED <<alive, outbox, wire, held, mask>>

SendFails(s) == WriteFails(s) \/ SyncFails(s) \/ Panics(s)

(* The round trip is answered when all before it has been handled.         *)
Sent(s) ==
  /\ Does(s, Sync) /\ alive /\ wire = << >>
  /\ Unlock(s)
  /\ UNCHANGED <<alive, outbox, wire, held, mask>>

-----------------------------------------------------------------------------
(* The compositor.                                                         *)

Arrives ==
  /\ wire # << >> /\ wire' = Tail(wire)
  /\ LET does == Head(wire).does
     IN  \/ does.type = "modifiers" /\ mask' = does.keys /\ UNCHANGED held
         \/ does.type = "press" /\ held' = held \cup {does.key} /\ UNCHANGED mask
         \/ does.type = "release" /\ held' = held \ {does.key} /\ UNCHANGED mask
  /\ UNCHANGED <<alive, holder, place, outbox>>

(* The connection breaks, and the keyboard and what it held go with it.    *)
Breaks ==
  /\ alive /\ alive' = FALSE
  /\ outbox' = << >> /\ wire' = << >> /\ held' = {} /\ mask' = {}
  /\ UNCHANGED <<holder, place>>

(* The daemon ends, and another has a keyboard of its own.                 *)
KeyboardReplaced ==
  /\ alive' = TRUE /\ holder' = {} /\ place' = [s \in Senders |-> 0]
  /\ outbox' = << >> /\ wire' = << >> /\ held' = {} /\ mask' = {}

-----------------------------------------------------------------------------
(* Properties.                                                             *)

Struck(s) == wire # << >> /\ Head(wire) = [by |-> s, does |-> Press(Key)]

(* The key of the shortcut reaches the window with all of the shortcut's   *)
(* modifiers, whatever other calls are pressing it and whatever an earlier *)
(* one left half done: a paste never types a bare letter.                  *)
KeyIsWhole == \A s \in Senders : Struck(s) => mask = Mask /\ Mask \subseteq held
=============================================================================
