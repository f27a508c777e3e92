------------------------------ MODULE Settings ------------------------------
(***************************************************************************)
(* clippo-core's config.rs and chord.rs: what a config file sets, and what *)
(* the daemon does not start with.  A file is what parsing it gives: for   *)
(* each key the set of the one value it has there, or {}.                  *)
(***************************************************************************)
EXTENDS Integers, Sequences

(* The keys that are numbers: defaults and the ranges they are checked for. *)
Default ==
  [max_entries |-> 500, max_age_days |-> 30, max_image_bytes |-> 8 * 1024 * 1024,
   mask_prefix |-> 2, mask_suffix |-> 2]
Least ==
  [max_entries |-> 1, max_age_days |-> 0, max_image_bytes |-> 0,
   mask_prefix |-> 0, mask_suffix |-> 0]
MaxMaskContext == 16
Most ==
  [max_entries |-> 100000, max_age_days |-> 36500, max_image_bytes |-> 1024 * 1024 * 1024,
   mask_prefix |-> MaxMaskContext, mask_suffix |-> MaxMaskContext]
NumberKeys == {"max_entries", "max_age_days", "max_image_bytes", "mask_prefix", "mask_suffix"}

DefaultSwitch ==
  [capture_primary |-> FALSE, auto_paste |-> TRUE, allow_privileged_members |-> TRUE,
   entropy_rule |-> TRUE]
SwitchKeys == {"capture_primary", "auto_paste", "allow_privileged_members", "entropy_rule"}

-----------------------------------------------------------------------------
(* Shortcuts.  A part is a trimmed, lowercase, non-empty word.             *)

Modifiers == {"ctrl", "alt", "logo", "shift"}
MeansCtrl == {"ctrl", "control"}
MeansLogo == {"super", "meta", "logo", "win"}
MeansAlt  == {"alt", "option"}
ModifierWords == MeansCtrl \cup MeansLogo \cup MeansAlt \cup {"shift"}

ModifierOf(word) == CASE word \in MeansCtrl -> "ctrl"
                      [] word \in MeansLogo -> "logo"
                      [] word \in MeansAlt  -> "alt"
                      [] OTHER              -> "shift"

(* A few of the keys of the table, and their codes: 37 in the code.        *)
KeyCodes == [v |-> 47, x |-> 45, c |-> 46, insert |-> 110]

(* from_str: the set of the chord the parts spell, {} if they spell none.  *)
ParsesAsChord(parts) ==
  /\ parts # << >>
  /\ parts[Len(parts)] \in DOMAIN KeyCodes
  /\ \A i \in 1..(Len(parts) - 1) :
       /\ parts[i] \in ModifierWords
       /\ \A j \in 1..(i - 1) : ModifierOf(parts[j]) # ModifierOf(parts[i])

Chords(parts) ==
  IF ParsesAsChord(parts)
  THEN {[holds |-> {ModifierOf(parts[i]) : i \in 1..(Len(parts) - 1)},
         key   |-> KeyCodes[parts[Len(parts)]]]}
  ELSE {}

(* modifier_keys, in the order they are pressed.                           *)
PressOrder == <<"ctrl", "alt", "logo", "shift">>
ModifierKeysOf(chord) == SelectSeq(PressOrder, LAMBDA m : m \in chord.holds)

DefaultShortcut == <<"ctrl", "v">>

-----------------------------------------------------------------------------
(* resolve.                                                                *)

Chosen(given, default) == IF given = {} THEN default ELSE CHOOSE x \in given : TRUE

Number(raw, k) == Chosen(raw.numbers[k], Default[k])

(* checked, of what the file says; what it does not say is not checked.    *)
InRange(raw, k) == \A x \in raw.numbers[k] : Least[k] <= x /\ x <= Most[k]

Shortcuts(raw) == Chords(Chosen(raw.shortcut, DefaultShortcut))

IsValid(raw) ==
  /\ \A k \in NumberKeys : InRange(raw, k)
  /\ Number(raw, "mask_prefix") + Number(raw, "mask_suffix") <= MaxMaskContext
  /\ Shortcuts(raw) # {}

Resolved(raw) ==
  [numbers  |-> [k \in NumberKeys |-> Number(raw, k)],
   switches |-> [k \in SwitchKeys |-> Chosen(raw.switches[k], DefaultSwitch[k])],
   shortcut |-> CHOOSE c \in Shortcuts(raw) : TRUE]

Unsaid == [numbers  |-> [k \in NumberKeys |-> {}],
           switches |-> [k \in SwitchKeys |-> {}],
           shortcut |-> {}]

(* Config::load_from: no file is a file that says nothing; one that cannot *)
(* be read or parsed (an unknown key is not parsed), or whose values are   *)
(* out of range, is no configuration at all.                               *)
Load(file) ==
  CASE file.is = "missing"    -> {Resolved(Unsaid)}
    [] file.is = "unreadable" -> {}
    [] file.is = "malformed"  -> {}
    [] OTHER -> IF IsValid(file.raw) THEN {Resolved(file.raw)} ELSE {}

(* max_age: the days an unpinned entry survives, {} if it does for good.   *)
MaxAge(config) ==
  IF config.numbers["max_age_days"] = 0 THEN {} ELSE {config.numbers["max_age_days"]}
=============================================================================
