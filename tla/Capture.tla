------------------------------ MODULE Capture ------------------------------
(***************************************************************************)
(* What clippo-wayland promises clippod of the selections it reads (the    *)
(* documentation of watch and of WatchEvent): one event for a selection,   *)
(* in the order the selections came, and none for a selection that was     *)
(* replaced before it was read.  An event the daemon has no room for is    *)
(* lost.                                                                   *)
(***************************************************************************)
EXTENDS Naturals, Sequences

CONSTANTS
  Selections,   \* bound: how many selections are announced
  Capacity      \* of the channel to the daemon

VARIABLES
  last,         \* the number of the last selection announced with content
  reading,      \* the number of the one being read, 0 if none is
  told          \* the channel: numbers of the selections in it

captureVars == <<last, reading, told>>

CaptureInit == last = 0 /\ reading = 0 /\ told = << >>

Tell(selection) == told' = IF Len(told) < Capacity THEN Append(told, selection) ELSE told

(* A new selection: what was being read is forgotten.                      *)
Announced ==
  /\ last < Selections
  /\ last' = last + 1
  /\ \/ reading' = last' /\ UNCHANGED told
     \/ reading' = 0 /\ Tell(last')

ClipboardCleared == reading' = 0 /\ UNCHANGED <<last, told>>

ReadToTheEnd == reading # 0 /\ Tell(reading) /\ reading' = 0 /\ UNCHANGED last

Taken == told # << >> /\ told' = Tail(told) /\ UNCHANGED <<last, reading>>

CaptureNext == Announced \/ ClipboardCleared \/ ReadToTheEnd \/ Taken

CaptureSpec == CaptureInit /\ [][CaptureNext]_captureVars
=============================================================================
