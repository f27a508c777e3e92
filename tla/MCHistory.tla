----------------------------- MODULE MCHistory -----------------------------
(* Small instances of History: the contents, selections and clock readings *)
(* the runs use.                                                           *)
EXTENDS History

Fl(m, d) == [mime |-> m, data |-> d]
Sel(fs)    == [flavors |-> fs, hinted |-> FALSE]
Hinted(fs) == [flavors |-> fs, hinted |-> TRUE]

MCData        == {"note", "key", "pic", "huge"}
MCOverCap     == {"huge"}
MCUndecodable == {"note"}
MCSecrets     == {"key"}

Utf8  == "text/plain;charset=utf-8"
Note  == Sel(<<Fl(Utf8, "note")>>)
(* The same identity from a password manager: the other spelling, hinted.  *)
NoteHinted == Hinted(<<Fl("text/plain", "note"), Fl(HintMime, "note")>>)
(* A page whose plain text is harmless and whose markup carries the key.   *)
Page  == Sel(<<Fl("text/plain", "note"), Fl("text/html", "key")>>)
(* A screenshot with an oversized second encoding and a repeated flavor.   *)
Shot  == Sel(<<Fl("image/jpeg", "huge"), Fl("image/png", "pic"), Fl("image/png", "note")>>)
(* Only the fallback encoding is too big, and the identity rests on it.    *)
HugeShot == Sel(<<Fl("image/jpeg", "huge"), Fl("text/plain", "note")>>)
(* Nothing with a kind: not a copy clippo can store.                       *)
BareHint == Hinted(<<Fl(HintMime, "note")>>)

AllCaptures  == {Note, NoteHinted, Page, Shot, HugeShot, BareHint}

Ticks == 1 .. 5
=============================================================================
