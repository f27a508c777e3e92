--------------------------- MODULE MCPasteWrites ---------------------------
(* Small instances of PasteWrites: what clippo offers in turn.             *)
EXTENDS PasteWrites

(* A blob that takes several pushes, then one that fits a pipe whole.      *)
LongThenShort == <<3, 1>>
=============================================================================
