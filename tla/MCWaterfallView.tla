--------------------------- MODULE MCWaterfallView ---------------------------
(* Small instances of WaterfallView for TLC. *)
EXTENDS WaterfallView

MCWidths == {1, 2}
=============================================================================
