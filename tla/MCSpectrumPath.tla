--------------------------- MODULE MCSpectrumPath ---------------------------
(* Small instances of SpectrumPath for TLC. *)
EXTENDS SpectrumPath

MCRowCaps == {1, 2}
=============================================================================
