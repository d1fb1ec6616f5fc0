----------------------------- MODULE MCAudioOut -----------------------------
(* Small instances of AudioOut for TLC. *)
EXTENDS AudioOut

MCBackends == {"cpal", "web"}
MCSteps == {1, 3}
=============================================================================
