----------------------------- MODULE MCKiwiLink -----------------------------
(* KiwiLink with a few settings, messages and sources, and a claim of the   *)
(* browser transport that its counterexample refutes.                       *)
EXTENDS KiwiLink

(* A setting is held back until the link can accept it ("Two separate       *)
(* gates: the socket may not be open yet, and the Kiwi ignores commands     *)
(* sent before IQ mode is configured", web.rs:188).                         *)
HeldUntilAccepted == ~kiwi.ignored
=============================================================================
