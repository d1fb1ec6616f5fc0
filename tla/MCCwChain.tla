----------------------------- MODULE MCCwChain -----------------------------
(* CwChain for TLC: filters and windows of two or three samples, blocks on  *)
(* both sides of MinBlock, and two changes of the settings.                 *)
EXTENDS CwChain
=============================================================================
