---------------------------- MODULE EngineClaims ----------------------------
(***************************************************************************)
(* What the repository's comments, tests and texts say of the connection   *)
(* lifecycle and the engine does not keep.  Each is checked by a run of    *)
(* its own, on the unchanged EngineConnection, and found violated there;   *)
(* the README tells each counterexample.                                   *)
(***************************************************************************)
EXTENDS MCEngineConnection

(* The device that runs is the one requested last, where it was tuned last *)
(* ("Build, tune, and start the requested source", source/connection.rs;   *)
(* the test tune_updates_request_center expects both to agree).  A Connect *)
(* handled inside another start_connect is overtaken by the older one.     *)
ConnMatchesRequest == Settled /\ conn # None => conn = request

(* "Set by Disconnect/Cancel so an in-flight connect() can abort promptly" *)
(* (inner/mod.rs): while a cancel is pending, the connect() in progress    *)
(* can see the flag.  start_connect clears a flag that was raised just     *)
(* before, and the Disconnect that follows finds it already connecting.    *)
AbortHeard == CancelPending /\ pc = "connecting" => cancel

(* The count shown as "Reconnecting (attempt n)" (plot/central.rs) counts  *)
(* attempts: it grows only when a connection or an attempt at one fails.   *)
(* The stall check at the end of the same step charges the failure again.  *)
OneChargePerFailure ==
    [][attempt' > attempt => conn # None \/ ~Settled]_vars

(* "exponential-backoff auto-reconnect" (engine/mod.rs): the backoff is    *)
(* kept until the user intervenes or a source delivers.  It restarts when  *)
(* the socket of a network receiver opens, before its handshake, so a      *)
(* receiver that always fails there is retried at the shortest delay.      *)
BackoffKept ==
    [][attempt' < attempt => firstIq' \/ cmdq' # cmdq]_vars
=============================================================================
