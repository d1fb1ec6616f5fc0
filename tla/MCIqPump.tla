------------------------------ MODULE MCIqPump ------------------------------
(* IqPump with rings, chunks and a channel small enough to fill, and the   *)
(* two claims of the source that its counterexamples refute.               *)
EXTENDS IqPump

(* IqRecorder::push expects the writer thread to be there ("IQ recorder    *)
(* writer thread stopped", iq_record.rs:158), and a capture that fails is  *)
(* otherwise only logged (connection.rs:138): the engine goes on.          *)
EngineSurvives == epc # "dead"

(* A playback is over ("IQ playback finished") when all of it was drained  *)
(* (the test playback_reads_all_samples counts every sample of the file).  *)
PlayedToTheEnd ==
    [][epc = "check" /\ playing /\ ~playing' => pring = <<>>]_vars
=============================================================================
