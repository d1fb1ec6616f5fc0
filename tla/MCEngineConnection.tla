------------------------- MODULE MCEngineConnection -------------------------
(* EngineConnection with one network receiver and one local device. *)
EXTENDS EngineConnection

CONSTANTS kiwi, local, c1

MCDest == {kiwi, local}
MCKiwiDest == {kiwi}
MCCenter == {c1}
=============================================================================
