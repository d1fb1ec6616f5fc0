--------------------------- MODULE MCLiveControls ---------------------------
(* LiveControls with a receiver of each kind of control.                    *)
EXTENDS LiveControls

MCKinds == {"kiwi", "soapy", "airspy"}
=============================================================================
