-------------------------- MODULE MCLocalReceivers --------------------------
(* Small instances of LocalReceivers for TLC. *)
EXTENDS LocalReceivers

MCDrivers == {"airspyhf", "rtlsdr", "soapy", "qmx"}
=============================================================================
