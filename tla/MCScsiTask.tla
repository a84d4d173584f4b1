----------------------------- MODULE MCScsiTask -----------------------------
(* TLC instance of ScsiTask: a registry path of four entries.               *)
EXTENDS ScsiTask
=============================================================================
