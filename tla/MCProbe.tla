------------------------------- MODULE MCProbe -------------------------------
(* TLC instance of Probe: two READ (10) commands per image, so that a run   *)
(* can be interrupted or fail at, before and after the first of them.       *)
EXTENDS Probe

MCChunks == 2
=============================================================================
