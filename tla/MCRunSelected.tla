---------------------------- MODULE MCRunSelected ----------------------------
(* TLC instance of RunSelected: one READ (10) per image, a file written in   *)
(* one or two pieces.                                                        *)
EXTENDS RunSelected

MCChunks == 1
MCBlocks == 2
=============================================================================
