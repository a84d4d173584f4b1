------------------------------- MODULE MCData -------------------------------
(* TLC instance of the code that only turns data into data: src/ufi.c,      *)
(* src/json.c with the emitters of src/output.c, and src/layout.c.  They    *)
(* share no state; a behaviour of the run is one of theirs, while the       *)
(* others rest in a final state.                                            *)
EXTENDS MCUfi, MCJson, MCLayout

dvars == <<uvars, jvars, vars>>

DataInit ==
  \/ UfiInit /\ JsonRests /\ LayoutRests
  \/ UfiRests /\ JsonInit /\ LayoutRests
  \/ UfiRests /\ JsonRests /\ Init

DataNext ==
  \/ UfiNext /\ UNCHANGED <<jvars, vars>>
  \/ JsonNext /\ UNCHANGED <<uvars, vars>>
  \/ Next /\ UNCHANGED <<uvars, jvars>>

DataSpec == DataInit /\ [][DataNext]_dvars
=============================================================================
