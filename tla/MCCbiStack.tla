----------------------------- MODULE MCCbiStack -----------------------------
(* TLC instance of CbiStack. *)
EXTENDS CbiStack

Cdb(opcode, dir) ==
  [op |-> opcode, direction |-> dir, allowed |-> TRUE, cdb_length |-> 10]

MCCommands ==
  { Cdb("OTHER", "NONE"), Cdb("READ_10", "IN"), Cdb("MODE_SELECT_10", "OUT") }

MCCodes == {0, 1}
MCKeys == {0}

\* The drive answers CLEAR_FEATURE(ENDPOINT_HALT) without a stall.
MCPipeReturns == {"Success", "Timeout", "BadArgument", "Other"}
=============================================================================
