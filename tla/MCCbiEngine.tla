----------------------------- MODULE MCCbiEngine -----------------------------
(* TLC instance of CbiEngine: one command of every kind the engine tells    *)
(* apart, and three that it must refuse.                                    *)
EXTENDS CbiContract

Cdb(op, dir, allowed, len) ==
  [op |-> op, direction |-> dir, allowed |-> allowed, cdb_length |-> len]

MCCommands ==
  { Cdb("OTHER", "NONE", TRUE, 6),              \* TEST UNIT READY
    Cdb("OTHER", "IN", TRUE, 10),               \* INQUIRY, MODE SENSE, ...
    Cdb("READ_10", "IN", TRUE, 10),
    Cdb("REQUEST_SENSE", "IN", TRUE, 6),
    Cdb("MODE_SELECT_10", "OUT", TRUE, 10),
    Cdb("OTHER", "OUT", FALSE, 10),             \* not on the allowlist
    Cdb("OTHER", "OUT", TRUE, 10),              \* data-out of another opcode
    Cdb("OTHER", "IN", TRUE, 16) }              \* longer than a CBI block

MCCodes == {0, 1}
MCKeys == {0, 1, 5}
=============================================================================
