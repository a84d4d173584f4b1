------------------------------ MODULE CbiTypes ------------------------------
(***************************************************************************)
(* The values that cross the interfaces of the CBI transport: the status   *)
(* codes of include/m65/cbi.h and include/m65/transport.h, the commands    *)
(* the engine tells apart, and the sense data it reads back.               *)
(***************************************************************************)
EXTENDS Integers

CONSTANTS
  Codes,      \* ASC/ASCQ pairs, as one value each; 0 is the pair <<0, 0>>
  Keys        \* UFI sense keys that occur; 0 and 1 are not failures

ASSUME CodesAssumption == 0 \in Codes
ASSUME KeysAssumption == 0 \in Keys /\ Keys \subseteq 0..15

\* M65CbiIoStatus: what one call of the platform adapter returns.
IoStatus == {"OK", "STALL", "PERMISSION", "NO_DEVICE", "TIMEOUT", "ERROR",
             "PROTOCOL"}

\* M65TransportStatus: what the transport returns to the probe workflow.
TransportStatus == {"OK", "PERMISSION", "NO_DEVICE", "TIMEOUT", "IO",
                    "PROTOCOL"}

Direction == {"NONE", "IN", "OUT"}

Opcode == {"REQUEST_SENSE", "READ_10", "MODE_SELECT_10", "OTHER"}

\* A command as the engine sees it.  allowed is the verdict of
\* m65_validate_command; cdb_length is compared with the 12-byte block.
Command == [op : Opcode, direction : Direction, allowed : BOOLEAN,
            cdb_length : Nat]

\* How the byte count of a bulk phase compares with the buffer.
Size == {"zero", "short", "exact", "over"}

Sense == [valid : BOOLEAN, key : Keys, code : Codes]
NoSense == [valid |-> FALSE, key |-> 0, code |-> 0]

\* map_io_status: the transport status reported for an adapter status.
map_io_status(s) ==
  CASE s = "ERROR" -> "IO"
    [] s = "STALL" -> "PROTOCOL"
    [] OTHER -> s

\* Mutant: a timeout counts as harmless.
MutTimeoutKeepsPhase(s) == s \in {"PROTOCOL", "ERROR"}

\* io_status_loses_phase: the statuses after which host and device may
\* disagree about the phase of the command.
io_status_loses_phase(s) == s \in {"TIMEOUT", "PROTOCOL", "ERROR"}
=============================================================================
