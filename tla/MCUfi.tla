------------------------------- MODULE MCUfi -------------------------------
(* TLC instance of the three parts of src/ufi.c, which share no state: a    *)
(* behaviour is one of UfiParse, of Geometry or of UfiCommands, while the   *)
(* other two rest in a final state.  It is checked as a part of MCData.     *)
EXTENDS UfiParse, Geometry, UfiCommands

\* Lengths on both sides of every limit of the parsers, and length bytes that
\* fit, fall short by one or overshoot.
MCLengths == {0, 1, 3, 4, 7, 8, 11, 12, 13, 14, 18, 35, 36, 39, 40, 41, 48,
              252, 256, 300}
MCBytes == {0, 5, 8, 29, 30, 31, 69, 112, 114, 133, 240, 248, 255}
MCWords16 == {0, 5, 6, 8, 30, 38, 39, 254, 255, 65535}

\* A two-byte field and a one-byte field of the geometry and a byte outside
\* it, two bits each.
MCField == [o \in 2..5 |-> CASE o \in {2, 3} -> "transfer_rate"
                             [] o = 4 -> "heads"
                             [] OTHER -> "step_rate"]
MCTarget == [o \in 2..4 |-> CASE o = 2 -> {} [] o = 3 -> {0, 1} [] OTHER -> {1}]

\* Bytes that are opcodes, page codes, lengths or flags of some command.
MCByteValues == {0, 1, 4, 5, 16, 17, 30, 31, 40, 42, 69, 85, 90, 133}

ParseRests ==
  /\ parser = "inquiry" /\ pc = "refused" /\ length = 0 /\ declared = 0
  /\ offset = 0 /\ count = 0 /\ value = [last_lba |-> 0, blocks |-> 0]
  /\ turns = 0 /\ extent = 0
GeometryRests ==
  /\ saved = [o \in Offsets |-> {}] /\ mask = saved /\ drive = saved
  /\ phase = "restored"
CommandsRest == command = NoData(Cdb(TEST_UNIT_READY)) /\ faults = MaxFaults

UfiRests == ParseRests /\ GeometryRests /\ CommandsRest

UfiInit ==
  \/ ParseInit /\ GeometryRests /\ CommandsRest
  \/ ParseRests /\ GeometryInit /\ CommandsRest
  \/ ParseRests /\ GeometryRests /\ CommandsInit

UfiNext ==
  \/ ParseNext /\ UNCHANGED <<gvars, cvars>>
  \/ GeometryNext /\ UNCHANGED <<pvars, cvars>>
  \/ CommandsNext /\ UNCHANGED <<pvars, gvars>>

uvars == <<pvars, gvars, cvars>>
=============================================================================
