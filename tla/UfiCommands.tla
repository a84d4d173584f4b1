---------------------------- MODULE UfiCommands ----------------------------
(***************************************************************************)
(* The command builders and m65_validate_command of src/ufi.c.  A command  *)
(* is what execute receives: the first ten bytes of its CDB, the data      *)
(* direction and length, and the first ten bytes of a data-out payload     *)
(* (the parameter header, the page code and the page length).  The program *)
(* starts from a command one of the builders made; up to MaxFaults of its  *)
(* fields are then set wrong, as a faulty caller might.                    *)
(***************************************************************************)
EXTENDS Integers

CONSTANTS
  ByteValues,   \* what a wrong byte is set to
  MaxFaults     \* fields set wrong

ASSUME ByteValuesAssumption == ByteValues \subseteq 0..255
ASSUME FaultsAssumption == MaxFaults \in Nat

TEST_UNIT_READY == 0
REQUEST_SENSE == 3
INQUIRY == 18
READ_FORMAT_CAPACITIES == 35
READ_CAPACITY_10 == 37
READ_10 == 40
MODE_SELECT_10 == 85
MODE_SENSE_10 == 90

BLOCK_SIZE == 512

VARIABLES
  command,
  faults        \* fields set wrong so far

cvars == <<command, faults>>

Zeroes == [i \in 0..9 |-> 0]

\* m65_write_be16
write_be16(bytes, at, n) ==
  [bytes EXCEPT ![at] = n \div 256, ![at + 1] = n % 256]

\* m65_read_be16
read_be16(bytes, at) == 256 * bytes[at] + bytes[at + 1]

\* cdb_clear, then the opcode.
Cdb(opcode) == [Zeroes EXCEPT ![0] = opcode]

cdb_request_sense(n) == [Cdb(REQUEST_SENSE) EXCEPT ![4] = n]
cdb_inquiry(n) == [Cdb(INQUIRY) EXCEPT ![4] = n]
cdb_read_format_capacities(n) == write_be16(Cdb(READ_FORMAT_CAPACITIES), 7, n)
cdb_mode_sense_10(changeable, n) ==
  write_be16([Cdb(MODE_SENSE_10) EXCEPT ![2] = IF changeable THEN 69 ELSE 5],
             7, n)
cdb_mode_select_10(n) ==
  write_be16([Cdb(MODE_SELECT_10) EXCEPT ![1] = 16], 7, n)

\* The block addresses of an image fit sixteen bits.
cdb_read_10(lba, blocks) ==
  write_be16(write_be16(Cdb(READ_10), 4, lba), 7, blocks)

\* m65_build_mode_select_payload refuses any other page.
PageSendable(head, len) == head % 64 = 5 /\ (head \div 64) % 2 = 0 /\ len = 30

\* The payload's first bytes: an empty header, the page without its PS bit.
mode_select_payload(head, len) ==
  [Zeroes EXCEPT ![8] = head % 64, ![9] = len]

NoData(cdb) ==
  [cdb |-> cdb, cdb_length |-> 6, direction |-> "NONE", data |-> FALSE,
   data_length |-> 0, payload |-> Zeroes]

DataIn(cdb, cdb_length, n) ==
  [cdb |-> cdb, cdb_length |-> cdb_length, direction |-> "IN",
   data |-> TRUE, data_length |-> n, payload |-> Zeroes]

ModeSelect(head, len) ==
  [cdb |-> cdb_mode_select_10(40), cdb_length |-> 10, direction |-> "OUT",
   data |-> TRUE, data_length |-> 40,
   payload |-> mode_select_payload(head, len)]

\* Every command the workflows and the engine issue.  The pages sent are any
\* that decode_flexible accepts and m65_build_mode_select_payload sends.
Built ==
  { NoData(Cdb(TEST_UNIT_READY)),
    DataIn(cdb_request_sense(18), 6, 18),
    DataIn(cdb_inquiry(96), 6, 96),
    DataIn(Cdb(READ_CAPACITY_10), 10, 8),
    DataIn(cdb_read_format_capacities(252), 10, 252),
    DataIn(cdb_mode_sense_10(FALSE, 256), 10, 256),
    DataIn(cdb_mode_sense_10(TRUE, 256), 10, 256),
    DataIn(cdb_read_10(1599, 1), 10, BLOCK_SIZE),
    DataIn(cdb_read_10(9, 1), 10, BLOCK_SIZE),
    DataIn(cdb_read_10(1590, 10), 10, 10 * BLOCK_SIZE) }
  \cup {ModeSelect(p[1], p[2]) :
          p \in {q \in ByteValues \X ByteValues : PageSendable(q[1], q[2])}}
-----------------------------------------------------------------------------
(* m65_validate_command *)

\* validate_data
validate_data(c, direction) ==
  /\ c.direction = direction
  /\ IF direction = "NONE" THEN ~c.data /\ c.data_length = 0
     ELSE c.data /\ c.data_length # 0

\* Mutant: the payload is not looked at.
MutPayloadUnchecked(c) ==
  /\ c.cdb_length = 10
  /\ validate_data(c, "OUT")
  /\ c.cdb[1] = 16
  /\ \A i \in {2, 3, 4, 5, 6, 9} : c.cdb[i] = 0
  /\ read_be16(c.cdb, 7) = c.data_length /\ c.data_length = 40

mode_select_allowed(c) ==
  /\ c.cdb_length = 10
  /\ validate_data(c, "OUT")
  /\ c.cdb[1] = 16
  /\ \A i \in {2, 3, 4, 5, 6, 9} : c.cdb[i] = 0
  /\ read_be16(c.cdb, 7) = c.data_length /\ c.data_length = 40
  /\ \A i \in 0..7 : c.payload[i] = 0
  /\ c.payload[8] = 5 /\ c.payload[9] = 30

request_sense_allowed(c) ==
  /\ c.cdb_length = 6
  /\ validate_data(c, "IN")
  /\ \A i \in {1, 2, 3, 5} : c.cdb[i] = 0
  /\ c.cdb[4] # 0 /\ c.data_length = c.cdb[4]

read_10_allowed(c) ==
  /\ c.cdb_length = 10
  /\ validate_data(c, "IN")
  /\ read_be16(c.cdb, 7) # 0
  /\ c.data_length = read_be16(c.cdb, 7) * BLOCK_SIZE

validate_command(c) ==
  LET op == c.cdb[0]
  IN CASE op = TEST_UNIT_READY -> c.cdb_length = 6 /\ validate_data(c, "NONE")
       [] op = REQUEST_SENSE -> request_sense_allowed(c)
       [] op = INQUIRY -> c.cdb_length = 6 /\ validate_data(c, "IN")
       [] op \in {READ_FORMAT_CAPACITIES, READ_CAPACITY_10, MODE_SENSE_10} ->
            c.cdb_length = 10 /\ validate_data(c, "IN")
       [] op = READ_10 -> read_10_allowed(c)
       [] op = MODE_SELECT_10 -> mode_select_allowed(c)
       [] OTHER -> FALSE
-----------------------------------------------------------------------------
CommandsInit == command \in Built /\ faults = 0

Wrong(c) ==
  /\ faults < MaxFaults
  /\ c # command
  /\ command' = c
  /\ faults' = faults + 1

WrongCdb ==
  \E i \in 0..9, b \in ByteValues : Wrong([command EXCEPT !.cdb[i] = b])
WrongLength ==
  \E n \in {0, 6, 9, 10, 12} : Wrong([command EXCEPT !.cdb_length = n])
WrongDirection ==
  \E d \in {"NONE", "IN", "OUT"} : Wrong([command EXCEPT !.direction = d])
WrongBuffer ==
  \/ Wrong([command EXCEPT !.data = ~@])
  \/ \E n \in {0, 39, 40, 41, 511, 512, 1024} :
       Wrong([command EXCEPT !.data_length = n])
WrongPayload ==
  \E i \in 0..9, b \in ByteValues : Wrong([command EXCEPT !.payload[i] = b])

CommandsNext ==
  WrongCdb \/ WrongLength \/ WrongDirection \/ WrongBuffer \/ WrongPayload

CommandsSpec == CommandsInit /\ [][CommandsNext]_cvars

\* Every command the program itself builds passes the validator, and the
\* number of bytes its CDB asks the drive for is the size of its buffer.
BuiltIsAllowed ==
  LET op == command.cdb[0]
      asked == CASE op \in {REQUEST_SENSE, INQUIRY} -> command.cdb[4]
                 [] op = READ_CAPACITY_10 -> 8
                 [] op = READ_10 -> BLOCK_SIZE * read_be16(command.cdb, 7)
                 [] op = TEST_UNIT_READY -> 0
                 [] OTHER -> read_be16(command.cdb, 7)
  IN faults = 0 => validate_command(command) /\ asked = command.data_length

\* However a command is malformed, what the validator lets through can write
\* nothing but the one Flexible Disk page (docs/architecture.md, "MODE SELECT
\* containment"): its CDB is byte for byte the one m65_cdb_mode_select_10
\* makes, its header is empty, and it carries one page 05h of 32 bytes.
DataOutContained ==
  validate_command(command)
    /\ (command.direction = "OUT" \/ command.cdb[0] = MODE_SELECT_10) =>
    command = ModeSelect(5, 30)

\* The validator is neither too strict nor too lax: it lets through every
\* command the workflows need, the restoring MODE SELECT above all, and of
\* the malformed ones none that could write anything else.
ValidatorExact == BuiltIsAllowed /\ DataOutContained
=============================================================================
