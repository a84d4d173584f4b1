------------------------------ MODULE UfiParse ------------------------------
(***************************************************************************)
(* The response parsers of src/ufi.c.  The drive decides every byte, so a  *)
(* byte is chosen when the parser first looks at it; every parser reads    *)
(* each byte it branches on once.  extent is the number of leading bytes   *)
(* of the response that have been read or copied so far.                   *)
(***************************************************************************)
EXTENDS Integers

\* include/m65/ufi.h
FLEXIBLE_DISK_PAGE == 5
FLEX_PAGE_LENGTH == 32
MODE_BUFFER_SIZE == 256
MAX_FORMAT_DESCRIPTORS == 31

\* The buffers src/probe.c and src/cbi.c give the drive for its answer.
Parsers == {"inquiry", "sense", "capacity", "formats", "mode"}
BufferSize(p) ==
  CASE p = "inquiry" -> 96
    [] p = "sense" -> 18
    [] p = "capacity" -> 8
    [] p = "formats" -> 252
    [] p = "mode" -> MODE_BUFFER_SIZE

CONSTANTS
  Lengths,    \* how many bytes a response may have
  Bytes,      \* values of a byte
  Words16,    \* values of a big-endian 16-bit field
  Word32Max   \* UINT32_MAX

ASSUME LengthsAssumption == Lengths \subseteq Nat
ASSUME BytesAssumption == Bytes \subseteq 0..255
ASSUME Words16Assumption == Words16 \subseteq Nat
ASSUME Word32Assumption == Word32Max \in Nat

VARIABLES
  parser,     \* the parser called
  pc,         \* "start", inside its loop, "accepted" or "refused"
  length,     \* result.transferred, which is passed as the length
  declared,   \* declared_length or the end of the descriptor list
  offset,     \* where the loop stands
  count,      \* M65FormatCapacities.count
  value,      \* last_lba and M65Capacity.blocks
  turns,      \* turns of the loop completed so far
  extent

pvars == <<parser, pc, length, declared, offset, count, value, turns,
           extent>>

\* m65_read_be16 and its like: the field must lie inside the response.
available(len, at, needed) == at <= len /\ needed <= len - at

\* inspect_input and mode_sense refuse more bytes than the buffer holds; the
\* engine does so for sense data.
ResponseFits(p, n) == n <= BufferSize(p)

ParseInit ==
  /\ parser \in Parsers
  /\ length \in {n \in Lengths : ResponseFits(parser, n)}
  /\ pc = "start"
  /\ declared = 0
  /\ offset = 0
  /\ count = 0
  /\ value = [last_lba |-> 0, blocks |-> 0]
  /\ turns = 0
  /\ extent = 0

Looked(n) == extent' = IF n > extent THEN n ELSE extent

Refuse ==
  /\ pc' = "refused"
  /\ UNCHANGED <<parser, length, declared, offset, count, value, turns>>

Accept ==
  /\ pc' = "accepted"
  /\ UNCHANGED <<parser, length, declared, offset, count, value, turns>>
-----------------------------------------------------------------------------
\* m65_parse_inquiry: vendor, product and firmware end at byte 36.
ParseInquiry ==
  /\ pc = "start" /\ parser = "inquiry"
  /\ \/ length < 36 /\ Refuse /\ UNCHANGED extent
     \/ length >= 36 /\ Accept /\ Looked(36)

\* Fixed or descriptor format, each with the bytes it needs.
SenseComplete(code) ==
  \/ code \in {112, 113} /\ length >= 14
  \/ code \in {114, 115} /\ length >= 4

\* m65_parse_sense
ParseSense ==
  /\ pc = "start" /\ parser = "sense"
  /\ \/ length = 0 /\ Refuse /\ UNCHANGED extent
     \/ /\ length > 0
        /\ \E b \in Bytes :
             LET code == b % 128
             IN \/ /\ SenseComplete(code)
                   /\ Accept
                   /\ Looked(IF code \in {112, 113} THEN 14 ELSE 4)
                \/ /\ ~SenseComplete(code)
                   /\ Refuse
                   /\ Looked(1)

\* Mutant: the sentinel is taken for a last block.
MutSentinel(last) == FALSE

\* A drive with more blocks than fit answers with the sentinel.
IsSentinel(last) == last = Word32Max

\* m65_parse_read_capacity_10; blocks is a uint32_t.
ParseCapacity ==
  /\ pc = "start" /\ parser = "capacity"
  /\ \/ ~available(length, 4, 4) /\ Refuse /\ UNCHANGED extent
     \/ /\ available(length, 4, 4)
        /\ Looked(8)
        /\ \E last \in 0..Word32Max :
             \/ IsSentinel(last) /\ Refuse
             \/ /\ ~IsSentinel(last)
                /\ pc' = "accepted"
                /\ value' = [last_lba |-> last,
                             blocks |-> (last + 1) % (Word32Max + 1)]
                /\ UNCHANGED <<parser, length, declared, offset, count, turns>>
-----------------------------------------------------------------------------
\* m65_parse_format_capacities, before its loop.
ListRefused(bytes) ==
  \/ bytes % 8 # 0
  \/ bytes > length - 4
  \/ bytes \div 8 > MAX_FORMAT_DESCRIPTORS

ParseFormats ==
  /\ pc = "start" /\ parser = "formats"
  /\ \/ length < 4 /\ Refuse /\ UNCHANGED extent
     \/ /\ length >= 4
        /\ Looked(4)
        /\ \E bytes \in Bytes :
             \/ ListRefused(bytes) /\ Refuse
             \/ /\ ~ListRefused(bytes)
                /\ pc' = "formats"
                /\ offset' = 4
                /\ declared' = 4 + bytes
                /\ UNCHANGED <<parser, length, count, value, turns>>

\* One descriptor: blocks, the code in the byte after it, block size.
NextDescriptor ==
  /\ pc = "formats"
  /\ \/ offset >= declared /\ Accept /\ UNCHANGED extent
     \/ /\ offset < declared
        /\ \/ /\ ~(available(length, offset, 4)
                   /\ available(length, offset + 5, 3))
              /\ Refuse
              /\ UNCHANGED extent
           \/ /\ available(length, offset, 4)
              /\ available(length, offset + 5, 3)
              /\ Looked(offset + 8)
              /\ count' = count + 1
              /\ offset' = offset + 8
              /\ turns' = turns + 1
              /\ UNCHANGED <<parser, pc, length, declared, value>>
-----------------------------------------------------------------------------
\* Mutant: the response may declare more than was transferred.
MutDeclaredUnchecked(dl) == dl < 8 \/ dl > MODE_BUFFER_SIZE

DeclaredRefused(dl) == dl < 8 \/ dl > length \/ dl > MODE_BUFFER_SIZE

\* m65_parse_mode_parameters, before its loop.  The whole declared response
\* is copied to raw.
ParseMode ==
  /\ pc = "start" /\ parser = "mode"
  /\ \/ length < 8 /\ Refuse /\ UNCHANGED extent
     \/ /\ length >= 8
        /\ \E mode_data_length, block_descriptor_length \in Words16 :
             LET dl == mode_data_length + 2
                 first == 8 + block_descriptor_length
             IN \/ /\ DeclaredRefused(dl) \/ first > dl
                   /\ Refuse
                   /\ Looked(8)
                \/ /\ ~DeclaredRefused(dl) /\ first <= dl
                   /\ pc' = "walk"
                   /\ declared' = dl
                   /\ offset' = first
                   /\ Looked(dl)
                   /\ UNCHANGED <<parser, length, count, value, turns>>

\* decode_flexible on a page of n bytes whose length byte is b.
FlexibleDecodes(b, n) ==
  n >= FLEX_PAGE_LENGTH /\ b >= 30 /\ b + 2 <= n

\* Mutant: the two header bytes are not counted.
MutPageLength(b) == b

page_length(b) == b + 2

\* One page of the walk.  Bit 6 of the first byte is the subpage format, the
\* low six bits are the page code.
NextPage ==
  /\ pc = "walk"
  /\ \/ offset >= declared /\ Refuse /\ UNCHANGED extent
     \/ offset < declared /\ declared - offset < 2 /\ Refuse
        /\ UNCHANGED extent
     \/ /\ declared - offset >= 2
        /\ \E head, b \in Bytes :
             LET subpage == (head \div 64) % 2 = 1
                 n == page_length(b)
             IN \/ /\ subpage \/ n > declared - offset
                   /\ Refuse
                   /\ Looked(offset + (IF subpage THEN 1 ELSE 2))
                \/ /\ ~subpage /\ n <= declared - offset
                   /\ head % 64 = FLEXIBLE_DISK_PAGE
                   /\ IF FlexibleDecodes(b, n)
                      THEN Accept /\ Looked(offset + FLEX_PAGE_LENGTH)
                      ELSE Refuse /\ Looked(offset + 2)
                \/ /\ ~subpage /\ n <= declared - offset
                   /\ head % 64 # FLEXIBLE_DISK_PAGE
                   /\ offset' = offset + n
                   /\ turns' = turns + 1
                   /\ Looked(offset + 2)
                   /\ UNCHANGED <<parser, pc, length, declared, count, value>>

ParseNext ==
  \/ ParseInquiry \/ ParseSense \/ ParseCapacity
  \/ ParseFormats \/ NextDescriptor
  \/ ParseMode \/ NextPage

ParseSpec == ParseInit /\ [][ParseNext]_pvars
-----------------------------------------------------------------------------
(* Properties *)

ParseTypeOK ==
  /\ parser \in Parsers
  /\ pc \in {"start", "formats", "walk", "accepted", "refused"}
  /\ length \in 0..BufferSize(parser)
  /\ declared \in Nat
  /\ offset \in Nat
  /\ count \in Nat
  /\ value \in [last_lba : 0..Word32Max, blocks : 0..Word32Max]
  /\ turns \in Nat
  /\ extent \in Nat

\* No parser looks at a byte the drive did not send in this response, however
\* the lengths inside the response lie (README: "Every controller response is
\* length-checked before decoding"): not at the zeroes behind it, and not
\* outside the buffer.
ReadsInsideResponse == extent <= length

\* What is accepted fits where it is copied: the complete Flexible Disk page
\* lies inside the declared response and the declared response inside raw[],
\* the descriptors inside descriptors[], and the number of blocks has not
\* wrapped to zero.
AcceptedFits ==
  /\ count <= MAX_FORMAT_DESCRIPTORS
  /\ pc = "accepted" /\ parser = "mode" =>
       /\ offset + FLEX_PAGE_LENGTH <= declared
       /\ declared <= MODE_BUFFER_SIZE
  /\ pc = "accepted" /\ parser = "formats" => declared = 4 + 8 * count
  /\ pc = "accepted" /\ parser = "capacity" =>
       value.blocks = value.last_lba + 1

\* Every parser returns: each turn of a loop uses up two bytes or more of
\* the response, whatever length bytes the drive sends (a page of length zero
\* included), so the loops end.
LoopsBounded == 2 * turns <= length
=============================================================================
