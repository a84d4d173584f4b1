------------------------------- MODULE Layout -------------------------------
(***************************************************************************)
(* The 1581 geometry of src/layout.c: 80 tracks of 40 logical sectors of   *)
(* 256 bytes over 512-byte blocks on two heads, the translation both ways, *)
(* and the interleave order.  The functions are pure; the state machine is *)
(* a reader that extracts every sector of an image, track by track in      *)
(* interleave order, as a user of the module does.                         *)
(*                                                                         *)
(* Every value fits the C type it is stored in: tracks, sectors and        *)
(* cylinders are below 256 and LBAs below 2^32, so no cast truncates.      *)
(***************************************************************************)
EXTENDS Integers

CONSTANTS
  TRACK_COUNT,     \* M65_1581_TRACK_COUNT, 80
  ImageLengths     \* lengths in bytes of the images that are read

ASSUME TrackCountAssumption == TRACK_COUNT \in 1..255
ASSUME ImageLengthsAssumption == ImageLengths \subseteq Nat

M65_BLOCK_SIZE == 512
SECTORS_PER_HEAD == 10
PHYSICAL_PER_TRACK == 20
LOGICAL_PER_TRACK == 40
LOGICAL_SIZE == 256
BLOCKS == TRACK_COUNT * PHYSICAL_PER_TRACK

Track == 1..TRACK_COUNT
Sector == 0..(LOGICAL_PER_TRACK - 1)

\* m65_1581_logical_to_physical, for an address it accepts.
logical_to_physical(t, s) ==
  LET physical_sector == s \div 2
      lba == (t - 1) * PHYSICAL_PER_TRACK + physical_sector
      byte_offset == (s % 2) * LOGICAL_SIZE
  IN [cylinder |-> t - 1,
      head |-> physical_sector \div SECTORS_PER_HEAD,
      sector_index |-> physical_sector % SECTORS_PER_HEAD,
      lba |-> lba,
      byte_offset |-> byte_offset,
      image_offset |-> lba * M65_BLOCK_SIZE + byte_offset]

\* Mutant: tracks counted from zero.
MutTrackFromZero(lba, byte_offset) ==
  [track |-> lba \div PHYSICAL_PER_TRACK,
   sector |-> (lba % PHYSICAL_PER_TRACK) * 2 + (byte_offset \div LOGICAL_SIZE),
   image_offset |-> lba * M65_BLOCK_SIZE + byte_offset]

\* m65_1581_lba_to_logical, for an address it accepts.
lba_to_logical(lba, byte_offset) ==
  [track |-> (lba \div PHYSICAL_PER_TRACK) + 1,
   sector |-> (lba % PHYSICAL_PER_TRACK) * 2 + (byte_offset \div LOGICAL_SIZE),
   image_offset |-> lba * M65_BLOCK_SIZE + byte_offset]

\* Mutant: the last sector of an image is refused.
MutStrictlyInside(bytes, t, s) ==
  LET offset == logical_to_physical(t, s).image_offset
  IN t \in Track /\ s \in Sector /\ bytes - offset > LOGICAL_SIZE

\* m65_1581_copy_logical_sector on an image of so many bytes: is sector s of
\* track t an address of the disk that lies inside the image?
copy_accepts(bytes, t, s) ==
  LET offset == logical_to_physical(t, s).image_offset
  IN /\ t \in Track /\ s \in Sector
     /\ offset <= bytes /\ bytes - offset >= LOGICAL_SIZE

\* m65_1581_interleave_sector_at: every other physical sector, halves together.
interleave_sector_at(ordinal) ==
  LET pair == ordinal \div 2
      physical_sector == IF pair < SECTORS_PER_HEAD THEN pair * 2
                         ELSE (pair - SECTORS_PER_HEAD) * 2 + 1
  IN physical_sector * 2 + (ordinal % 2)

\* Mutant: the next sector in numerical order.
MutNoInterleave(last) == (last + 1) % LOGICAL_PER_TRACK

\* The two candidate rules for a successor sector.
next_interleave_candidate(last) ==
  (last + 1 + 2 * (last % 2)) % LOGICAL_PER_TRACK
next_track_candidate(last) == (last + 8 - (last % 2)) % LOGICAL_PER_TRACK
-----------------------------------------------------------------------------
VARIABLES
  image_length,    \* physical_image_length
  track, ordinal,  \* the sector to extract next
  copied           \* image offsets of this track's sectors copied so far

vars == <<image_length, track, ordinal, copied>>

Init ==
  /\ image_length \in ImageLengths
  /\ track = 1 /\ ordinal = 0 /\ copied = {}

\* A sector is copied, or refused because the image is truncated before it.
CopySector ==
  LET sector == interleave_sector_at(ordinal) IN
  /\ track \in Track /\ ordinal < LOGICAL_PER_TRACK
  /\ ordinal' = ordinal + 1
  /\ copied' = IF copy_accepts(image_length, track, sector)
               THEN copied \cup
                      {logical_to_physical(track, sector).image_offset}
               ELSE copied
  /\ UNCHANGED <<image_length, track>>

NextTrack ==
  /\ track \in Track /\ ordinal = LOGICAL_PER_TRACK
  /\ track' = track + 1
  /\ ordinal' = 0
  /\ copied' = {}
  /\ UNCHANGED image_length

Next == CopySector \/ NextTrack

Spec == Init /\ [][Next]_vars
-----------------------------------------------------------------------------
(* Properties *)

\* Translating an address there and back yields the address, stays inside the
\* disk, and agrees on the byte in the image.
AddressRoundTrips(t, s) ==
  LET p == logical_to_physical(t, s)
      l == lba_to_logical(p.lba, p.byte_offset)
  IN /\ p.lba \in 0..(BLOCKS - 1)
     /\ p.byte_offset \in {0, LOGICAL_SIZE}
     /\ p.lba = (p.cylinder * 2 + p.head) * SECTORS_PER_HEAD + p.sector_index
     /\ l.track = t /\ l.sector = s
     /\ l.image_offset = p.image_offset
     /\ p.image_offset = ((t - 1) * LOGICAL_PER_TRACK + s) * LOGICAL_SIZE

\* Every address of the track being read survives the translation both ways
\* (m65_1581_logical_to_physical, m65_1581_lba_to_logical), and a sequential
\* block read has canonical D81 byte order (docs/disk-layout.md).
RoundTrip ==
  track \in Track => \A s \in Sector : AddressRoundTrips(track, s)

\* Reading a whole track in interleave order copies each of its bytes once:
\* the order is a permutation of the 40 sectors.  Of a truncated image it
\* copies exactly the sectors that lie inside it completely.
TrackCopiedOnce ==
  ordinal = LOGICAL_PER_TRACK =>
    copied = {o \in {((track - 1) * LOGICAL_PER_TRACK + s) * LOGICAL_SIZE :
                       s \in Sector} : o + LOGICAL_SIZE <= image_length}

\* The order keeps the two halves of a block together and the candidate rule
\* continues it everywhere but at the two seams, after the last even and the
\* last odd block, where it wraps to the start of the same half instead.
CandidateFollowsOrder ==
  ordinal \in Sector =>
    LET s == interleave_sector_at(ordinal) IN
    /\ ordinal % 2 = 0 => next_interleave_candidate(s) = s + 1
    /\ next_interleave_candidate(s) =
         CASE ordinal = 19 -> interleave_sector_at(0)
           [] ordinal = 39 -> interleave_sector_at(20)
           [] OTHER -> interleave_sector_at(ordinal + 1)
    /\ next_track_candidate(s) % 2 = 0
    /\ next_track_candidate(s) \in Sector
=============================================================================
