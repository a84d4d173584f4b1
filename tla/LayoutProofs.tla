---------------------------- MODULE LayoutProofs ----------------------------
(***************************************************************************)
(* Proofs about the 1581 address translation for every number of tracks.   *)
(***************************************************************************)
EXTENDS Layout, TLAPS

\* Both translations are quotients and remainders of the same block number, so
\* one undoes the other for every address of a disk with any number of tracks.
LEMMA AddressesRoundTrip ==
  ASSUME NEW t \in Track, NEW s \in Sector
  PROVE  AddressRoundTrips(t, s)
  <1> DEFINE q == s \div 2
             h == s % 2
             lba == (t - 1) * 20 + q
             p == logical_to_physical(t, s)
             l == lba_to_logical(p.lba, p.byte_offset)
  <1>1. /\ t \in Int /\ 1 <= t /\ t <= TRACK_COUNT /\ TRACK_COUNT \in Int
        /\ s \in Int /\ 0 <= s /\ s <= 39
    BY TrackCountAssumption DEF Track, Sector, LOGICAL_PER_TRACK
  <1>2. /\ q \in Int /\ 0 <= q /\ q <= 19
        /\ h \in 0..1 /\ s = 2 * q + h
    BY <1>1
  <1>3. /\ p.lba = lba /\ p.byte_offset = h * 256 /\ p.cylinder = t - 1
        /\ p.head = q \div 10 /\ p.sector_index = q % 10
        /\ p.image_offset = lba * 512 + h * 256
    BY DEF logical_to_physical, PHYSICAL_PER_TRACK, LOGICAL_SIZE,
         SECTORS_PER_HEAD, M65_BLOCK_SIZE
  <1>4. /\ l.track = (lba \div 20) + 1
        /\ l.sector = (lba % 20) * 2 + ((h * 256) \div 256)
        /\ l.image_offset = lba * 512 + h * 256
    BY <1>3 DEF lba_to_logical, PHYSICAL_PER_TRACK, LOGICAL_SIZE,
         M65_BLOCK_SIZE
  <1> HIDE DEF p, l, q, h
  <1>5. lba \in Int /\ 0 <= lba /\ lba <= TRACK_COUNT * 20 - 1
    BY <1>1, <1>2
  <1>6. lba \div 20 = t - 1 /\ lba % 20 = q
    BY <1>1, <1>2
  <1>7. (h * 256) \div 256 = h /\ h * 256 \in {0, 256}
    BY <1>2
  <1>8. /\ q \div 10 = IF q < 10 THEN 0 ELSE 1
        /\ q % 10 = IF q < 10 THEN q ELSE q - 10
    BY <1>2
  <1>9. /\ p.lba \in 0..(BLOCKS - 1)
        /\ p.byte_offset \in {0, LOGICAL_SIZE}
    BY <1>1, <1>3, <1>5, <1>7 DEF BLOCKS, PHYSICAL_PER_TRACK, LOGICAL_SIZE
  <1>10. p.lba = (p.cylinder * 2 + p.head) * SECTORS_PER_HEAD + p.sector_index
    BY <1>1, <1>2, <1>3, <1>8 DEF SECTORS_PER_HEAD
  <1>11. l.track = t /\ l.sector = s /\ l.image_offset = p.image_offset
    BY <1>1, <1>2, <1>3, <1>4, <1>6, <1>7
  <1>12. p.image_offset = ((t - 1) * LOGICAL_PER_TRACK + s) * LOGICAL_SIZE
    BY <1>1, <1>2, <1>3 DEF LOGICAL_PER_TRACK, LOGICAL_SIZE
  <1> QED
    BY <1>9, <1>10, <1>11, <1>12 DEF AddressRoundTrips, p, l

\* The address translation is a bijection between the logical sectors and the
\* halves of the blocks of a disk with any number of tracks, and agrees with
\* D81 byte order, at every track a reader comes to.
THEOREM RoundTripHolds == Spec => []RoundTrip
  <1>1. RoundTrip
    BY AddressesRoundTrip DEF RoundTrip
  <1> QED
    BY <1>1, PTL

\* The candidate rules continue the interleave order everywhere but at its two
\* seams (m65_1581_next_interleave_candidate, m65_1581_next_track_candidate).
THEOREM CandidatesFollowOrder == Spec => []CandidateFollowsOrder
  <1>1. CandidateFollowsOrder
    BY DEF CandidateFollowsOrder, interleave_sector_at, Sector,
         next_interleave_candidate, next_track_candidate, SECTORS_PER_HEAD,
         LOGICAL_PER_TRACK
  <1> QED
    BY <1>1, PTL
-----------------------------------------------------------------------------
(* The reader *)

\* What the pass over a track has copied: the offsets of the sectors it came
\* to, in interleave order, that lie inside the image.
CopiedSoFar ==
  {logical_to_physical(track, interleave_sector_at(k)).image_offset :
     k \in {j \in 0..(ordinal - 1) :
              copy_accepts(image_length, track, interleave_sector_at(j))}}

LayoutInv ==
  /\ image_length \in Nat
  /\ track \in 1..(TRACK_COUNT + 1)
  /\ ordinal \in 0..LOGICAL_PER_TRACK
  /\ copied = CopiedSoFar
  /\ ordinal > 0 => track \in Track

\* m65_1581_interleave_sector_at yields sectors of a track.
LEMMA InterleaveStays ==
  ASSUME NEW k \in Sector
  PROVE  interleave_sector_at(k) \in Sector
  <1> DEFINE q == k \div 2
             h == k % 2
  <1>1. k \in Int /\ 0 <= k /\ k <= 39
    BY DEF Sector, LOGICAL_PER_TRACK
  <1>2. q \in Int /\ 0 <= q /\ q <= 19 /\ h \in 0..1
    BY <1>1
  <1>3. interleave_sector_at(k) = (IF q < 10 THEN q * 2
                                   ELSE (q - 10) * 2 + 1) * 2 + h
    BY DEF interleave_sector_at, SECTORS_PER_HEAD
  <1> HIDE DEF q, h
  <1> QED
    BY <1>2, <1>3 DEF Sector, LOGICAL_PER_TRACK

\* It comes to every sector: sector 4a + 2b + h is the one at 2(a + 10b) + h.
LEMMA InterleaveReaches ==
  ASSUME NEW s \in Sector
  PROVE  \E k \in Sector : interleave_sector_at(k) = s
  <1>1. s \in Int /\ 0 <= s /\ s <= 39
    BY DEF Sector, LOGICAL_PER_TRACK
  <1>2. PICK a \in 0..9, b \in 0..1, h \in 0..1 : s = 4 * a + 2 * b + h
    <2>1. /\ s \div 4 \in 0..9 /\ (s % 4) \in 0..3
          /\ s = 4 * (s \div 4) + (s % 4)
      BY <1>1
    <2>2. \A r \in 0..3 : \E b, h \in 0..1 : r = 2 * b + h
      OBVIOUS
    <2> QED
      BY <2>1, <2>2
  <1> DEFINE k == 2 * (a + 10 * b) + h
  <1>3. k \in Int /\ 0 <= k /\ k <= 39
    BY <1>2
  <1>4. k \div 2 = a + 10 * b /\ k % 2 = h
    BY <1>2
  <1>5. interleave_sector_at(k) = (IF a + 10 * b < 10 THEN (a + 10 * b) * 2
                                   ELSE (a + 10 * b - 10) * 2 + 1) * 2 + h
    BY <1>4 DEF interleave_sector_at, SECTORS_PER_HEAD
  <1>6. interleave_sector_at(k) = s
    BY <1>2, <1>5
  <1>7. k \in Sector
    BY <1>3 DEF Sector, LOGICAL_PER_TRACK
  <1> QED
    BY <1>6, <1>7

\* Where a sector starts, and when m65_1581_copy_logical_sector takes it.
LEMMA SectorOffset ==
  ASSUME NEW n \in Nat, NEW t \in Track, NEW s \in Sector
  PROVE  LET o == ((t - 1) * LOGICAL_PER_TRACK + s) * LOGICAL_SIZE
         IN  /\ o \in Int
             /\ logical_to_physical(t, s).image_offset = o
             /\ copy_accepts(n, t, s) <=> o + LOGICAL_SIZE <= n
  <1> DEFINE o == ((t - 1) * LOGICAL_PER_TRACK + s) * LOGICAL_SIZE
  <1>1. t \in Int /\ s \in Int
    BY TrackCountAssumption DEF Track, Sector
  <1>2. o \in Int
    BY <1>1 DEF LOGICAL_PER_TRACK, LOGICAL_SIZE
  <1>3. logical_to_physical(t, s).image_offset = o
    BY AddressesRoundTrip DEF AddressRoundTrips
  <1> HIDE DEF o
  <1>4. copy_accepts(n, t, s) <=> o + LOGICAL_SIZE <= n
    BY <1>2, <1>3 DEF copy_accepts, LOGICAL_SIZE
  <1> QED
    BY <1>2, <1>3, <1>4 DEF o

\* Before the first track nothing is copied.
LEMMA LayoutInitInv == Init => LayoutInv
  <1> SUFFICES ASSUME Init PROVE LayoutInv
    OBVIOUS
  <1>1. /\ image_length \in Nat /\ track = 1 /\ ordinal = 0 /\ copied = {}
    BY ImageLengthsAssumption DEF Init
  <1>2. CopiedSoFar = {}
    BY <1>1 DEF CopiedSoFar
  <1> QED
    BY <1>1, <1>2, TrackCountAssumption DEF LayoutInv, LOGICAL_PER_TRACK

\* One more sector of the order.
LEMMA CopySectorInv ==
  ASSUME LayoutInv, CopySector
  PROVE  LayoutInv'
  <1> DEFINE off(k) ==
               logical_to_physical(track, interleave_sector_at(k)).image_offset
             takes(k) ==
               copy_accepts(image_length, track, interleave_sector_at(k))
  <1>1. /\ track \in Track /\ ordinal \in 0..39 /\ ordinal' = ordinal + 1
        /\ copied' = IF takes(ordinal) THEN copied \cup {off(ordinal)}
                     ELSE copied
        /\ UNCHANGED <<image_length, track>>
        /\ copied = {off(k) : k \in {j \in 0..(ordinal - 1) : takes(j)}}
    BY DEF CopySector, LayoutInv, LOGICAL_PER_TRACK, CopiedSoFar
  <1>2. CopiedSoFar' = {off(k) : k \in {j \in 0..ordinal : takes(j)}}
    BY <1>1 DEF CopiedSoFar
  <1> HIDE DEF off, takes
  <1>3. 0..ordinal = 0..(ordinal - 1) \cup {ordinal}
    BY <1>1
  <1>4. copied' = {off(k) : k \in {j \in 0..ordinal : takes(j)}}
    <2>1. CASE takes(ordinal)
      <3>1. {j \in 0..ordinal : takes(j)}
              = {j \in 0..(ordinal - 1) : takes(j)} \cup {ordinal}
        BY <1>3, <2>1
      <3> QED
        BY <1>1, <2>1, <3>1
    <2>2. CASE ~takes(ordinal)
      <3>1. {j \in 0..ordinal : takes(j)} = {j \in 0..(ordinal - 1) : takes(j)}
        BY <1>3, <2>2
      <3> QED
        BY <1>1, <2>2, <3>1
    <2> QED
      BY <2>1, <2>2
  <1> QED
    BY <1>1, <1>2, <1>4 DEF LayoutInv, LOGICAL_PER_TRACK, Track

\* A copied sector, a finished track and the next one keep LayoutInv.
LEMMA LayoutNextInv == LayoutInv /\ [Next]_vars => LayoutInv'
  <1> SUFFICES ASSUME LayoutInv, [Next]_vars PROVE LayoutInv'
    OBVIOUS
  <1>1. CASE NextTrack
    <2>1. /\ track \in Track /\ track' = track + 1 /\ ordinal' = 0
          /\ copied' = {} /\ image_length' = image_length
          /\ image_length \in Nat
      BY <1>1 DEF NextTrack, LayoutInv
    <2>2. CopiedSoFar' = {}
      BY <2>1 DEF CopiedSoFar
    <2> QED
      BY <2>1, <2>2, TrackCountAssumption
         DEF LayoutInv, Track, LOGICAL_PER_TRACK
  <1>2. CASE UNCHANGED vars
    BY <1>2 DEF vars, LayoutInv, CopiedSoFar
  <1> QED
    BY <1>1, <1>2, CopySectorInv DEF Next

\* The inductive invariant of the reader of an image.
THEOREM LayoutInvariant == Spec => []LayoutInv
BY LayoutInitInv, LayoutNextInv, PTL DEF Spec

\* The interleave order is a permutation of a track, and of a truncated image
\* m65_1581_copy_logical_sector copies exactly the sectors that lie inside it,
\* whatever its length and the number of tracks.
THEOREM CopiesOnce == Spec => []TrackCopiedOnce
  <1>1. ASSUME LayoutInv, ordinal = LOGICAL_PER_TRACK
        PROVE  copied = {o \in {((track - 1) * LOGICAL_PER_TRACK + s)
                                  * LOGICAL_SIZE : s \in Sector} :
                           o + LOGICAL_SIZE <= image_length}
    <2> DEFINE at(s) == ((track - 1) * LOGICAL_PER_TRACK + s) * LOGICAL_SIZE
               off(k) ==
                 logical_to_physical(track,
                                     interleave_sector_at(k)).image_offset
               takes(k) ==
                 copy_accepts(image_length, track, interleave_sector_at(k))
    <2>1. image_length \in Nat /\ track \in Track /\ 0..(ordinal - 1) = Sector
      BY <1>1 DEF LayoutInv, LOGICAL_PER_TRACK, Sector
    <2>2. copied = {off(k) : k \in {j \in Sector : takes(j)}}
      BY <1>1, <2>1 DEF LayoutInv, CopiedSoFar
    <2>3. ASSUME NEW k \in Sector
          PROVE  LET s == interleave_sector_at(k)
                 IN  /\ s \in Sector /\ off(k) = at(s)
                     /\ takes(k) <=> at(s) + LOGICAL_SIZE <= image_length
      BY <2>1, InterleaveStays, SectorOffset
    <2> HIDE DEF at, off, takes
    <2>4. ASSUME NEW o \in copied
          PROVE  /\ o \in {at(s) : s \in Sector}
                 /\ o + LOGICAL_SIZE <= image_length
      BY <2>2, <2>3
    <2>5. ASSUME NEW s \in Sector, at(s) + LOGICAL_SIZE <= image_length
          PROVE  at(s) \in copied
      <3>1. PICK k \in Sector : interleave_sector_at(k) = s
        BY InterleaveReaches
      <3>2. off(k) = at(s) /\ takes(k)
        BY <2>3, <2>5, <3>1
      <3> QED
        BY <2>2, <3>2
    <2>6. copied = {o \in {at(s) : s \in Sector} :
                     o + LOGICAL_SIZE <= image_length}
      BY <2>4, <2>5
    <2> QED
      BY <2>6 DEF at
  <1>2. LayoutInv => TrackCopiedOnce
    BY <1>1 DEF TrackCopiedOnce
  <1> QED
    BY <1>2, LayoutInvariant, PTL
=============================================================================
