----------------------------- MODULE UfiProofs -----------------------------
(***************************************************************************)
(* The three parts of src/ufi.c.  The response parsers stay inside the     *)
(* response for every response: any length, any bytes.  The check of the   *)
(* changeable mask decides exactly, for any page, mask and fields.  The    *)
(* command validator lets out one data-out command, for any bytes.         *)
(***************************************************************************)
EXTENDS UfiParse, Geometry, UfiCommands, TLAPS
-----------------------------------------------------------------------------
(* The parsers *)

\* While descriptors are read, the list ends inside the response at a
\* descriptor's boundary, and the loop stands at one.
InFormats ==
  pc = "formats" =>
    /\ parser = "formats"
    /\ declared <= length
    /\ declared = 4 + 8 * ((declared - 4) \div 8)
    /\ (declared - 4) \div 8 <= MAX_FORMAT_DESCRIPTORS
    /\ offset = 4 + 8 * turns
    /\ offset <= declared
    /\ count = turns

\* While pages are walked, the declared response fits the response and the
\* buffer, and every turn has moved on by a page header at least.
InWalk ==
  pc = "walk" =>
    /\ parser = "mode"
    /\ declared <= length
    /\ declared <= MODE_BUFFER_SIZE
    /\ 8 + 2 * turns <= offset
    /\ offset <= declared
    /\ count = 0

\* No parser has begun.
AtStart == pc = "start" => turns = 0 /\ count = 0

ParseInv ==
  /\ ParseTypeOK
  /\ ReadsInsideResponse
  /\ AcceptedFits
  /\ LoopsBounded
  /\ InFormats
  /\ InWalk
  /\ AtStart

\* The sum of m65_parse_read_capacity_10 does not wrap once the sentinel is
\* excluded.
LEMMA NoWrap ==
  ASSUME NEW n \in Nat, NEW last \in 0..n, last # n
  PROVE  (last + 1) % (n + 1) = last + 1
OBVIOUS

\* A response has arrived and no parser has looked at it.
LEMMA ParseInitInv == ParseInit => ParseInv
BY LengthsAssumption, Word32Assumption
   DEF ParseInit, ParseInv, ParseTypeOK, ReadsInsideResponse, AcceptedFits,
       LoopsBounded, InFormats, InWalk, AtStart, ResponseFits, BufferSize,
       MAX_FORMAT_DESCRIPTORS, MODE_BUFFER_SIZE, Parsers

\* A parser that refuses keeps what it had; only extent may have grown.
LEMMA RefuseInv ==
  ASSUME ParseInv, Refuse, extent' \in Nat, extent' <= length
  PROVE  ParseInv'
BY DEF Refuse, ParseInv, ParseTypeOK, ReadsInsideResponse, AcceptedFits,
       LoopsBounded, InFormats, InWalk, AtStart

\* So does one that accepts, if what it accepted fits.
LEMMA AcceptInv ==
  ASSUME ParseInv, Accept, extent' \in Nat, extent' <= length,
         parser = "mode" => /\ offset + FLEX_PAGE_LENGTH <= declared
                            /\ declared <= MODE_BUFFER_SIZE,
         parser = "formats" => declared = 4 + 8 * count,
         parser # "capacity"
  PROVE  ParseInv'
BY DEF Accept, ParseInv, ParseTypeOK, ReadsInsideResponse, AcceptedFits,
       LoopsBounded, InFormats, InWalk, AtStart

\* Looking at n bytes of the response stays inside it.
LEMMA LookedInside ==
  ASSUME ParseInv, NEW n \in Nat, n <= length, Looked(n)
  PROVE  extent' \in Nat /\ extent' <= length
BY DEF Looked, ParseInv, ParseTypeOK, ReadsInsideResponse, BufferSize

\* m65_parse_inquiry.
LEMMA InquiryInv == ParseInv /\ ParseInquiry => ParseInv'
  <1> SUFFICES ASSUME ParseInv, ParseInquiry PROVE ParseInv'
    OBVIOUS
  <1>1. CASE length < 36 /\ Refuse /\ UNCHANGED extent
    BY <1>1, RefuseInv DEF ParseInv, ParseTypeOK, ReadsInsideResponse
  <1>2. CASE length >= 36 /\ Accept /\ Looked(36)
    <2>1. 36 <= length
      BY <1>2 DEF ParseInv, ParseTypeOK
    <2>2. parser = "inquiry"
      BY DEF ParseInquiry
    <2> QED
      BY <1>2, <2>1, <2>2, LookedInside, AcceptInv
  <1> QED
    BY <1>1, <1>2 DEF ParseInquiry

\* m65_parse_sense.
LEMMA SenseInv == ParseInv /\ ParseSense => ParseInv'
  <1> SUFFICES ASSUME ParseInv, ParseSense PROVE ParseInv'
    OBVIOUS
  <1>1. CASE length = 0 /\ Refuse /\ UNCHANGED extent
    BY <1>1, RefuseInv DEF ParseInv, ParseTypeOK, ReadsInsideResponse
  <1>2. ASSUME length > 0, NEW code \in Int, ~SenseComplete(code), Refuse,
               Looked(1)
        PROVE  ParseInv'
    <2>1. 1 <= length
      BY <1>2 DEF ParseInv, ParseTypeOK
    <2> QED
      BY <1>2, <2>1, LookedInside, RefuseInv
  <1>3. ASSUME length > 0, NEW code \in Int, SenseComplete(code), Accept,
               Looked(IF code \in {112, 113} THEN 14 ELSE 4)
        PROVE  ParseInv'
    <2>1. (IF code \in {112, 113} THEN 14 ELSE 4) <= length
      BY <1>3 DEF SenseComplete, ParseInv, ParseTypeOK
    <2>2. extent' \in Nat /\ extent' <= length
      BY <1>3, <2>1, LookedInside
    <2>3. parser = "sense"
      BY DEF ParseSense
    <2> QED
      BY <1>3, <2>2, <2>3, AcceptInv
  <1> QED
    BY <1>1, <1>2, <1>3, BytesAssumption DEF ParseSense

\* m65_parse_read_capacity_10.
LEMMA CapacityInv == ParseInv /\ ParseCapacity => ParseInv'
  <1> SUFFICES ASSUME ParseInv, ParseCapacity PROVE ParseInv'
    OBVIOUS
  <1>1. parser = "capacity" /\ pc = "start"
    BY DEF ParseCapacity
  <1>2. CASE ~available(length, 4, 4) /\ Refuse /\ UNCHANGED extent
    BY <1>2, RefuseInv DEF ParseInv, ParseTypeOK, ReadsInsideResponse
  <1>3. ASSUME available(length, 4, 4), Looked(8), Refuse
        PROVE  ParseInv'
    <2>1. 8 <= length
      BY <1>3 DEF available, ParseInv, ParseTypeOK
    <2> QED
      BY <1>3, <2>1, LookedInside, RefuseInv
  <1>4. ASSUME available(length, 4, 4), Looked(8),
               NEW last \in 0..Word32Max, ~IsSentinel(last),
               pc' = "accepted",
               value' = [last_lba |-> last,
                         blocks |-> (last + 1) % (Word32Max + 1)],
               UNCHANGED <<parser, length, declared, offset, count, turns>>
        PROVE  ParseInv'
    <2>1. 8 <= length
      BY <1>4 DEF available, ParseInv, ParseTypeOK
    <2>2. extent' \in Nat /\ extent' <= length
      BY <1>4, <2>1, LookedInside
    <2>3. (last + 1) % (Word32Max + 1) = last + 1 /\ last # Word32Max
      BY <1>4, NoWrap, Word32Assumption DEF IsSentinel
    <2>4. /\ value' \in [last_lba : 0..Word32Max, blocks : 0..Word32Max]
          /\ value'.blocks = value'.last_lba + 1
      BY <1>4, <2>3, Word32Assumption
    <2> QED
      BY <1>1, <1>4, <2>2, <2>4
         DEF ParseInv, ParseTypeOK, ReadsInsideResponse, AcceptedFits,
             LoopsBounded, InFormats, InWalk, AtStart
  <1> QED
    BY <1>2, <1>3, <1>4 DEF ParseCapacity

\* The head of m65_parse_format_capacities.
LEMMA FormatsInv == ParseInv /\ ParseFormats => ParseInv'
  <1> SUFFICES ASSUME ParseInv, ParseFormats PROVE ParseInv'
    OBVIOUS
  <1>1. parser = "formats" /\ pc = "start"
    BY DEF ParseFormats
  <1>2. CASE length < 4 /\ Refuse /\ UNCHANGED extent
    BY <1>2, RefuseInv DEF ParseInv, ParseTypeOK, ReadsInsideResponse
  <1>3. ASSUME length >= 4, Looked(4), Refuse
        PROVE  ParseInv'
    <2>1. 4 <= length
      BY <1>3 DEF ParseInv, ParseTypeOK
    <2> QED
      BY <1>3, <2>1, LookedInside, RefuseInv
  <1>4. ASSUME length >= 4, Looked(4), NEW bytes \in Bytes,
               ~ListRefused(bytes), pc' = "formats", offset' = 4,
               declared' = 4 + bytes,
               UNCHANGED <<parser, length, count, value, turns>>
        PROVE  ParseInv'
    <2>1. 4 <= length
      BY <1>4 DEF ParseInv, ParseTypeOK
    <2>2. extent' \in Nat /\ extent' <= length
      BY <1>4, <2>1, LookedInside
    <2>3. /\ bytes \in Nat /\ bytes <= length - 4
          /\ bytes = 8 * (bytes \div 8)
          /\ bytes \div 8 <= MAX_FORMAT_DESCRIPTORS
      BY <1>4, BytesAssumption
         DEF ListRefused, ParseInv, ParseTypeOK, MAX_FORMAT_DESCRIPTORS
    <2>4. (declared' - 4) \div 8 = bytes \div 8
      BY <1>4, <2>3
    <2> QED
      BY <1>1, <1>4, <2>2, <2>3, <2>4
         DEF ParseInv, ParseTypeOK, ReadsInsideResponse, AcceptedFits,
             LoopsBounded, InFormats, InWalk, AtStart
  <1> QED
    BY <1>2, <1>3, <1>4 DEF ParseFormats

\* One turn of its loop over the descriptors.
LEMMA DescriptorInv == ParseInv /\ NextDescriptor => ParseInv'
  <1> SUFFICES ASSUME ParseInv, NextDescriptor PROVE ParseInv'
    OBVIOUS
  <1> DEFINE k == (declared - 4) \div 8
  <1>1. /\ pc = "formats" /\ parser = "formats"
        /\ length \in Nat /\ declared \in Nat /\ offset \in Nat
        /\ count \in Nat /\ turns \in Nat
        /\ declared <= length /\ declared = 4 + 8 * k /\ k <= 31
        /\ offset = 4 + 8 * turns /\ offset <= declared /\ count = turns
    BY DEF NextDescriptor, ParseInv, ParseTypeOK, InFormats, BufferSize,
           MAX_FORMAT_DESCRIPTORS
  <1>2. k \in Int
    BY <1>1
  <1> HIDE DEF k
  <1>3. CASE offset >= declared /\ Accept /\ UNCHANGED extent
    <2>1. declared = 4 + 8 * count
      BY <1>1, <1>3
    <2>2. extent' \in Nat /\ extent' <= length
      BY <1>3 DEF ParseInv, ParseTypeOK, ReadsInsideResponse
    <2> QED
      BY <1>1, <1>3, <2>1, <2>2, AcceptInv
  <1>4. ASSUME Refuse, UNCHANGED extent
        PROVE  ParseInv'
    BY <1>4, RefuseInv DEF ParseInv, ParseTypeOK, ReadsInsideResponse
  <1>5. ASSUME offset < declared, Looked(offset + 8), count' = count + 1,
               offset' = offset + 8, turns' = turns + 1,
               UNCHANGED <<parser, pc, length, declared, value>>
        PROVE  ParseInv'
    <2>1. turns < k
      BY <1>1, <1>2, <1>5
    <2>2. offset + 8 <= declared /\ turns + 1 <= k
      BY <1>1, <1>2, <2>1
    <2>3. extent' \in Nat /\ extent' <= length
      BY <1>1, <1>5, <2>2, LookedInside
    <2>4. k' = k
      BY <1>5 DEF k
    <2>5. /\ declared' = 4 + 8 * k' /\ k' <= MAX_FORMAT_DESCRIPTORS
          /\ count' <= MAX_FORMAT_DESCRIPTORS
          /\ offset' = 4 + 8 * turns' /\ offset' <= declared'
          /\ count' = turns' /\ 2 * turns' <= length'
          /\ count' \in Nat /\ turns' \in Nat /\ offset' \in Nat
      BY <1>1, <1>2, <1>5, <2>2, <2>4 DEF MAX_FORMAT_DESCRIPTORS
    <2> QED
      BY <1>1, <1>5, <2>3, <2>5
         DEF ParseInv, ParseTypeOK, ReadsInsideResponse, AcceptedFits,
             LoopsBounded, InFormats, InWalk, AtStart, k
  <1> QED
    BY <1>3, <1>4, <1>5 DEF NextDescriptor

\* The head of m65_parse_mode_parameters.
LEMMA ModeInv == ParseInv /\ ParseMode => ParseInv'
  <1> SUFFICES ASSUME ParseInv, ParseMode PROVE ParseInv'
    OBVIOUS
  <1>1. parser = "mode" /\ pc = "start"
    BY DEF ParseMode
  <1>2. CASE length < 8 /\ Refuse /\ UNCHANGED extent
    BY <1>2, RefuseInv DEF ParseInv, ParseTypeOK, ReadsInsideResponse
  <1>3. ASSUME length >= 8, Looked(8), Refuse
        PROVE  ParseInv'
    <2>1. 8 <= length
      BY <1>3 DEF ParseInv, ParseTypeOK
    <2> QED
      BY <1>3, <2>1, LookedInside, RefuseInv
  <1>4. ASSUME length >= 8, NEW dl \in Nat, NEW first \in Nat, first >= 8,
               ~DeclaredRefused(dl), first <= dl, pc' = "walk",
               declared' = dl, offset' = first, Looked(dl),
               UNCHANGED <<parser, length, count, value, turns>>
        PROVE  ParseInv'
    <2>1. dl <= length /\ dl <= MODE_BUFFER_SIZE
      BY <1>4 DEF DeclaredRefused, ParseInv, ParseTypeOK, MODE_BUFFER_SIZE
    <2>2. extent' \in Nat /\ extent' <= length
      BY <1>4, <2>1, LookedInside
    <2> QED
      BY <1>1, <1>4, <2>1, <2>2
         DEF ParseInv, ParseTypeOK, ReadsInsideResponse, AcceptedFits,
             LoopsBounded, InFormats, InWalk, AtStart
  <1>5. CASE length >= 8
    <2>0. ~(length < 8)
      BY <1>5 DEF ParseInv, ParseTypeOK
    <2>1. PICK mdl \in Words16, bdl \in Words16 :
            \/ Refuse /\ Looked(8)
            \/ /\ ~DeclaredRefused(mdl + 2) /\ 8 + bdl <= mdl + 2
               /\ pc' = "walk" /\ declared' = mdl + 2 /\ offset' = 8 + bdl
               /\ Looked(mdl + 2)
               /\ UNCHANGED <<parser, length, count, value, turns>>
      BY <2>0, Zenon DEF ParseMode
    <2>2. mdl \in Nat /\ bdl \in Nat
      BY Words16Assumption
    <2>3. mdl + 2 \in Nat
      BY <2>2
    <2>4. 8 + bdl \in Nat /\ 8 + bdl >= 8
      BY <2>2
    <2>5. CASE Refuse /\ Looked(8)
      BY <1>3, <1>5, <2>5
    <2>6. CASE ~(Refuse /\ Looked(8))
      BY <1>4, <1>5, <2>1, <2>3, <2>4, <2>6
    <2> QED
      BY <2>5, <2>6
  <1> QED
    BY <1>2, <1>5 DEF ParseMode

\* One turn of its walk over the pages.
LEMMA PageInv == ParseInv /\ NextPage => ParseInv'
  <1> SUFFICES ASSUME ParseInv, NextPage PROVE ParseInv'
    OBVIOUS
  <1>1. /\ pc = "walk" /\ parser = "mode" /\ count = 0
        /\ length \in Nat /\ declared \in Nat /\ offset \in Nat
        /\ turns \in Nat
        /\ declared <= length /\ declared <= MODE_BUFFER_SIZE
        /\ 8 + 2 * turns <= offset /\ offset <= declared
    BY DEF NextPage, ParseInv, ParseTypeOK, InWalk
  <1>2. ASSUME Refuse, UNCHANGED extent
        PROVE  ParseInv'
    BY <1>2, RefuseInv DEF ParseInv, ParseTypeOK, ReadsInsideResponse
  <1>3. ASSUME declared - offset >= 2, NEW n \in 1..2, Refuse,
               Looked(offset + n)
        PROVE  ParseInv'
    <2>1. offset + n \in Nat /\ offset + n <= length
      BY <1>1, <1>3
    <2> QED
      BY <1>3, <2>1, LookedInside, RefuseInv
  <1>4. ASSUME NEW n \in Nat, n <= declared - offset, n >= FLEX_PAGE_LENGTH,
               Accept, Looked(offset + FLEX_PAGE_LENGTH)
        PROVE  ParseInv'
    <2>1. /\ offset + FLEX_PAGE_LENGTH \in Nat
          /\ offset + FLEX_PAGE_LENGTH <= declared
          /\ offset + FLEX_PAGE_LENGTH <= length
      BY <1>1, <1>4 DEF FLEX_PAGE_LENGTH
    <2>2. extent' \in Nat /\ extent' <= length
      BY <1>4, <2>1, LookedInside
    <2> QED
      BY <1>1, <1>4, <2>1, <2>2, AcceptInv
  <1>5. ASSUME NEW n \in Nat, n >= 2, n <= declared - offset,
               offset' = offset + n, turns' = turns + 1, Looked(offset + 2),
               UNCHANGED <<parser, pc, length, declared, count, value>>
        PROVE  ParseInv'
    <2>1. offset + 2 \in Nat /\ offset + 2 <= length
      BY <1>1, <1>5
    <2>2. extent' \in Nat /\ extent' <= length
      BY <1>5, <2>1, LookedInside
    <2>3. /\ offset' \in Nat /\ turns' \in Nat
          /\ 8 + 2 * turns' <= offset' /\ offset' <= declared'
          /\ 2 * turns' <= length'
      BY <1>1, <1>5
    <2> QED
      BY <1>1, <1>5, <2>2, <2>3
         DEF ParseInv, ParseTypeOK, ReadsInsideResponse, AcceptedFits,
             LoopsBounded, InFormats, InWalk, AtStart
  <1>6. CASE /\ declared - offset >= 2
             /\ \E head, b \in Bytes :
                  LET subpage == (head \div 64) % 2 = 1
                      n == page_length(b)
                  IN \/ /\ subpage \/ n > declared - offset
                        /\ Refuse
                        /\ Looked(offset + (IF subpage THEN 1 ELSE 2))
                     \/ /\ ~subpage /\ n <= declared - offset
                        /\ head % 64 = FLEXIBLE_DISK_PAGE
                        /\ IF FlexibleDecodes(b, n)
                           THEN Accept /\ Looked(offset + FLEX_PAGE_LENGTH)
                           ELSE Refuse /\ Looked(offset + 2)
                     \/ /\ ~subpage /\ n <= declared - offset
                        /\ head % 64 # FLEXIBLE_DISK_PAGE
                        /\ offset' = offset + n
                        /\ turns' = turns + 1
                        /\ Looked(offset + 2)
                        /\ UNCHANGED <<parser, pc, length, declared, count,
                                       value>>
    <2>1. PICK head \in Bytes, b \in Bytes :
            \/ \E m \in 1..2 : Refuse /\ Looked(offset + m)
            \/ /\ page_length(b) <= declared - offset
               /\ FlexibleDecodes(b, page_length(b))
               /\ Accept /\ Looked(offset + FLEX_PAGE_LENGTH)
            \/ /\ page_length(b) <= declared - offset
               /\ offset' = offset + page_length(b)
               /\ turns' = turns + 1
               /\ Looked(offset + 2)
               /\ UNCHANGED <<parser, pc, length, declared, count, value>>
      BY <1>6
    <2>2. page_length(b) \in Nat /\ page_length(b) >= 2
      BY BytesAssumption DEF page_length
    <2> QED
      BY <1>3, <1>4, <1>5, <1>6, <2>1, <2>2 DEF FlexibleDecodes
  <1> QED
    BY <1>2, <1>6 DEF NextPage

\* ParseInv depends on the variables of the parsers alone.
LEMMA StutterInv == ParseInv /\ UNCHANGED pvars => ParseInv'
BY DEF pvars, ParseInv, ParseTypeOK, ReadsInsideResponse, AcceptedFits,
       LoopsBounded, InFormats, InWalk, AtStart

\* The invariant of the parsers, for every response.
THEOREM ParseInvariant == ParseSpec => []ParseInv
  <1>1. ParseInv /\ [ParseNext]_pvars => ParseInv'
    BY InquiryInv, SenseInv, CapacityInv, FormatsInv, DescriptorInv, ModeInv,
       PageInv, StutterInv DEF ParseNext
  <1> QED
    BY ParseInitInv, <1>1, PTL DEF ParseSpec

\* The parsers keep their types: no count exceeds its field.
THEOREM ParseTypes == ParseSpec => []ParseTypeOK
BY ParseInvariant, PTL DEF ParseInv

\* No byte outside the response is looked at, whatever the drive answers
\* (the length checks of m65_parse_mode_parameters and its siblings).
THEOREM ReadsInside == ParseSpec => []ReadsInsideResponse
BY ParseInvariant, PTL DEF ParseInv

\* What m65_parse_* accepts fits raw[], descriptors[] and uint32_t.
THEOREM Accepted == ParseSpec => []AcceptedFits
BY ParseInvariant, PTL DEF ParseInv

\* The mode-page walk and the descriptor loop make progress in every turn,
\* also over pages whose length byte is zero.
THEOREM LoopsEnd == ParseSpec => []LoopsBounded
BY ParseInvariant, PTL DEF ParseInv
-----------------------------------------------------------------------------
(* The Flexible Disk page *)

GeometryTypeOK ==
  /\ saved \in Page /\ mask \in Page /\ drive \in Page
  /\ phase \in {"saved", "unsupported", "selected", "restored"}

\* What the controller holds in each phase, byte by byte.
DriveMatches ==
  /\ phase # "selected" => drive = saved
  /\ phase = "selected" =>
       \A o \in Offsets :
         drive[o] = (saved[o] \ mask[o])
                      \cup (set_1581_geometry(saved)[o] \cap mask[o])

\* The decision was the mask check's.
MaskAsked ==
  /\ phase = "selected" =>
       geometry_changes_allowed(saved, set_1581_geometry(saved))
  /\ phase = "unsupported" =>
       ~geometry_changes_allowed(saved, set_1581_geometry(saved))

GeometryInv == GeometryTypeOK /\ DriveMatches /\ MaskAsked

\* m65_set_1581_geometry and an honoured MODE SELECT make pages.
LEMMA PagesStay ==
  ASSUME saved \in Page, mask \in Page, drive \in Page, NEW p \in Page
  PROVE  /\ set_1581_geometry(p) \in Page
         /\ Honours(p) \in Page
         /\ \A o \in Offsets :
              Honours(p)[o] = (drive[o] \ mask[o]) \cup (p[o] \cap mask[o])
         /\ \A o \in RequiredOffsets :
              o \in Offsets /\ set_1581_geometry(p)[o] = Target[o]
  <1>1. RequiredOffsets \subseteq Offsets
    BY DEF RequiredOffsets
  <1>2. ASSUME NEW o \in Offsets
        PROVE  (IF o \in RequiredOffsets THEN Target[o] ELSE p[o])
                 \in SUBSET Bits
    BY TargetAssumption DEF Page
  <1>3. ASSUME NEW o \in Offsets
        PROVE  (drive[o] \ mask[o]) \cup (p[o] \cap mask[o]) \in SUBSET Bits
    BY DEF Page
  <1>4. set_1581_geometry(p) \in Page
    BY <1>2 DEF Page, set_1581_geometry
  <1>5. Honours(p) \in Page
    BY <1>3 DEF Page, Honours
  <1> QED
    BY <1>1, <1>4, <1>5 DEF Honours, set_1581_geometry

\* The page is saved and the controller untouched.
LEMMA GeometryInitInv == GeometryInit => GeometryInv
BY DEF GeometryInit, GeometryInv, GeometryTypeOK, DriveMatches, MaskAsked

\* MODE SELECT of the changed page, after a mask that allows it.
LEMMA SelectInv ==
  ASSUME GeometryInv, Select
  PROVE  GeometryInv'
  <1>1. /\ saved \in Page /\ mask \in Page /\ drive \in Page /\ drive = saved
        /\ phase' = "selected" /\ drive' = Honours(set_1581_geometry(saved))
        /\ geometry_changes_allowed(saved, set_1581_geometry(saved))
        /\ UNCHANGED <<saved, mask>>
    BY DEF Select, GeometryInv, GeometryTypeOK, DriveMatches
  <1>2. set_1581_geometry(saved) \in Page
    BY <1>1, PagesStay
  <1>3. /\ drive' \in Page
        /\ \A o \in Offsets :
             drive'[o] = (saved[o] \ mask[o])
                           \cup (set_1581_geometry(saved)[o] \cap mask[o])
    BY <1>1, <1>2, PagesStay
  <1>4. DriveMatches' /\ GeometryTypeOK'
    BY <1>1, <1>3 DEF DriveMatches, GeometryTypeOK, set_1581_geometry
  <1>5. MaskAsked'
    BY <1>1 DEF MaskAsked, geometry_changes_allowed, set_1581_geometry, Changed
  <1> QED
    BY <1>4, <1>5 DEF GeometryInv

\* What the mask does not offer never moved, and the rest is sent back.
LEMMA RestoreInv ==
  ASSUME GeometryInv, Restore
  PROVE  GeometryInv'
  <1>1. /\ saved \in Page /\ mask \in Page /\ drive \in Page
        /\ phase = "selected" /\ phase' = "restored"
        /\ drive' = Honours(saved)
        /\ UNCHANGED <<saved, mask>>
    BY DEF Restore, RestorePage, GeometryInv, GeometryTypeOK
  <1>2. ASSUME NEW o \in Offsets PROVE drive'[o] = saved[o]
    <2>1. drive'[o] = (drive[o] \ mask[o]) \cup (saved[o] \cap mask[o])
      BY <1>1, PagesStay
    <2>2. drive[o] \ mask[o] = saved[o] \ mask[o]
      BY <1>1 DEF GeometryInv, DriveMatches
    <2> QED
      BY <2>1, <2>2
  <1>3. drive' \in Page
    BY <1>1, PagesStay
  <1>4. drive' = saved
    BY <1>1, <1>2, <1>3 DEF Page
  <1> QED
    BY <1>1, <1>4 DEF GeometryInv, GeometryTypeOK, DriveMatches, MaskAsked

\* The check, the change and the restoration keep GeometryInv.
LEMMA GeometryNextInv == GeometryInv /\ [GeometryNext]_gvars => GeometryInv'
  <1> SUFFICES ASSUME GeometryInv, [GeometryNext]_gvars PROVE GeometryInv'
    OBVIOUS
  <1>1. CASE Unsupported
    BY <1>1 DEF Unsupported, GeometryInv, GeometryTypeOK, DriveMatches,
         MaskAsked, geometry_changes_allowed, set_1581_geometry, Changed
  <1>2. CASE UNCHANGED gvars
    BY <1>2 DEF gvars, GeometryInv, GeometryTypeOK, DriveMatches, MaskAsked,
         geometry_changes_allowed, set_1581_geometry, Changed
  <1> QED
    BY <1>1, <1>2, SelectInv, RestoreInv DEF GeometryNext

\* The inductive invariant of the page arithmetic.
THEOREM GeometryInvariant == GeometrySpec => []GeometryInv
BY GeometryInitInv, GeometryNextInv, PTL DEF GeometrySpec

\* m65_geometry_changes_allowed is exact for every page, mask and division of
\* the page into fields: it allows the change if and only if a MODE SELECT can
\* bring a controller that honours its mask to the 1581 geometry.
THEOREM MaskCheckExact == GeometrySpec => []MaskDecides
  <1>1. ASSUME GeometryInv PROVE MaskDecides
    <2>0. saved \in Page /\ mask \in Page /\ drive \in Page
      BY <1>1 DEF GeometryInv, GeometryTypeOK
    <2>1. ASSUME phase = "selected", NEW o \in RequiredOffsets
          PROVE  drive[o] = Target[o]
      <3>1. o \in Offsets /\ set_1581_geometry(saved)[o] = Target[o]
        BY <2>0, PagesStay
      <3>2. drive[o] = (saved[o] \ mask[o]) \cup (Target[o] \cap mask[o])
        BY <1>1, <2>1, <3>1 DEF GeometryInv, DriveMatches
      <3>3. (saved[o] \ Target[o]) \cup (Target[o] \ saved[o]) \subseteq mask[o]
        BY <1>1, <2>1, <3>1 DEF GeometryInv, MaskAsked,
             geometry_changes_allowed, Changed
      <3> QED
        BY <3>2, <3>3
    <2>2. ASSUME phase = "unsupported", NEW p \in Page,
                 geometry_is_1581(Honours(p))
          PROVE  FALSE
      <3>1. PICK o \in RequiredOffsets :
              ~(Changed(saved, set_1581_geometry(saved), o) \subseteq mask[o])
        BY <1>1, <2>2 DEF GeometryInv, MaskAsked, geometry_changes_allowed
      <3>2. o \in Offsets /\ set_1581_geometry(saved)[o] = Target[o]
        BY <2>0, PagesStay
      <3>3. ~((saved[o] \ Target[o]) \cup (Target[o] \ saved[o])
                 \subseteq mask[o])
        BY <3>1, <3>2 DEF Changed
      <3>4. Target[o] = (saved[o] \ mask[o]) \cup (p[o] \cap mask[o])
        <4>1. Honours(p)[o] = (drive[o] \ mask[o]) \cup (p[o] \cap mask[o])
          BY <2>0, <3>2, PagesStay
        <4>2. drive = saved
          BY <1>1, <2>2 DEF GeometryInv, DriveMatches
        <4> QED
          BY <2>2, <4>1, <4>2 DEF geometry_is_1581
      <3> QED
        BY <3>3, <3>4
    <2>3. ASSUME NEW o \in Offsets, drive[o] # saved[o]
          PROVE  field_changeable(Field[o])
      <3>1. phase = "selected"
        BY <1>1, <2>3 DEF GeometryInv, DriveMatches
      <3>2. mask[o] # {}
        BY <1>1, <2>3, <3>1 DEF GeometryInv, DriveMatches
      <3> QED
        BY <3>2 DEF field_changeable
    <2> QED
      BY <2>1, <2>2, <2>3 DEF MaskDecides, geometry_is_1581
  <1> QED
    BY <1>1, GeometryInvariant, PTL

\* One MODE SELECT of the saved page restores every byte, whatever part of
\* m65_set_1581_geometry's change the mask let through.
THEOREM RestoreIsExact == GeometrySpec => []RestoreExact
  <1>1. GeometryInv => RestoreExact
    BY DEF GeometryInv, DriveMatches, RestoreExact
  <1> QED
    BY <1>1, GeometryInvariant, PTL
-----------------------------------------------------------------------------
(* The commands *)

Byte == 0..255
TenBytes == [0..9 -> Byte]

Command ==
  [cdb : TenBytes, cdb_length : Nat, direction : {"NONE", "IN", "OUT"},
   data : BOOLEAN, data_length : Nat, payload : TenBytes]

\* Any bytes may be wrong, but they are bytes; without a fault the command is
\* a built one.
CommandsInv ==
  /\ command \in Command
  /\ faults \in Nat
  /\ faults = 0 => command \in Built

\* A big-endian pair of bytes denotes the number it was made from.
LEMMA TwoDigits ==
  ASSUME NEW n \in Nat, NEW hi \in Int, NEW lo \in Int,
         hi = n \div 256, lo = n % 256
  PROVE  256 * hi + lo = n
OBVIOUS

\* Setting one byte of ten changes that byte alone.
LEMMA OneByte ==
  ASSUME NEW b \in TenBytes, NEW i \in 0..9, NEW v \in Byte
  PROVE  /\ [b EXCEPT ![i] = v] \in TenBytes
         /\ \A k \in 0..9 : [b EXCEPT ![i] = v][k] = IF k = i THEN v ELSE b[k]
BY DEF TenBytes

\* m65_write_be16 writes two bytes, here at a CDB's address or length.
LEMMA WriteBe16 ==
  ASSUME NEW b \in TenBytes, NEW i \in {4, 7}, NEW n \in Nat,
         NEW hi \in Byte, NEW lo \in Byte, hi = n \div 256, lo = n % 256
  PROVE  /\ write_be16(b, i, n) \in TenBytes
         /\ write_be16(b, i, n)[i] = hi
         /\ write_be16(b, i, n)[i + 1] = lo
         /\ \A k \in 0..9 :
              k # i /\ k # i + 1 => write_be16(b, i, n)[k] = b[k]
  <1> DEFINE c == [b EXCEPT ![i] = hi]
             w == write_be16(b, i, n)
  <1>1. w = [c EXCEPT ![i + 1] = lo]
    BY DEF write_be16
  <1>2. i \in 0..9 /\ i + 1 \in 0..9 /\ i # i + 1
    OBVIOUS
  <1>3. /\ c \in TenBytes
        /\ \A k \in 0..9 : c[k] = IF k = i THEN hi ELSE b[k]
    BY <1>2, OneByte
  <1> HIDE DEF c
  <1>4. /\ [c EXCEPT ![i + 1] = lo] \in TenBytes
        /\ \A k \in 0..9 : [c EXCEPT ![i + 1] = lo][k]
                             = IF k = i + 1 THEN lo ELSE c[k]
    BY <1>2, <1>3, OneByte
  <1> HIDE DEF w
  <1>5. /\ w \in TenBytes
        /\ \A k \in 0..9 : w[k] = IF k = i + 1 THEN lo ELSE c[k]
    BY <1>1, <1>4
  <1>6. /\ w \in TenBytes /\ w[i] = hi /\ w[i + 1] = lo
        /\ \A k \in 0..9 : k # i /\ k # i + 1 => w[k] = b[k]
    BY <1>2, <1>3, <1>5
  <1> QED
    BY <1>6 DEF w

\* cdb_clear and the opcode.
LEMMA CdbBytes ==
  ASSUME NEW op \in Byte
  PROVE  /\ Cdb(op) \in TenBytes
         /\ Cdb(op)[0] = op
         /\ \A k \in 1..9 : Cdb(op)[k] = 0
BY DEF Cdb, Zeroes, TenBytes, Byte

\* The CDBs of six bytes.
LEMMA ShortCdb ==
  ASSUME NEW op \in Byte, NEW n \in Byte
  PROVE  /\ [Cdb(op) EXCEPT ![4] = n] \in TenBytes
         /\ [Cdb(op) EXCEPT ![4] = n][0] = op
         /\ [Cdb(op) EXCEPT ![4] = n][4] = n
         /\ \A k \in {1, 2, 3, 5} : [Cdb(op) EXCEPT ![4] = n][k] = 0
BY CdbBytes DEF TenBytes

\* The CDBs with a 16-bit length, over a base that has the opcode.
LEMMA LongCdb ==
  ASSUME NEW b \in TenBytes, NEW n \in Nat, n < 65536
  PROVE  /\ write_be16(b, 7, n) \in TenBytes
         /\ write_be16(b, 7, n)[0] = b[0]
         /\ read_be16(write_be16(b, 7, n), 7) = n
  <1> DEFINE w == write_be16(b, 7, n)
  <1>1. PICK hi \in Byte : hi = n \div 256
    BY DEF Byte
  <1>2. PICK lo \in Byte : lo = n % 256
    BY DEF Byte
  <1>3. hi \in Int /\ lo \in Int
    BY DEF Byte
  <1>4. 256 * hi + lo = n
    BY <1>1, <1>2, <1>3, TwoDigits
  <1>5. /\ w \in TenBytes /\ w[7] = hi /\ w[7 + 1] = lo
        /\ \A k \in 0..9 : k # 7 /\ k # 7 + 1 => w[k] = b[k]
    BY <1>1, <1>2, WriteBe16
  <1> HIDE DEF w
  <1>6. w[0] = b[0] /\ 256 * w[7] + w[7 + 1] = n
    BY <1>4, <1>5
  <1> QED
    BY <1>5, <1>6 DEF read_be16, w

\* m65_cdb_mode_select_10 for the one payload there is.
LEMMA ModeSelectCdb ==
  /\ cdb_mode_select_10(40) \in TenBytes
  /\ cdb_mode_select_10(40)[0] = MODE_SELECT_10
  /\ cdb_mode_select_10(40)[1] = 16
  /\ \A i \in {2, 3, 4, 5, 6, 7, 9} : cdb_mode_select_10(40)[i] = 0
  /\ cdb_mode_select_10(40)[8] = 40
  <1> DEFINE b == [Cdb(MODE_SELECT_10) EXCEPT ![1] = 16]
             w == write_be16(b, 7, 40)
  <1>1. /\ b \in TenBytes /\ b[0] = MODE_SELECT_10 /\ b[1] = 16
        /\ \A k \in 2..9 : b[k] = 0
    <2>1. MODE_SELECT_10 \in Byte /\ 16 \in Byte
      BY DEF MODE_SELECT_10, Byte
    <2> QED
      BY <2>1, CdbBytes DEF TenBytes
  <1> HIDE DEF b
  <1>2. 40 \div 256 = 0 /\ 40 % 256 = 40
    OBVIOUS
  <1>3. /\ w \in TenBytes /\ w[7] = 0 /\ w[8] = 40
        /\ \A k \in 0..9 : k # 7 /\ k # 8 => w[k] = b[k]
    <2>1. 0 \in Byte /\ 40 \in Byte
      BY DEF Byte
    <2>2. /\ w \in TenBytes /\ w[7] = 0 /\ w[7 + 1] = 40
          /\ \A k \in 0..9 : k # 7 /\ k # 7 + 1 => w[k] = b[k]
      BY <1>1, <1>2, <2>1, WriteBe16
    <2> HIDE DEF w
    <2> QED
      BY <2>2
  <1>4. cdb_mode_select_10(40) = w
    BY DEF cdb_mode_select_10, b
  <1> HIDE DEF w
  <1> QED
    BY <1>1, <1>3, <1>4

\* The payload m65_build_mode_select_payload starts.
LEMMA PayloadBytes ==
  /\ mode_select_payload(5, 30) \in TenBytes
  /\ \A i \in 0..7 : mode_select_payload(5, 30)[i] = 0
  /\ mode_select_payload(5, 30)[8] = 5 /\ mode_select_payload(5, 30)[9] = 30
  <1>1. mode_select_payload(5, 30) = [Zeroes EXCEPT ![8] = 5, ![9] = 30]
    BY 5 % 64 = 5 DEF mode_select_payload
  <1> QED
    BY <1>1 DEF Zeroes, TenBytes, Byte

\* Every page that may be sent makes the same first bytes.
LEMMA OneModeSelect ==
  ASSUME NEW h, NEW l, PageSendable(h, l)
  PROVE  ModeSelect(h, l) = ModeSelect(5, 30)
BY 5 % 64 = 5 DEF PageSendable, ModeSelect, mode_select_payload

\* The restoring MODE SELECT passes m65_validate_command.
LEMMA ModeSelectAllowed ==
  LET c == ModeSelect(5, 30)
  IN  /\ c \in Command
      /\ c.cdb[0] = MODE_SELECT_10
      /\ mode_select_allowed(c)
      /\ read_be16(c.cdb, 7) = c.data_length
  <1> DEFINE c == ModeSelect(5, 30)
  <1>1. /\ c = [cdb |-> cdb_mode_select_10(40), cdb_length |-> 10,
                direction |-> "OUT", data |-> TRUE, data_length |-> 40,
                payload |-> mode_select_payload(5, 30)]
    BY DEF ModeSelect
  <1> HIDE DEF c
  <1>2. c \in Command
    BY <1>1, ModeSelectCdb, PayloadBytes DEF Command
  <1>3. read_be16(c.cdb, 7) = 40
    BY <1>1, ModeSelectCdb DEF read_be16
  <1>4. mode_select_allowed(c)
    BY <1>1, <1>3, ModeSelectCdb, PayloadBytes
       DEF mode_select_allowed, validate_data
  <1> QED
    BY <1>1, <1>2, <1>3, <1>4, ModeSelectCdb DEF c

\* The bytes a command's CDB asks the drive for.
Asked(c) ==
  LET op == c.cdb[0]
  IN  CASE op \in {REQUEST_SENSE, INQUIRY} -> c.cdb[4]
        [] op = READ_CAPACITY_10 -> 8
        [] op = READ_10 -> BLOCK_SIZE * read_be16(c.cdb, 7)
        [] op = TEST_UNIT_READY -> 0
        [] OTHER -> read_be16(c.cdb, 7)

Good(c) ==
  c \in Command /\ validate_command(c) /\ Asked(c) = c.data_length

\* The commands of six bytes.
LEMMA ShortGood ==
  /\ Good(NoData(Cdb(TEST_UNIT_READY)))
  /\ Good(DataIn(cdb_request_sense(18), 6, 18))
  /\ Good(DataIn(cdb_inquiry(96), 6, 96))
  <1> USE DEF TEST_UNIT_READY, REQUEST_SENSE, INQUIRY, READ_FORMAT_CAPACITIES,
          READ_CAPACITY_10, READ_10, MODE_SELECT_10, MODE_SENSE_10
  <1>1. /\ 0 \in Byte /\ 3 \in Byte /\ 18 \in Byte /\ 96 \in Byte
        /\ Zeroes \in TenBytes
    BY DEF Byte, TenBytes, Zeroes
  <1>2. Good(NoData(Cdb(TEST_UNIT_READY)))
    <2> DEFINE b == Cdb(TEST_UNIT_READY)
               c == NoData(b)
    <2>1. b \in TenBytes /\ b[0] = 0
      BY <1>1, CdbBytes
    <2> HIDE DEF b
    <2>2. /\ c \in Command /\ c.cdb[0] = 0 /\ c.cdb_length = 6
          /\ validate_data(c, "NONE") /\ c.data_length = 0
      BY <1>1, <2>1 DEF NoData, Command, validate_data
    <2> HIDE DEF c
    <2>3. Good(c)
      BY <2>2 DEF Good, Asked, validate_command
    <2> QED
      BY <2>3 DEF b, c
  <1>3. Good(DataIn(cdb_request_sense(18), 6, 18))
    <2> DEFINE b == cdb_request_sense(18)
               c == DataIn(b, 6, 18)
    <2>1. /\ b \in TenBytes /\ b[0] = 3 /\ b[4] = 18
          /\ \A k \in {1, 2, 3, 5} : b[k] = 0
      BY <1>1, ShortCdb DEF cdb_request_sense
    <2> HIDE DEF b
    <2>2. /\ c \in Command /\ c.cdb = b /\ c.cdb_length = 6
          /\ validate_data(c, "IN") /\ c.data_length = 18
      BY <1>1, <2>1 DEF DataIn, Command, validate_data
    <2> HIDE DEF c
    <2>3. request_sense_allowed(c)
      BY <2>1, <2>2 DEF request_sense_allowed
    <2>4. Good(c)
      BY <2>1, <2>2, <2>3 DEF Good, Asked, validate_command
    <2> QED
      BY <2>4 DEF b, c
  <1>4. Good(DataIn(cdb_inquiry(96), 6, 96))
    <2> DEFINE b == cdb_inquiry(96)
               c == DataIn(b, 6, 96)
    <2>1. b \in TenBytes /\ b[0] = 18 /\ b[4] = 96
      BY <1>1, ShortCdb DEF cdb_inquiry
    <2> HIDE DEF b
    <2>2. /\ c \in Command /\ c.cdb = b /\ c.cdb_length = 6
          /\ validate_data(c, "IN") /\ c.data_length = 96
      BY <1>1, <2>1 DEF DataIn, Command, validate_data
    <2> HIDE DEF c
    <2>3. Good(c)
      BY <2>1, <2>2 DEF Good, Asked, validate_command
    <2> QED
      BY <2>3 DEF b, c
  <1> QED
    BY <1>2, <1>3, <1>4

\* A ten-byte data-in command with a 16-bit length, other than READ (10).
LEMMA LongGood ==
  ASSUME NEW b \in TenBytes, NEW n \in Nat, n # 0, n < 65536,
         b[0] \in {READ_FORMAT_CAPACITIES, MODE_SENSE_10}
  PROVE  Good(DataIn(write_be16(b, 7, n), 10, n))
  <1> DEFINE w == write_be16(b, 7, n)
             c == DataIn(w, 10, n)
  <1>1. w \in TenBytes /\ w[0] = b[0] /\ read_be16(w, 7) = n
    BY LongCdb
  <1> HIDE DEF w
  <1>2. Zeroes \in TenBytes
    BY DEF Byte, TenBytes, Zeroes
  <1>3. /\ c \in Command /\ c.cdb = w /\ c.cdb_length = 10
        /\ validate_data(c, "IN") /\ c.data_length = n
    BY <1>1, <1>2 DEF DataIn, Command, validate_data
  <1> HIDE DEF c
  <1>4. Good(c)
    BY <1>1, <1>3
       DEF Good, Asked, validate_command, TEST_UNIT_READY, REQUEST_SENSE,
         INQUIRY, READ_FORMAT_CAPACITIES, READ_CAPACITY_10, READ_10,
         MODE_SELECT_10, MODE_SENSE_10
  <1> QED
    BY <1>4 DEF w, c

\* READ CAPACITY (10).
LEMMA CapacityGood == Good(DataIn(Cdb(READ_CAPACITY_10), 10, 8))
  <1> DEFINE b == Cdb(READ_CAPACITY_10)
             c == DataIn(b, 10, 8)
  <1>1. READ_CAPACITY_10 \in Byte /\ Zeroes \in TenBytes
    BY DEF READ_CAPACITY_10, Byte, TenBytes, Zeroes
  <1>2. b \in TenBytes /\ b[0] = READ_CAPACITY_10
    BY <1>1, CdbBytes
  <1> HIDE DEF b
  <1>3. /\ c \in Command /\ c.cdb = b /\ c.cdb_length = 10
        /\ validate_data(c, "IN") /\ c.data_length = 8
    BY <1>1, <1>2 DEF DataIn, Command, validate_data
  <1> HIDE DEF c
  <1>4. Good(c)
    BY <1>2, <1>3
       DEF Good, Asked, validate_command, TEST_UNIT_READY, REQUEST_SENSE,
         INQUIRY, READ_FORMAT_CAPACITIES, READ_CAPACITY_10, READ_10,
         MODE_SELECT_10, MODE_SENSE_10
  <1> QED
    BY <1>4 DEF b, c

\* READ (10) of any block address the code has and any number of blocks.
LEMMA ReadGood ==
  ASSUME NEW lba \in Nat, lba < 65536,
         NEW blocks \in Nat, blocks # 0, blocks < 65536
  PROVE  Good(DataIn(cdb_read_10(lba, blocks), 10, blocks * BLOCK_SIZE))
  <1> DEFINE a == write_be16(Cdb(READ_10), 4, lba)
             w == write_be16(a, 7, blocks)
             n == blocks * BLOCK_SIZE
             c == DataIn(w, 10, n)
  <1>1. a \in TenBytes /\ a[0] = READ_10
    <2>1. READ_10 \in Byte
      BY DEF READ_10, Byte
    <2>2. Cdb(READ_10) \in TenBytes /\ Cdb(READ_10)[0] = READ_10
      BY <2>1, CdbBytes
    <2>3. PICK hi \in Byte : hi = lba \div 256
      BY DEF Byte
    <2>4. PICK lo \in Byte : lo = lba % 256
      BY DEF Byte
    <2>5. /\ a \in TenBytes
          /\ \A k \in 0..9 : k # 4 /\ k # 4 + 1 => a[k] = Cdb(READ_10)[k]
      BY <2>2, <2>3, <2>4, WriteBe16
    <2> HIDE DEF a
    <2> QED
      BY <2>2, <2>5
  <1> HIDE DEF a
  <1>2. w \in TenBytes /\ w[0] = READ_10 /\ read_be16(w, 7) = blocks
    BY <1>1, LongCdb
  <1> HIDE DEF w
  <1>3. n \in Nat /\ n # 0
    BY DEF BLOCK_SIZE
  <1>4. Zeroes \in TenBytes
    BY DEF Byte, TenBytes, Zeroes
  <1>5. n = BLOCK_SIZE * blocks
    BY DEF BLOCK_SIZE
  <1> HIDE DEF n
  <1>6. /\ c \in Command /\ c.cdb = w /\ c.cdb_length = 10
        /\ validate_data(c, "IN") /\ c.data_length = n
    BY <1>2, <1>3, <1>4 DEF DataIn, Command, validate_data
  <1> HIDE DEF c
  <1>7. read_10_allowed(c)
    BY <1>2, <1>6 DEF read_10_allowed, n
  <1>8. Good(c)
    BY <1>2, <1>5, <1>6, <1>7
       DEF Good, Asked, validate_command, TEST_UNIT_READY, REQUEST_SENSE,
         INQUIRY, READ_FORMAT_CAPACITIES, READ_CAPACITY_10, READ_10,
         MODE_SELECT_10, MODE_SENSE_10
  <1> QED
    BY <1>8 DEF a, w, n, c, cdb_read_10

\* m65_validate_command passes every command the program builds, and the CDB
\* asks for as much as the buffer holds.
LEMMA BuiltGood ==
  ASSUME NEW c \in Built
  PROVE  Good(c)
  <1> DEFINE ready == NoData(Cdb(TEST_UNIT_READY))
             sense == DataIn(cdb_request_sense(18), 6, 18)
             inquiry == DataIn(cdb_inquiry(96), 6, 96)
             capacity == DataIn(Cdb(READ_CAPACITY_10), 10, 8)
             formats == DataIn(cdb_read_format_capacities(252), 10, 252)
             current == DataIn(cdb_mode_sense_10(FALSE, 256), 10, 256)
             changeable == DataIn(cdb_mode_sense_10(TRUE, 256), 10, 256)
             boundary == DataIn(cdb_read_10(1599, 1), 10, BLOCK_SIZE)
             directory == DataIn(cdb_read_10(9, 1), 10, BLOCK_SIZE)
             last == DataIn(cdb_read_10(1590, 10), 10, 10 * BLOCK_SIZE)
             selects == {ModeSelect(p[1], p[2]) :
                           p \in {q \in ByteValues \X ByteValues :
                                   PageSendable(q[1], q[2])}}
  <1>1. Good(ready) /\ Good(sense) /\ Good(inquiry) /\ Good(capacity)
    BY ShortGood, CapacityGood
  <1>2. Good(formats)
    <2>1. READ_FORMAT_CAPACITIES \in Byte
      BY DEF READ_FORMAT_CAPACITIES, Byte
    <2>2. Cdb(READ_FORMAT_CAPACITIES) \in TenBytes
          /\ Cdb(READ_FORMAT_CAPACITIES)[0] = READ_FORMAT_CAPACITIES
      BY <2>1, CdbBytes
    <2> QED
      BY <2>2, LongGood DEF cdb_read_format_capacities
  <1>3. ASSUME NEW page \in {5, 69}
        PROVE  Good(DataIn(write_be16([Cdb(MODE_SENSE_10) EXCEPT ![2] = page],
                                      7, 256), 10, 256))
    <2> DEFINE b == [Cdb(MODE_SENSE_10) EXCEPT ![2] = page]
    <2>1. MODE_SENSE_10 \in Byte /\ page \in Byte /\ 2 \in 0..9
      BY DEF MODE_SENSE_10, Byte
    <2>2. Cdb(MODE_SENSE_10) \in TenBytes
          /\ Cdb(MODE_SENSE_10)[0] = MODE_SENSE_10
      BY <2>1, CdbBytes
    <2>3. b \in TenBytes /\ b[0] = MODE_SENSE_10
      BY <2>1, <2>2, OneByte
    <2> HIDE DEF b
    <2>4. Good(DataIn(write_be16(b, 7, 256), 10, 256))
      BY <2>3, LongGood
    <2> QED
      BY <2>4 DEF b
  <1>4. Good(current)
    BY <1>3 DEF cdb_mode_sense_10
  <1>5. Good(changeable)
    BY <1>3 DEF cdb_mode_sense_10
  <1>6. 1 * BLOCK_SIZE = BLOCK_SIZE
    BY DEF BLOCK_SIZE
  <1>7. Good(boundary)
    BY <1>6, ReadGood
  <1>8. Good(directory)
    BY <1>6, ReadGood
  <1>9. Good(last)
    BY ReadGood
  <1>10. ASSUME NEW h, NEW l, PageSendable(h, l)
         PROVE  Good(ModeSelect(h, l))
    <2> DEFINE m == ModeSelect(5, 30)
    <2>1. /\ m \in Command /\ m.cdb[0] = MODE_SELECT_10
          /\ mode_select_allowed(m) /\ read_be16(m.cdb, 7) = m.data_length
      BY ModeSelectAllowed
    <2> HIDE DEF m
    <2>2. Good(m)
      BY <2>1
         DEF Good, Asked, validate_command, TEST_UNIT_READY, REQUEST_SENSE,
           INQUIRY, READ_FORMAT_CAPACITIES, READ_CAPACITY_10, READ_10,
           MODE_SELECT_10, MODE_SENSE_10
    <2> QED
      BY <1>10, <2>2, OneModeSelect DEF m
  <1>11. CASE c \in selects
    <2>1. PICK p \in ByteValues \X ByteValues :
            PageSendable(p[1], p[2]) /\ c = ModeSelect(p[1], p[2])
      BY <1>11
    <2> QED
      BY <1>10, <2>1
  <1>12. Built = {ready, sense, inquiry, capacity, formats, current, changeable,
                  boundary, directory, last} \cup selects
    BY DEF Built
  <1> HIDE DEF ready, sense, inquiry, capacity, formats, current, changeable,
          boundary, directory, last, selects
  <1> QED
    BY <1>1, <1>2, <1>4, <1>5, <1>7, <1>8, <1>9, <1>11, <1>12

\* What m65_validate_command lets out with data is one command, to the byte.
LEMMA OnlyModeSelect ==
  ASSUME NEW c \in Command, validate_command(c),
         c.direction = "OUT" \/ c.cdb[0] = MODE_SELECT_10
  PROVE  c = ModeSelect(5, 30)
  <1> DEFINE b == c.cdb
             p == c.payload
  <1>1. /\ b \in TenBytes /\ p \in TenBytes
        /\ c = [cdb |-> b, cdb_length |-> c.cdb_length,
                direction |-> c.direction, data |-> c.data,
                data_length |-> c.data_length, payload |-> p]
        /\ c.data \in BOOLEAN
    BY DEF Command
  <1>2. c.cdb[0] = MODE_SELECT_10
    <2>1. CASE c.cdb[0] # MODE_SELECT_10
      <3>1. c.direction \in {"IN", "NONE"}
        BY <2>1
           DEF validate_command, validate_data, request_sense_allowed,
             read_10_allowed
      <3> QED
        BY <2>1, <3>1
    <2> QED
      BY <2>1
  <1>3. mode_select_allowed(c)
    BY <1>2
       DEF validate_command, TEST_UNIT_READY, REQUEST_SENSE, INQUIRY,
         READ_FORMAT_CAPACITIES, READ_CAPACITY_10, READ_10, MODE_SELECT_10,
         MODE_SENSE_10
  <1>4. /\ c.cdb_length = 10 /\ c.direction = "OUT" /\ c.data
        /\ c.data_length = 40
        /\ b[0] = MODE_SELECT_10 /\ b[1] = 16
        /\ \A i \in {2, 3, 4, 5, 6, 9} : b[i] = 0
        /\ 256 * b[7] + b[8] = 40
        /\ \A i \in 0..7 : p[i] = 0
        /\ p[8] = 5 /\ p[9] = 30
    BY <1>2, <1>3 DEF mode_select_allowed, validate_data, read_be16
  <1>5. b[7] = 0 /\ b[8] = 40
    <2>1. b[7] \in 0..255 /\ b[8] \in 0..255
      BY <1>1 DEF TenBytes, Byte
    <2>2. ASSUME NEW x \in 0..255, NEW y \in 0..255, 256 * x + y = 40
          PROVE  x = 0 /\ y = 40
      BY <2>2
    <2>3. 256 * b[7] + b[8] = 40
      BY <1>4
    <2> HIDE DEF b
    <2> QED
      BY <2>1, <2>2, <2>3
  <1>6. c.data = TRUE
    BY <1>1, <1>4
  <1> DEFINE m == cdb_mode_select_10(40)
             q == mode_select_payload(5, 30)
  <1>7. /\ m \in TenBytes /\ m[0] = MODE_SELECT_10 /\ m[1] = 16
        /\ \A i \in {2, 3, 4, 5, 6, 7, 9} : m[i] = 0
        /\ m[8] = 40
    BY ModeSelectCdb
  <1>8. /\ q \in TenBytes /\ \A i \in 0..7 : q[i] = 0
        /\ q[8] = 5 /\ q[9] = 30
    BY PayloadBytes
  <1>9. ModeSelect(5, 30) = [cdb |-> m, cdb_length |-> 10, direction |-> "OUT",
                             data |-> TRUE, data_length |-> 40, payload |-> q]
    BY DEF ModeSelect
  <1> HIDE DEF b, p, m, q
  <1>10. b = m
    <2>1. \A i \in 0..9 : b[i] = m[i]
      BY <1>4, <1>5, <1>7
    <2> QED
      BY <1>1, <1>7, <2>1 DEF TenBytes
  <1>11. p = q
    <2>1. \A i \in 0..9 : p[i] = q[i]
      BY <1>4, <1>8
    <2> QED
      BY <1>1, <1>8, <2>1 DEF TenBytes
  <1> QED
    BY <1>1, <1>4, <1>6, <1>9, <1>10, <1>11

\* A built command has no fault yet.
LEMMA CommandsInitInv == CommandsInit => CommandsInv
BY BuiltGood DEF CommandsInit, CommandsInv, Good

\* A fault leaves bytes bytes.
LEMMA CommandsNextInv == CommandsInv /\ [CommandsNext]_cvars => CommandsInv'
  <1> SUFFICES ASSUME CommandsInv, [CommandsNext]_cvars PROVE CommandsInv'
    OBVIOUS
  <1>1. command \in Command /\ faults \in Nat
    BY DEF CommandsInv
  <1>2. ASSUME NEW c \in Command, Wrong(c) PROVE CommandsInv'
    BY <1>1, <1>2 DEF Wrong, CommandsInv
  <1>3. ASSUME NEW i \in 0..9, NEW v \in ByteValues
        PROVE  /\ [command EXCEPT !.cdb[i] = v] \in Command
               /\ [command EXCEPT !.payload[i] = v] \in Command
    <2>1. v \in Byte
      BY ByteValuesAssumption DEF Byte
    <2>2. command.cdb \in TenBytes /\ command.payload \in TenBytes
      BY <1>1 DEF Command
    <2>3. /\ [command.cdb EXCEPT ![i] = v] \in TenBytes
          /\ [command.payload EXCEPT ![i] = v] \in TenBytes
      BY <2>1, <2>2, OneByte
    <2> QED
      BY <1>1, <2>3 DEF Command
  <1>4. CASE WrongCdb \/ WrongPayload
    BY <1>2, <1>3, <1>4 DEF WrongCdb, WrongPayload
  <1>5. CASE WrongLength
    BY <1>1, <1>2, <1>5 DEF WrongLength, Command
  <1>6. CASE WrongDirection
    BY <1>1, <1>2, <1>6 DEF WrongDirection, Command
  <1>7. CASE WrongBuffer
    <2>1. [command EXCEPT !.data = ~@] \in Command
      BY <1>1 DEF Command
    <2>2. \A n \in Nat : [command EXCEPT !.data_length = n] \in Command
      BY <1>1 DEF Command
    <2> QED
      BY <1>2, <1>7, <2>1, <2>2 DEF WrongBuffer
  <1>8. CASE UNCHANGED cvars
    BY <1>8 DEF cvars, CommandsInv
  <1> QED
    BY <1>4, <1>5, <1>6, <1>7, <1>8 DEF CommandsNext

\* The inductive invariant of the commands and their faults.
THEOREM CommandsInvariant == CommandsSpec => []CommandsInv
BY CommandsInitInv, CommandsNextInv, PTL DEF CommandsSpec

\* m65_validate_command is neither too strict nor too lax, however many fields
\* a caller gets wrong and whatever bytes it puts there.
THEOREM ValidatorIsExact == CommandsSpec => []ValidatorExact
  <1>1. ASSUME CommandsInv PROVE ValidatorExact
    <2>1. faults = 0 => Good(command)
      BY <1>1, BuiltGood DEF CommandsInv
    <2>2. BuiltIsAllowed
      BY <2>1 DEF Good, Asked, BuiltIsAllowed
    <2>3. DataOutContained
      BY <1>1, OnlyModeSelect DEF CommandsInv, DataOutContained
    <2> QED
      BY <2>2, <2>3 DEF ValidatorExact
  <1> QED
    BY <1>1, CommandsInvariant, PTL
=============================================================================
