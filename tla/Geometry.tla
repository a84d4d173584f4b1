------------------------------ MODULE Geometry ------------------------------
(***************************************************************************)
(* The Flexible Disk page arithmetic of src/ufi.c that test-1581 rests on: *)
(* may the saved page be changed to the 1581 geometry under the mask the   *)
(* controller reports, and what can a controller that honours its mask be  *)
(* left with?  A byte of the page is the set of its bits.  Field[o] is the *)
(* field that byte o belongs to; the fields in Required are the ones a     *)
(* 1581 geometry fixes.                                                    *)
(***************************************************************************)
EXTENDS Integers

CONSTANTS
  Bits,       \* the bits of a byte
  Field,      \* flexible_fields: the field of every byte of the page
  Required,   \* the table in m65_geometry_changes_allowed
  Target      \* the bytes that m65_set_1581_geometry writes

Offsets == DOMAIN Field
RequiredOffsets == {o \in Offsets : Field[o] \in Required}

ASSUME TargetAssumption == Target \in [RequiredOffsets -> SUBSET Bits]

VARIABLES
  saved,      \* report->original: the page MODE SENSE returned first
  mask,       \* the changeable-values page
  drive,      \* the page in the controller
  phase       \* how far test-1581 has come

gvars == <<saved, mask, drive, phase>>

Page == [Offsets -> SUBSET Bits]

\* m65_set_1581_geometry on a copy of page p.
set_1581_geometry(p) ==
  [o \in Offsets |-> IF o \in RequiredOffsets THEN Target[o] ELSE p[o]]

\* m65_geometry_is_1581
geometry_is_1581(p) == \A o \in RequiredOffsets : p[o] = Target[o]

Changed(p, q, o) == (p[o] \ q[o]) \cup (q[o] \ p[o])

\* Mutant: any changeable bit makes the byte changeable.
MutAnyBit(current, desired) ==
  \A o \in RequiredOffsets :
    Changed(current, desired, o) # {} => mask[o] # {}

\* m65_geometry_changes_allowed: changed & ~mask is zero.
geometry_changes_allowed(current, desired) ==
  \A o \in RequiredOffsets : Changed(current, desired, o) \subseteq mask[o]

\* m65_apply_changeability: a field is changeable if one of its bytes is.
field_changeable(f) == \E o \in Offsets : Field[o] = f /\ mask[o] # {}

\* MODE SELECT of page p by a controller that honours its mask: the bits it
\* does not offer for change keep their value.
Honours(p) ==
  [o \in Offsets |-> (drive[o] \ mask[o]) \cup (p[o] \cap mask[o])]

GeometryInit ==
  /\ saved \in Page
  /\ mask \in Page
  /\ drive = saved
  /\ phase = "saved"

Unsupported ==
  /\ phase = "saved"
  /\ ~geometry_changes_allowed(saved, set_1581_geometry(saved))
  /\ phase' = "unsupported"
  /\ UNCHANGED <<saved, mask, drive>>

Select ==
  /\ phase = "saved"
  /\ geometry_changes_allowed(saved, set_1581_geometry(saved))
  /\ drive' = Honours(set_1581_geometry(saved))
  /\ phase' = "selected"
  /\ UNCHANGED <<saved, mask>>

\* Mutant: the changed page is sent back.
MutRestorePage == set_1581_geometry(saved)

\* The complete saved page is what cleanup sends.
RestorePage == saved

Restore ==
  /\ phase = "selected"
  /\ drive' = Honours(RestorePage)
  /\ phase' = "restored"
  /\ UNCHANGED <<saved, mask>>

GeometryNext == Unsupported \/ Select \/ Restore

GeometrySpec == GeometryInit /\ [][GeometryNext]_gvars

\* The mask check decides exactly: where it allows the change, a controller
\* that honours its mask reaches the 1581 geometry to the bit; where it does
\* not, no MODE SELECT could have got it there, so "unsupported" is never
\* reported of a controller that could do it.  What the test changes is
\* listed as changeable in the report, although m65_apply_changeability works
\* per field and the check per bit.
MaskDecides ==
  /\ phase = "selected" => geometry_is_1581(drive)
  /\ phase = "unsupported" =>
       \A p \in Page : ~geometry_is_1581(Honours(p))
  /\ \A o \in Offsets : drive[o] # saved[o] => field_changeable(Field[o])

\* One MODE SELECT of the saved page undoes the change in every byte, also in
\* the fields the check did not look at.
RestoreExact == phase \in {"unsupported", "restored"} => drive = saved
=============================================================================
