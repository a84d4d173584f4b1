-------------------------------- MODULE Probe --------------------------------
(***************************************************************************)
(* The probe workflows of src/probe.c over any transport: m65_inspect and  *)
(* m65_test_1581, which changes the controller's Flexible Disk page and    *)
(* must put it back.  A signal may arrive between any two steps of         *)
(* m65_test_1581 (main.c installs its handlers around it).                 *)
(*                                                                         *)
(* The transport is abstract here: a command that reaches it is GOOD, ends *)
(* in CHECK CONDITION, or fails with a transport status.  The drive is     *)
(* external; of it the model keeps the Flexible Disk page in force, as a   *)
(* value that is the saved one, the 1581 geometry, or something else, and  *)
(* whether it has lost that page of its own accord and not said so yet.    *)
(***************************************************************************)
EXTENDS Naturals

CONSTANT Chunks        \* READ (10) commands per complete image (160)

ASSUME ChunksAssumption == Chunks \in Nat \ {0}

VARIABLES
  workflow,            \* which of the two runs
  pc,                  \* the next step of it
  interrupted,         \* probe.c's volatile flag
  report,              \* M65InspectReport / M651581Report
  restore_needed,      \* local of m65_test_1581
  pass, chunk, differ, \* progress of read_complete_image, memcmp's operand
  page,                \* the drive's Flexible Disk page
  original,            \* the page in force before the workflow
  standard,            \* is the page's length byte 30, as MODE SELECT needs?
  attention,           \* the drive owes a UNIT ATTENTION
  held,                \* the transport holds the interface
  attempted            \* the restoring MODE SELECT was given a chance

device == <<page, original, standard, attention>>
reading == <<pass, chunk, differ>>
vars == <<workflow, pc, interrupted, report, restore_needed, reading, device,
          held, attempted>>

\* A page: the one the drive had, exact 1581 geometry, or any other.
Page == {"saved", "g1581", "other"}

TransportFailure == {"PERMISSION", "NO_DEVICE", "TIMEOUT", "IO", "PROTOCOL"}

\* M65CommandResult as the workflow tells them apart.
CommandResult == {"GOOD", "CHECK"} \cup TransportFailure

ProbeCode == {"OK", "NO_DEVICE", "PERMISSION", "TRANSPORT", "UNSUPPORTED",
              "MISMATCH", "USAGE"}

Report == [code : ProbeCode,
           status : {"SUPPORTED", "UNSUPPORTED", "INCONCLUSIVE"},
           exclusive_acquired : BOOLEAN, original_saved : BOOLEAN,
           controller_changed : BOOLEAN, controller_restored : BOOLEAN,
           repeated_reads_match : BOOLEAN, image : BOOLEAN]

ZeroReport ==
  [code |-> "TRANSPORT", status |-> "INCONCLUSIVE",
   exclusive_acquired |-> FALSE, original_saved |-> FALSE,
   controller_changed |-> FALSE, controller_restored |-> FALSE,
   repeated_reads_match |-> FALSE, image |-> FALSE]

\* The commands of m65_inspect, in order.
InspectSteps == <<"inquiry", "ready", "capacity", "formats", "current",
                  "changeable">>

InspectPc == {"inquiry", "ready", "capacity", "formats", "current",
              "changeable"}

TestPc == {"save", "mask", "select", "readback", "lba9", "lba1599", "alloc",
           "read", "compare", "cleanup", "restore"}

TypeOK ==
  /\ workflow \in {"inspect", "test"}
  /\ pc \in {"start", "acquire", "release", "done"} \cup InspectPc \cup TestPc
  /\ interrupted \in BOOLEAN
  /\ report \in Report
  /\ restore_needed \in BOOLEAN
  /\ pass \in 1..2 /\ chunk \in 0..Chunks /\ differ \in BOOLEAN
  /\ page \in Page /\ original \in {"saved", "g1581"} /\ standard \in BOOLEAN
  /\ attention \in BOOLEAN
  /\ held \in BOOLEAN /\ attempted \in BOOLEAN

Init ==
  /\ workflow \in {"inspect", "test"}
  /\ pc = "start"
  /\ interrupted = FALSE
  /\ report = ZeroReport
  /\ restore_needed = FALSE
  /\ pass = 1 /\ chunk = 0 /\ differ = FALSE
  /\ original \in {"saved", "g1581"}
  /\ page = original
  /\ standard \in BOOLEAN /\ attention \in BOOLEAN
  /\ held = FALSE
  /\ attempted = FALSE
-----------------------------------------------------------------------------
(* Helpers of probe.c *)

code_for_transport(ts) ==
  CASE ts \in {"OK", "PERMISSION", "NO_DEVICE"} -> ts
    [] OTHER -> "TRANSPORT"

\* Mutant: a rejected command leaves the transport's OK as the code.
MutCheckIsOk(r) == IF r = "CHECK" THEN "OK" ELSE code_for_transport(r)

\* copy_command_failure's code for a command that was not GOOD.
FailureCode(r) == IF r = "CHECK" THEN "TRANSPORT" ELSE code_for_transport(r)

\* execute_checked: once interrupted, a command is not sent.
Sent == ~interrupted

\* A drive that owes a UNIT ATTENTION completes no command before it has
\* reported it as a CHECK CONDITION, INQUIRY excepted.
Completes == ~attention \/ pc = "inquiry"

Results ==
  IF ~Sent THEN {"IO"}
  ELSE IF Completes THEN CommandResult ELSE CommandResult \ {"GOOD"}

\* What the drive owes after result r: it may think it has reported what was
\* lost on the way.
Owes(r) ==
  IF ~Sent \/ r = "GOOD" THEN {attention}
  ELSE IF r = "CHECK" THEN {FALSE} ELSE {FALSE, attention}

\* A command that leaves the page alone.
Answered(r) ==
  /\ attention' \in Owes(r)
  /\ UNCHANGED <<page, original, standard>>

Fail(code, status) ==
  /\ report' = [report EXCEPT !.code = code, !.status = status]
  /\ pc' = "cleanup"

\* Mutant: a failed command is sent again.
MutFailedRetries(r) == UNCHANGED <<report, pc>>

\* A failed command ends the test; where the drive itself rejected it the
\* geometry counts as unsupported.
Failed(r) == Fail(FailureCode(r), report.status)

Rejected(r) ==
  IF r = "CHECK" THEN Fail("UNSUPPORTED", "UNSUPPORTED") ELSE Failed(r)

\* MODE SELECT of page p with result r, sent to the drive.  A page the drive
\* reported itself is taken over exactly when it answers GOOD; one it did not
\* choose may be rounded.  A rejected or lost command may have had a part of
\* its effect.
PagesAfter(p, r) ==
  CASE r = "GOOD" -> IF p = original THEN {p} ELSE {p, "other"}
    [] r = "CHECK" -> {page, "other"}
    [] OTHER -> {page, p, "other"}

\* mode_select: build_mode_select_payload refuses a page of another length;
\* then execute_checked.  Both refusals leave the drive alone.
ModeSelect(p, r) ==
  \/ ~standard /\ r = "PROTOCOL" /\ UNCHANGED device
  \/ standard /\ ~Sent /\ r = "IO" /\ UNCHANGED device
  \/ /\ standard /\ Sent
     /\ r = "GOOD" => Completes
     /\ page' \in PagesAfter(p, r)
     /\ attention' \in Owes(r)
     /\ UNCHANGED <<original, standard>>
-----------------------------------------------------------------------------
(* Steps shared by both workflows *)

\* signal_handler, while main.c has it installed.
Signal ==
  /\ workflow = "test" /\ pc # "done"
  /\ interrupted' = TRUE
  /\ UNCHANGED <<workflow, pc, report, restore_needed, reading, device, held,
                 attempted>>

\* The drive loses power or is reset and comes back with its own page, taken
\* to be the one it had; its next command will report that.
DriveResets ==
  /\ pc # "done"
  /\ page' = original
  /\ attention' = TRUE
  /\ UNCHANGED <<workflow, pc, interrupted, report, restore_needed, reading,
                 original, standard, held, attempted>>

\* The report is zeroed, the interrupt flag cleared, and test-1581 wants its
\* acknowledgement.
Start(acknowledgement) ==
  /\ pc = "start"
  /\ interrupted' = FALSE
  /\ IF workflow = "test" /\ ~acknowledgement
     THEN pc' = "done" /\ report' = [report EXCEPT !.code = "USAGE"]
     ELSE pc' = "acquire" /\ UNCHANGED report
  /\ UNCHANGED <<workflow, restore_needed, reading, device, held, attempted>>

\* acquire_exclusive returns ts.
Acquire(ts) ==
  /\ pc = "acquire"
  /\ IF ts = "OK"
     THEN /\ held' = TRUE
          /\ pc' = IF workflow = "test" THEN "save" ELSE "inquiry"
          /\ report' = [report EXCEPT !.exclusive_acquired = TRUE]
     ELSE /\ pc' = "done"
          /\ report' = [report EXCEPT !.code = code_for_transport(ts)]
          /\ UNCHANGED held
  /\ UNCHANGED <<workflow, interrupted, restore_needed, reading, device,
                 attempted>>

\* Mutant: m65_inspect does not look at the release's status.
MutReleaseIgnored(ts) == ts = "OK" \/ workflow = "inspect"

\* The report keeps its code over a release that returned ts: m65_inspect
\* reports the earlier of two failures, m65_test_1581 the later.
KeepsCode(ts) == ts = "OK" \/ (workflow = "inspect" /\ report.code # "OK")

\* release_exclusive returns ts.  m65_test_1581 overrides any verdict with a
\* failed release and then frees the image unless the verdict is SUPPORTED.
Release(ts) ==
  LET code == IF KeepsCode(ts) THEN report.code ELSE code_for_transport(ts)
      status == IF ts = "OK" THEN report.status ELSE "INCONCLUSIVE"
  IN /\ pc = "release"
     /\ pc' = "done"
     /\ held' = (ts \notin {"OK", "NO_DEVICE"})
     /\ report' = [report EXCEPT
                     !.code = code, !.status = status,
                     !.exclusive_acquired = FALSE,
                     !.image = report.image /\ status = "SUPPORTED"]
     /\ UNCHANGED <<workflow, interrupted, restore_needed, reading, device,
                    attempted>>

\* One command of m65_inspect: sent, and its response parsed (parsed is
\* FALSE when a parser refuses it).
Inspect(r, parsed) ==
  /\ pc \in InspectPc
  /\ IF r = "GOOD" /\ parsed
     THEN LET i == CHOOSE k \in 1..6 : InspectSteps[k] = pc IN
          /\ pc' = IF i = 6 THEN "release" ELSE InspectSteps[i + 1]
          /\ report' = IF i = 6 THEN [report EXCEPT !.code = "OK"] ELSE report
     ELSE /\ pc' = "release"
          /\ report' = IF r = "GOOD" THEN report
                       ELSE [report EXCEPT !.code = FailureCode(r)]
  /\ Answered(r)
  /\ UNCHANGED <<workflow, interrupted, restore_needed, reading, held,
                 attempted>>
-----------------------------------------------------------------------------
(* m65_test_1581 *)

local == <<workflow, interrupted, held, attempted>>

\* MODE SENSE of the current page; a response that does not parse is PROTOCOL.
SaveOriginal(r) ==
  /\ pc = "save"
  /\ \/ r # "GOOD" /\ Failed(r)
     \/ /\ r = "GOOD"
        /\ report' = [report EXCEPT !.original_saved = TRUE]
        /\ pc' = "mask"
  /\ Answered(r)
  /\ UNCHANGED <<local, restore_needed, reading>>

\* MODE SENSE of the changeable mask, and m65_geometry_changes_allowed, which
\* asks nothing of the mask when no field changes.
ReadMask(r, permits) ==
  /\ pc = "mask"
  /\ original = "g1581" => permits
  /\ \/ r # "GOOD" /\ Failed(r) /\ UNCHANGED restore_needed
     \/ /\ r = "GOOD" /\ ~permits
        /\ Fail("UNSUPPORTED", "UNSUPPORTED")
        /\ UNCHANGED restore_needed
     \/ /\ r = "GOOD" /\ permits
        /\ restore_needed' = TRUE
        /\ pc' = "select"
        /\ UNCHANGED report
  /\ Answered(r)
  /\ UNCHANGED <<local, reading>>

SelectGeometry(r) ==
  /\ pc = "select"
  /\ ModeSelect("g1581", r)
  /\ \/ r # "GOOD" /\ Rejected(r)
     \/ /\ r = "GOOD"
        /\ report' = [report EXCEPT !.controller_changed = TRUE]
        /\ pc' = "readback"
  /\ UNCHANGED <<local, restore_needed, reading>>

\* m65_geometry_is_1581 of the page read back.
is_1581 == page = "g1581"

\* MODE SENSE again: only the exact geometry counts.
VerifyGeometry(r) ==
  /\ pc = "readback"
  /\ \/ r # "GOOD" /\ Failed(r)
     \/ r = "GOOD" /\ ~is_1581 /\ Fail("UNSUPPORTED", "UNSUPPORTED")
     \/ r = "GOOD" /\ is_1581 /\ pc' = "lba9" /\ UNCHANGED report
  /\ Answered(r)
  /\ UNCHANGED <<local, restore_needed, reading>>

\* READ (10) of LBA 9, then of LBA 1599.
ReadBoundary(r) ==
  /\ pc \in {"lba9", "lba1599"}
  /\ \/ r # "GOOD" /\ Rejected(r)
     \/ /\ r = "GOOD"
        /\ pc' = IF pc = "lba9" THEN "lba1599" ELSE "alloc"
        /\ UNCHANGED report
  /\ Answered(r)
  /\ UNCHANGED <<local, restore_needed, reading>>

\* Two buffers; report->image may exist although the second malloc failed.
Allocate(first, second) ==
  /\ pc = "alloc"
  /\ report' = [report EXCEPT !.image = first,
                  !.code = IF first /\ second THEN @ ELSE "TRANSPORT"]
  /\ pc' = IF first /\ second THEN "read" ELSE "cleanup"
  /\ UNCHANGED <<local, restore_needed, reading, device>>

\* One turn of read_complete_image, twice over the medium; same is FALSE when
\* the second reading returns other bytes than the first.
ReadChunk(r, same) ==
  /\ pc = "read"
  /\ \/ r # "GOOD" /\ Failed(r) /\ UNCHANGED reading
     \/ /\ r = "GOOD"
        /\ pass = 1 => same
        /\ differ' = (differ \/ ~same)
        /\ IF chunk + 1 < Chunks
           THEN chunk' = chunk + 1 /\ UNCHANGED <<pass, pc>>
           ELSE /\ chunk' = IF pass = 1 THEN 0 ELSE Chunks
                /\ pass' = 2
                /\ pc' = IF pass = 1 THEN "read" ELSE "compare"
        /\ UNCHANGED report
  /\ Answered(r)
  /\ UNCHANGED <<local, restore_needed>>

\* Mutant: the two readings are not compared.
MutNoCompare ==
  /\ pc = "compare"
  /\ report' = [report EXCEPT !.repeated_reads_match = TRUE,
                              !.code = "OK", !.status = "SUPPORTED"]
  /\ pc' = "cleanup"
  /\ UNCHANGED <<local, restore_needed, reading, device>>

\* memcmp of the two images: the only way to SUPPORTED.
Compare ==
  /\ pc = "compare"
  /\ \/ differ /\ Fail("MISMATCH", "INCONCLUSIVE")
     \/ /\ ~differ
        /\ report' = [report EXCEPT !.repeated_reads_match = TRUE,
                                    !.code = "OK", !.status = "SUPPORTED"]
        /\ pc' = "cleanup"
  /\ UNCHANGED <<local, restore_needed, reading, device>>

\* Mutant: only a change that was confirmed is undone.
MutRestoreIfChanged == report.controller_changed

\* The saved page has to go back.
RestoreOwed == restore_needed /\ report.original_saved

\* cleanup: the interrupt flag is cleared just before restoration.
Cleanup ==
  /\ pc = "cleanup"
  /\ IF RestoreOwed
     THEN /\ interrupted' = FALSE
          /\ pc' = "restore"
          /\ UNCHANGED report
     ELSE /\ report' = [report EXCEPT
                          !.controller_restored = report.original_saved]
          /\ pc' = "release"
          /\ UNCHANGED interrupted
  /\ UNCHANGED <<workflow, held, attempted, restore_needed, reading, device>>

\* The saved page goes back, unless a signal arrived since the flag was
\* cleared.
Restore(r) ==
  /\ pc = "restore"
  /\ ModeSelect(original, r)
  /\ attempted' = (~standard \/ Sent)
  /\ report' = IF r = "GOOD"
               THEN [report EXCEPT !.controller_restored = TRUE]
               ELSE [report EXCEPT !.code = FailureCode(r),
                                   !.status = "INCONCLUSIVE"]
  /\ pc' = "release"
  /\ UNCHANGED <<workflow, interrupted, held, restore_needed, reading>>
-----------------------------------------------------------------------------
Step ==
  \/ \E a \in BOOLEAN : Start(a)
  \/ \E ts \in {"OK"} \cup TransportFailure : Acquire(ts)
  \/ \E r \in Results, p \in BOOLEAN : Inspect(r, p)
  \/ \E r \in Results : SaveOriginal(r)
  \/ \E r \in Results, p \in BOOLEAN : ReadMask(r, p)
  \/ \E r \in CommandResult : SelectGeometry(r)
  \/ \E r \in Results : VerifyGeometry(r)
  \/ \E r \in Results : ReadBoundary(r)
  \/ \E f, g \in BOOLEAN : Allocate(f, g)
  \/ \E r \in Results, s \in BOOLEAN : ReadChunk(r, s)
  \/ Compare
  \/ Cleanup
  \/ \E r \in CommandResult : Restore(r)
  \/ \E ts \in {"OK"} \cup TransportFailure : Release(ts)

Next == Step \/ Signal \/ DriveResets

Spec == Init /\ [][Next]_vars
-----------------------------------------------------------------------------
(* Properties *)

\* A controller left with another page than it had is never presented as a
\* success or as a clean rejection: the report says inconclusive, not
\* restored, with a failure code, whatever mix of rejected, lost or rounded
\* MODE SELECTs, interrupts and release failures led there (README.md: "If an
\* unplug or transport failure makes restoration impossible, the result is
\* inconclusive and says so").  A page that could never be sent back, for its
\* length byte, is not changed in the first place.
ResidueReported ==
  /\ pc = "done" /\ page # original =>
       /\ report.status = "INCONCLUSIVE"
       /\ ~report.controller_restored
       /\ report.code \in {"TRANSPORT", "PERMISSION", "NO_DEVICE"}
  /\ ~standard => page = original

\* The controller_restored flag of the report tells the truth about the
\* drive, also on the paths where nothing was changed.
RestoredIsTrue == report.controller_restored => page = original

\* SUPPORTED is kept only by a run in which the geometry was in force while
\* two complete reads agreed, the page went back and the interface was given
\* back; exactly then an image survives for the caller to write.
SupportedIsEarned ==
  pc = "done" /\ workflow = "test" =>
    /\ report.status = "SUPPORTED" <=> report.code = "OK"
    /\ report.image <=> report.status = "SUPPORTED"
    /\ report.status = "SUPPORTED" =>
         /\ report.repeated_reads_match /\ report.controller_changed
         /\ report.controller_restored
         /\ pass = 2 /\ chunk = Chunks /\ ~differ
         /\ ~held

\* Exit code 0 of either workflow means that the interface was released.
OkMeansReleased == pc = "done" /\ report.code = "OK" => ~held

\* A step on towards the verdict: a block that counts as read.
BlockCounts ==
  /\ pc \in {"lba9", "lba1599", "read"}
  /\ pc' # "cleanup"
  /\ <<pc, pass, chunk>>' # <<pc, pass, chunk>>

\* Every block of the two images is read in the geometry that was verified
\* before the first of them, although a drive that loses power or is reset
\* drops it at any moment: the code looks at the page once, never resends a
\* command that failed, and so never reads past a UNIT ATTENTION.
ReadsUnderGeometry == [][BlockCounts => page = "g1581"]_vars

\* probe.c: "An interrupt stops further reads, but must never suppress
\* restoration."  Once the geometry may have been changed, the run does not
\* end without the restoring MODE SELECT having been attempted.
InterruptNeverSuppressesRestore ==
  pc = "done" /\ restore_needed => attempted
=============================================================================
