---------------------------- MODULE ProbeProofs ----------------------------
(***************************************************************************)
(* Proofs about the probe workflows, and about run_selected around them,   *)
(* for every number of reads and writes per image, every answer of the     *)
(* transport and of the file system, and every signal.                     *)
(***************************************************************************)
EXTENDS RunSelected, TLAPS

ReadPc == {"lba9", "lba1599", "alloc", "read", "compare"}

EndPc == {"cleanup", "restore", "release", "done"}

\* Each workflow is only ever at its own steps.
OwnSteps ==
  /\ pc \in InspectPc => workflow = "inspect"
  /\ pc \in TestPc => workflow = "test"

\* restore_needed is raised before the first MODE SELECT that can reach the
\* drive, never without a saved page, and never for m65_inspect.
RestoreArmed ==
  /\ restore_needed => report.original_saved /\ workflow = "test"
  /\ pc \in {"start", "acquire", "save", "mask"} \cup InspectPc =>
       ~restore_needed
  /\ pc \in {"select", "readback", "restore"} \cup ReadPc => restore_needed
  /\ pc = "mask" => report.original_saved

\* Before that the drive is as it was found; afterwards the report says so or
\* the verdict is a failure.  While the image is read the drive is in the
\* geometry that was verified, or owes word that it is not.
PageAccounted ==
  /\ ~restore_needed => page = original
  /\ ~standard => page = original
  /\ pc \in ReadPc => page = "g1581" \/ attention
  /\ report.controller_restored => page = original
  /\ pc \in {"release", "done"} /\ page # original =>
       /\ report.status = "INCONCLUSIVE"
       /\ ~report.controller_restored
       /\ report.code \in {"TRANSPORT", "PERMISSION", "NO_DEVICE"}

\* The claim of restoration is the last thing the workflow makes.
RestoredLate == report.controller_restored => pc \in {"release", "done"}

\* The interface is held from acquire to release, and given back by a run
\* that ends with OK.
HeldWhileRunning ==
  /\ pc \notin {"start", "acquire", "done"} => held
  /\ pc = "done" /\ report.code = "OK" => ~held

\* The facts behind SUPPORTED, collected on the way to it.
Evidence ==
  /\ report.repeated_reads_match /\ report.controller_changed
  /\ report.image
  /\ restore_needed
  /\ pass = 2 /\ chunk = Chunks /\ ~differ

VerdictEarned ==
  workflow = "test" =>
    /\ pc \notin EndPc => report.status = "INCONCLUSIVE"
                          /\ report.code = "TRANSPORT"
    /\ pc \in {"start", "acquire", "save", "mask", "select", "readback",
               "lba9", "lba1599", "alloc"} => ~report.image
    /\ pc \in {"read", "compare"} => report.image
    /\ pc \in {"readback"} \cup ReadPc => report.controller_changed
    /\ pc = "compare" => pass = 2 /\ chunk = Chunks
    /\ pc \notin EndPc \cup {"compare"} => chunk < Chunks
    /\ pc \in EndPc => (report.status = "SUPPORTED" <=> report.code = "OK")
    /\ report.status = "SUPPORTED" => Evidence
    /\ pc \in {"release", "done"} /\ report.status = "SUPPORTED" =>
         report.controller_restored
    /\ pc = "done" => (report.image <=> report.status = "SUPPORTED")

IInv ==
  /\ TypeOK
  /\ OwnSteps
  /\ RestoreArmed
  /\ PageAccounted
  /\ RestoredLate
  /\ HeldWhileRunning
  /\ VerdictEarned
-----------------------------------------------------------------------------
(* Each action keeps the invariant. *)

\* The fields of a typed report.
LEMMA ReportFields ==
  ASSUME NEW r \in Report
  PROVE  /\ r.code \in ProbeCode
         /\ r.status \in {"SUPPORTED", "UNSUPPORTED", "INCONCLUSIVE"}
         /\ r.original_saved \in BOOLEAN /\ r.image \in BOOLEAN
         /\ r.controller_changed \in BOOLEAN
         /\ r.controller_restored \in BOOLEAN
         /\ r.repeated_reads_match \in BOOLEAN
  BY DEF Report

\* Failures are reported by the codes of a transport failure.
LEMMA FailureCodes ==
  /\ \A r \in CommandResult \ {"GOOD"} :
       FailureCode(r) \in {"TRANSPORT", "PERMISSION", "NO_DEVICE"}
  /\ \A ts \in TransportFailure :
       code_for_transport(ts) \in {"TRANSPORT", "PERMISSION", "NO_DEVICE"}
  BY DEF FailureCode, code_for_transport, CommandResult, TransportFailure

\* A signal only raises the flag.
LEMMA SignalInv ==
  ASSUME IInv, Signal
  PROVE  IInv'
  <1>0. report \in Report /\ report' \in Report
    BY FailureCodes DEF IInv, TypeOK, Signal, Report, ProbeCode
  <1> USE DEF Signal, local, reading, device
  <1>1. TypeOK'
    BY <1>0, ChunksAssumption DEF IInv, TypeOK, Page, InspectPc, TestPc,
         InspectSteps
  <1>2. OwnSteps' /\ RestoreArmed'
    BY <1>0 DEF IInv, TypeOK, OwnSteps, RestoreArmed, InspectPc, TestPc,
         ReadPc, InspectSteps, Report
  <1>3. PageAccounted'
    BY <1>0, FailureCodes DEF IInv, TypeOK, OwnSteps, RestoreArmed,
         PageAccounted, RestoredLate, InspectPc, TestPc, ReadPc, InspectSteps,
         Report
  <1>4. HeldWhileRunning' /\ RestoredLate'
    BY <1>0, FailureCodes DEF IInv, TypeOK, OwnSteps, HeldWhileRunning,
         RestoredLate, InspectPc, TestPc, InspectSteps, Report
  <1>5. VerdictEarned'
    BY <1>0, FailureCodes, ChunksAssumption DEF IInv, TypeOK, OwnSteps,
         RestoreArmed, VerdictEarned, Evidence, InspectPc, TestPc, ReadPc,
         EndPc, InspectSteps, Report
  <1> QED
    BY <1>1, <1>2, <1>3, <1>4, <1>5 DEF IInv

\* The drive falls back to its own page and owes word of it.
LEMMA DriveResetsInv ==
  ASSUME IInv, DriveResets
  PROVE  IInv'
  <1> USE DEF DriveResets, reading
  <1>1. TypeOK'
    BY DEF IInv, TypeOK, Page
  <1>2. PageAccounted' /\ RestoredLate'
    BY DEF IInv, PageAccounted, RestoredLate
  <1>3. OwnSteps' /\ RestoreArmed' /\ HeldWhileRunning' /\ VerdictEarned'
    BY DEF IInv, OwnSteps, RestoreArmed, HeldWhileRunning, VerdictEarned,
         Evidence
  <1> QED
    BY <1>1, <1>2, <1>3 DEF IInv

\* The start of a workflow.
LEMMA StartInv ==
  ASSUME IInv, NEW a \in BOOLEAN, Start(a)
  PROVE  IInv'
  <1>0. report \in Report /\ report' \in Report
    BY FailureCodes DEF IInv, TypeOK, Start, Report, ProbeCode
  <1> USE DEF Start, local, reading, device
  <1>1. TypeOK'
    BY <1>0, ChunksAssumption DEF IInv, TypeOK, Page, InspectPc, TestPc,
         InspectSteps
  <1>2. OwnSteps' /\ RestoreArmed'
    BY <1>0 DEF IInv, TypeOK, OwnSteps, RestoreArmed, InspectPc, TestPc,
         ReadPc, InspectSteps, Report
  <1>3. PageAccounted'
    BY <1>0, FailureCodes DEF IInv, TypeOK, OwnSteps, RestoreArmed,
         PageAccounted, RestoredLate, InspectPc, TestPc, ReadPc, InspectSteps,
         Report
  <1>4. HeldWhileRunning' /\ RestoredLate'
    BY <1>0, FailureCodes DEF IInv, TypeOK, OwnSteps, HeldWhileRunning,
         RestoredLate, InspectPc, TestPc, InspectSteps, Report
  <1>5. VerdictEarned'
    BY <1>0, FailureCodes, ChunksAssumption DEF IInv, TypeOK, OwnSteps,
         RestoreArmed, VerdictEarned, Evidence, InspectPc, TestPc, ReadPc,
         EndPc, InspectSteps, Report
  <1> QED
    BY <1>1, <1>2, <1>3, <1>4, <1>5 DEF IInv

\* acquire_exclusive returns.
LEMMA AcquireInv ==
  ASSUME IInv, NEW ts \in {"OK"} \cup TransportFailure, Acquire(ts)
  PROVE  IInv'
  <1>c. /\ report \in Report
        /\ ts \in TransportFailure => code_for_transport(ts) \in ProbeCode
    BY FailureCodes DEF IInv, TypeOK, ProbeCode
  <1>0. report \in Report /\ report' \in Report
    <2>1. CASE ts = "OK"
      BY <1>c, <2>1 DEF Acquire, Report
    <2>2. CASE ts # "OK"
      BY <1>c, <2>2 DEF Acquire, Report
    <2> QED
      BY <2>1, <2>2
  <1> USE DEF Acquire, code_for_transport, local, reading, device
  <1>1. TypeOK'
    <2>1. /\ held' \in BOOLEAN /\ pc' \in {"save", "inquiry", "done"}
          /\ UNCHANGED <<workflow, interrupted, restore_needed, reading, device,
                         attempted>>
      BY DEF IInv, TypeOK
    <2> QED
      BY <1>0, <2>1 DEF IInv, TypeOK, TestPc, InspectPc, InspectSteps
  <1>2. OwnSteps' /\ RestoreArmed'
    BY <1>0 DEF IInv, TypeOK, OwnSteps, RestoreArmed, InspectPc, TestPc,
         ReadPc, InspectSteps, Report
  <1>3. PageAccounted'
    BY <1>0, FailureCodes DEF IInv, TypeOK, OwnSteps, RestoreArmed,
         PageAccounted, RestoredLate, InspectPc, TestPc, ReadPc, InspectSteps,
         Report
  <1>4. HeldWhileRunning' /\ RestoredLate'
    BY <1>0, FailureCodes DEF IInv, TypeOK, OwnSteps, HeldWhileRunning,
         RestoredLate, InspectPc, TestPc, InspectSteps, Report
  <1>5. VerdictEarned'
    BY <1>0, FailureCodes, ChunksAssumption DEF IInv, TypeOK, OwnSteps,
         RestoreArmed, VerdictEarned, Evidence, InspectPc, TestPc, ReadPc,
         EndPc, InspectSteps, Report
  <1> QED
    BY <1>1, <1>2, <1>3, <1>4, <1>5 DEF IInv

\* A command of m65_inspect returns.
LEMMA InspectInv ==
  ASSUME IInv, NEW r \in CommandResult, NEW p \in BOOLEAN, Inspect(r, p)
  PROVE  IInv'
  <1>0. report \in Report /\ report' \in Report
    BY FailureCodes DEF IInv, TypeOK, Inspect, Report, ProbeCode
  <1> USE DEF Inspect, Answered, Owes, local, reading, device
  <1>1. TypeOK'
    <2>1. attention' \in BOOLEAN
      BY DEF IInv, TypeOK
    <2>2. pc' \in InspectPc \cup {"release"}
      BY DEF InspectSteps, InspectPc
    <2> QED
      BY <1>0, <2>1, <2>2 DEF IInv, TypeOK, Page, TestPc
  <1>2. OwnSteps' /\ RestoreArmed'
    BY <1>0 DEF IInv, TypeOK, OwnSteps, RestoreArmed, InspectPc, TestPc,
         ReadPc, InspectSteps, Report
  <1>3. PageAccounted'
    BY <1>0, FailureCodes DEF IInv, TypeOK, OwnSteps, RestoreArmed,
         PageAccounted, RestoredLate, InspectPc, TestPc, ReadPc, InspectSteps,
         Report
  <1>4. HeldWhileRunning' /\ RestoredLate'
    BY <1>0, FailureCodes DEF IInv, TypeOK, OwnSteps, HeldWhileRunning,
         RestoredLate, InspectPc, TestPc, InspectSteps, Report
  <1>5. VerdictEarned'
    BY <1>0, FailureCodes, ChunksAssumption DEF IInv, TypeOK, OwnSteps,
         RestoreArmed, VerdictEarned, Evidence, InspectPc, TestPc, ReadPc,
         EndPc, InspectSteps, Report
  <1> QED
    BY <1>1, <1>2, <1>3, <1>4, <1>5 DEF IInv

\* A failure of m65_test_1581 before its cleanup: any code but OK, no claim of
\* support, and the page touched only when it is owed back.
LEMMA FailInv ==
  ASSUME IInv, pc \in TestPc \ {"cleanup", "restore"},
         NEW code \in ProbeCode \ {"OK"},
         NEW status \in {"UNSUPPORTED", "INCONCLUSIVE"},
         Fail(code, status),
         page' \in Page, page' = page \/ (restore_needed /\ standard),
         attention' \in {FALSE, attention},
         UNCHANGED <<local, restore_needed, reading, original, standard>>
  PROVE  IInv'
  <1> USE DEF Fail, local, reading
  <1>0. /\ report \in Report /\ report' \in Report
        /\ report'.code = code /\ report'.status = status
        /\ report'.original_saved = report.original_saved
        /\ report'.image = report.image
        /\ report'.controller_restored = report.controller_restored
    BY DEF IInv, TypeOK, Report
  <1>1. TypeOK'
    BY <1>0 DEF IInv, TypeOK, TestPc
  <1>2. OwnSteps' /\ RestoreArmed'
    BY <1>0 DEF IInv, OwnSteps, RestoreArmed, InspectPc, TestPc, ReadPc
  <1>3. ~report.controller_restored
    BY DEF IInv, RestoredLate, TestPc
  <1>4. PageAccounted' /\ RestoredLate'
    BY <1>0, <1>3 DEF IInv, PageAccounted, RestoredLate, ReadPc
  <1>5. HeldWhileRunning'
    BY DEF IInv, HeldWhileRunning, TestPc
  <1>6. VerdictEarned'
    BY <1>0 DEF VerdictEarned, EndPc, ReadPc
  <1> QED
    BY <1>1, <1>2, <1>4, <1>5, <1>6 DEF IInv

\* The current page was asked for.
LEMMA SaveOriginalInv ==
  ASSUME IInv, NEW r \in CommandResult, SaveOriginal(r)
  PROVE  IInv'
  <1>0. /\ FailureCode(r) \in ProbeCode \ {"OK"} \/ r = "GOOD"
        /\ report.status = "INCONCLUSIVE" /\ page \in Page
        /\ attention' \in {FALSE, attention}
        /\ r = "GOOD" => attention' = attention
    BY FailureCodes DEF SaveOriginal, Answered, Owes, IInv, TypeOK, ProbeCode,
         VerdictEarned, OwnSteps, TestPc, EndPc
  <1>1. CASE r # "GOOD"
    BY <1>0, <1>1, FailInv DEF SaveOriginal, Answered, Failed, TestPc,
         ProbeCode, device
  <1>2. CASE /\ r = "GOOD" /\ pc = "save" /\ pc' = "mask"
             /\ report' = [report EXCEPT !.original_saved = TRUE]
             /\ UNCHANGED <<local, restore_needed, reading, device>>
    <2> USE DEF local, reading, device
    <2>0. /\ report \in Report /\ report' \in Report
          /\ report'.original_saved
          /\ report'.code = report.code /\ report'.status = report.status
          /\ report'.image = report.image
          /\ report'.controller_restored = report.controller_restored
      BY <1>2 DEF IInv, TypeOK, Report, ProbeCode
    <2>1. TypeOK'
      BY <1>2, <2>0 DEF IInv, TypeOK, TestPc, Page
    <2>2. OwnSteps' /\ RestoreArmed'
      BY <1>2, <2>0 DEF IInv, OwnSteps, RestoreArmed, InspectPc, TestPc,
           ReadPc
    <2>3. PageAccounted' /\ RestoredLate'
      BY <1>2, <2>0 DEF IInv, RestoreArmed, PageAccounted, RestoredLate,
           ReadPc
    <2>4. HeldWhileRunning'
      BY <1>2, <2>0 DEF IInv, HeldWhileRunning
    <2>5. VerdictEarned'
      BY <1>2, <2>0 DEF IInv, OwnSteps, RestoreArmed, VerdictEarned,
           Evidence, TestPc, ReadPc, EndPc
    <2> QED
      BY <2>1, <2>2, <2>3, <2>4, <2>5 DEF IInv
  <1> QED
    BY <1>0, <1>1, <1>2 DEF SaveOriginal, Answered, device

\* The page is saved before the mask is asked for.
LEMMA SavedByThen ==
  ASSUME IInv, pc = "mask" PROVE report.original_saved
  BY DEF IInv, RestoreArmed

\* The changeable mask was asked for.
LEMMA ReadMaskInv ==
  ASSUME IInv, NEW r \in CommandResult, NEW p \in BOOLEAN, ReadMask(r, p)
  PROVE  IInv'
  <1>0. /\ FailureCode(r) \in ProbeCode \ {"OK"} \/ r = "GOOD"
        /\ report.status = "INCONCLUSIVE" /\ page \in Page
        /\ attention' \in {FALSE, attention}
        /\ r = "GOOD" => attention' = attention
    BY FailureCodes DEF ReadMask, Answered, Owes, IInv, TypeOK, ProbeCode,
         VerdictEarned, OwnSteps, TestPc, EndPc
  <1>1. CASE r # "GOOD" \/ ~p
    BY <1>0, <1>1, FailInv DEF ReadMask, Answered, Failed, TestPc, ProbeCode,
         device
  <1>2. CASE /\ r = "GOOD" /\ pc = "mask" /\ pc' = "select"
             /\ restore_needed' = TRUE /\ report' = report
             /\ report.original_saved
             /\ UNCHANGED <<local, reading, device>>
    <2> USE DEF local, reading, device
    <2>0. report \in Report /\ report' = report
      BY <1>2 DEF IInv, TypeOK, Report, ProbeCode
    <2>1. TypeOK'
      BY <1>2, <2>0 DEF IInv, TypeOK, TestPc, Page
    <2>2. OwnSteps' /\ RestoreArmed'
      BY <1>2, <2>0 DEF IInv, OwnSteps, RestoreArmed, InspectPc, TestPc,
           ReadPc
    <2>3. PageAccounted' /\ RestoredLate'
      BY <1>2, <2>0 DEF IInv, RestoreArmed, PageAccounted, RestoredLate,
           ReadPc
    <2>4. HeldWhileRunning'
      BY <1>2, <2>0 DEF IInv, HeldWhileRunning
    <2>5. VerdictEarned'
      BY <1>2, <2>0 DEF IInv, OwnSteps, RestoreArmed, VerdictEarned,
           Evidence, TestPc, ReadPc, EndPc
    <2> QED
      BY <2>1, <2>2, <2>3, <2>4, <2>5 DEF IInv
  <1> QED
    BY <1>0, <1>1, <1>2, SavedByThen DEF ReadMask, Answered, device

\* The geometry was sent; the saved page is owed already.
LEMMA SelectGeometryInv ==
  ASSUME IInv, NEW r \in CommandResult, SelectGeometry(r)
  PROVE  IInv'
  <1>p. /\ page' \in Page /\ restore_needed
        /\ attention' \in {FALSE, attention}
        /\ page' = page \/ standard
    BY DEF SelectGeometry, ModeSelect, PagesAfter, Owes, IInv, TypeOK, Page,
         RestoreArmed, device
  <1>d. UNCHANGED <<original, standard>>
    BY DEF SelectGeometry, ModeSelect, device
  <1>b. attention' \in BOOLEAN
    BY <1>p DEF IInv, TypeOK
  <1>0. /\ FailureCode(r) \in ProbeCode \ {"OK"} \/ r = "GOOD"
        /\ report.status = "INCONCLUSIVE" /\ page \in Page
    BY FailureCodes DEF SelectGeometry, IInv, TypeOK, ProbeCode,
         VerdictEarned, OwnSteps, TestPc, EndPc
  <1>1. CASE r # "GOOD"
    BY <1>0, <1>1, <1>p, <1>d, FailInv DEF SelectGeometry, Rejected, Failed,
         TestPc, ProbeCode, device
  <1>2. CASE /\ r = "GOOD" /\ pc = "select" /\ pc' = "readback"
             /\ page' \in Page
             /\ page' = page \/ standard
             /\ report' = [report EXCEPT !.controller_changed = TRUE]
             /\ UNCHANGED <<local, restore_needed, reading, original, standard>>
    <2> USE DEF local, reading, device
    <2>0. /\ report \in Report /\ report' \in Report
          /\ report'.controller_changed
          /\ report'.original_saved = report.original_saved
          /\ report'.code = report.code /\ report'.status = report.status
          /\ report'.image = report.image
          /\ report'.controller_restored = report.controller_restored
      BY <1>2 DEF IInv, TypeOK, Report, ProbeCode
    <2>1. TypeOK'
      BY <1>2, <1>b, <2>0 DEF IInv, TypeOK, TestPc
    <2>2. OwnSteps' /\ RestoreArmed'
      BY <1>2, <2>0 DEF IInv, OwnSteps, RestoreArmed, InspectPc, TestPc,
           ReadPc
    <2>3. PageAccounted' /\ RestoredLate'
      BY <1>2, <2>0 DEF IInv, RestoreArmed, PageAccounted, RestoredLate,
           ReadPc
    <2>4. HeldWhileRunning'
      BY <1>2, <2>0 DEF IInv, HeldWhileRunning
    <2>5. VerdictEarned'
      BY <1>2, <2>0 DEF IInv, OwnSteps, RestoreArmed, VerdictEarned,
           Evidence, TestPc, ReadPc, EndPc
    <2> QED
      BY <2>1, <2>2, <2>3, <2>4, <2>5 DEF IInv
  <1> QED
    BY <1>1, <1>2, <1>p, <1>d DEF SelectGeometry

\* The page was read back.
LEMMA VerifyGeometryInv ==
  ASSUME IInv, NEW r \in CommandResult, VerifyGeometry(r)
  PROVE  IInv'
  <1>0. /\ FailureCode(r) \in ProbeCode \ {"OK"} \/ r = "GOOD"
        /\ report.status = "INCONCLUSIVE" /\ page \in Page
        /\ attention' \in {FALSE, attention}
        /\ r = "GOOD" => attention' = attention
    BY FailureCodes DEF VerifyGeometry, Answered, Owes, IInv, TypeOK,
         ProbeCode, VerdictEarned, OwnSteps, TestPc, EndPc
  <1>1. CASE r # "GOOD" \/ page # "g1581"
    BY <1>0, <1>1, FailInv DEF VerifyGeometry, Answered, Failed, is_1581,
         TestPc,
         ProbeCode, device
  <1>2. CASE /\ r = "GOOD" /\ pc = "readback" /\ pc' = "lba9"
             /\ page = "g1581" /\ report' = report
             /\ UNCHANGED <<local, restore_needed, reading, device>>
    <2> USE DEF local, reading, device
    <2>0. report \in Report /\ report' = report
      BY <1>2 DEF IInv, TypeOK, Report, ProbeCode
    <2>1. TypeOK'
      BY <1>2, <2>0 DEF IInv, TypeOK, TestPc, Page
    <2>2. OwnSteps' /\ RestoreArmed'
      BY <1>2, <2>0 DEF IInv, OwnSteps, RestoreArmed, InspectPc, TestPc,
           ReadPc
    <2>3. PageAccounted' /\ RestoredLate'
      BY <1>2, <2>0 DEF IInv, RestoreArmed, PageAccounted, RestoredLate,
           ReadPc
    <2>4. HeldWhileRunning'
      BY <1>2, <2>0 DEF IInv, HeldWhileRunning
    <2>5. VerdictEarned'
      BY <1>2, <2>0 DEF IInv, OwnSteps, RestoreArmed, VerdictEarned,
           Evidence, TestPc, ReadPc, EndPc
    <2> QED
      BY <2>1, <2>2, <2>3, <2>4, <2>5 DEF IInv
  <1> QED
    BY <1>0, <1>1, <1>2 DEF VerifyGeometry, Answered, device, is_1581

\* A boundary block was read.
LEMMA ReadBoundaryInv ==
  ASSUME IInv, NEW r \in CommandResult, ReadBoundary(r)
  PROVE  IInv'
  <1>0. /\ FailureCode(r) \in ProbeCode \ {"OK"} \/ r = "GOOD"
        /\ report.status = "INCONCLUSIVE" /\ page \in Page
        /\ attention' \in {FALSE, attention}
        /\ r = "GOOD" => attention' = attention
    BY FailureCodes DEF ReadBoundary, Answered, Owes, IInv, TypeOK, ProbeCode,
         VerdictEarned, OwnSteps, TestPc, EndPc
  <1>1. CASE r # "GOOD"
    BY <1>0, <1>1, FailInv DEF ReadBoundary, Answered, Rejected, Failed,
         TestPc,
         ProbeCode, device
  <1>2. CASE /\ r = "GOOD" /\ pc \in {"lba9", "lba1599"}
             /\ pc' = IF pc = "lba9" THEN "lba1599" ELSE "alloc"
             /\ report' = report
             /\ UNCHANGED <<local, restore_needed, reading, device>>
    <2> USE DEF local, reading, device
    <2>0. report \in Report /\ report' = report
      BY <1>2 DEF IInv, TypeOK, Report, ProbeCode
    <2>1. TypeOK'
      BY <1>2, <2>0 DEF IInv, TypeOK, TestPc, Page
    <2>2. OwnSteps' /\ RestoreArmed'
      BY <1>2, <2>0 DEF IInv, OwnSteps, RestoreArmed, InspectPc, TestPc,
           ReadPc
    <2>3. PageAccounted' /\ RestoredLate'
      BY <1>2, <2>0 DEF IInv, RestoreArmed, PageAccounted, RestoredLate,
           ReadPc
    <2>4. HeldWhileRunning'
      BY <1>2, <2>0 DEF IInv, HeldWhileRunning
    <2>5. VerdictEarned'
      BY <1>2, <2>0 DEF IInv, OwnSteps, RestoreArmed, VerdictEarned,
           Evidence, TestPc, ReadPc, EndPc
    <2> QED
      BY <2>1, <2>2, <2>3, <2>4, <2>5 DEF IInv
  <1> QED
    BY <1>0, <1>1, <1>2 DEF ReadBoundary, Answered, device

\* The two buffers were allocated or not.
LEMMA AllocateInv ==
  ASSUME IInv, NEW f \in BOOLEAN, NEW g \in BOOLEAN, Allocate(f, g)
  PROVE  IInv'
  <1> USE DEF Allocate, local, reading, device
  <1>0. /\ report \in Report /\ report' \in Report
        /\ report.code = "TRANSPORT" /\ report.status = "INCONCLUSIVE"
    BY DEF IInv, TypeOK, Report, ProbeCode, VerdictEarned, OwnSteps, TestPc,
         EndPc
  <1>1. /\ report'.code = "TRANSPORT" /\ report'.status = "INCONCLUSIVE"
        /\ report'.image = f
        /\ report'.original_saved = report.original_saved
        /\ report'.controller_changed = report.controller_changed
        /\ report'.controller_restored = report.controller_restored
    BY <1>0 DEF Report
  <1>2. TypeOK'
    BY <1>0 DEF IInv, TypeOK, TestPc
  <1>3. OwnSteps' /\ RestoreArmed'
    BY <1>1 DEF IInv, OwnSteps, RestoreArmed, InspectPc, TestPc, ReadPc
  <1>4. PageAccounted' /\ RestoredLate'
    BY <1>1 DEF IInv, PageAccounted, RestoredLate, ReadPc
  <1>5. HeldWhileRunning'
    BY DEF IInv, HeldWhileRunning
  <1>6. pc' \in {"read", "cleanup"} /\ (pc' = "read" => f)
    OBVIOUS
  <1>7. chunk < Chunks
    BY DEF IInv, VerdictEarned, OwnSteps, TestPc, EndPc
  <1>8. report'.controller_changed
    BY <1>1 DEF IInv, VerdictEarned, OwnSteps, TestPc, ReadPc
  <1>9. VerdictEarned'
    BY <1>1, <1>6, <1>7, <1>8 DEF VerdictEarned, EndPc, ReadPc
  <1> QED
    BY <1>2, <1>3, <1>4, <1>5, <1>9 DEF IInv

\* A piece of the image was read.
LEMMA ReadChunkInv ==
  ASSUME IInv, NEW r \in CommandResult, NEW b \in BOOLEAN, ReadChunk(r, b)
  PROVE  IInv'
  <1>0. /\ FailureCode(r) \in ProbeCode \ {"OK"} \/ r = "GOOD"
        /\ report.status = "INCONCLUSIVE" /\ page \in Page
        /\ attention' \in {FALSE, attention}
        /\ r = "GOOD" => attention' = attention
    BY FailureCodes DEF ReadChunk, Answered, Owes, IInv, TypeOK, ProbeCode,
         VerdictEarned, OwnSteps, TestPc, EndPc
  <1>1. CASE r # "GOOD"
    BY <1>0, <1>1, FailInv DEF ReadChunk, Answered, Failed, reading, TestPc,
         ProbeCode,
         device
  <1>2. CASE /\ r = "GOOD" /\ pc = "read" /\ report' = report
             /\ UNCHANGED <<local, restore_needed, device>>
             /\ differ' \in BOOLEAN
             /\ \/ /\ chunk + 1 < Chunks
                   /\ chunk' = chunk + 1 /\ UNCHANGED <<pass, pc>>
                \/ /\ pass = 1 /\ chunk' = 0
                   /\ pass' = 2 /\ pc' = "read"
                \/ /\ chunk' = Chunks
                   /\ pass' = 2 /\ pc' = "compare"
    <2> USE DEF local, reading, device
    <2>0. report \in Report /\ report' = report
      BY <1>2 DEF IInv, TypeOK, Report, ProbeCode
    <2>1. TypeOK'
      BY <1>2, <2>0, ChunksAssumption DEF IInv, TypeOK, TestPc, Page
    <2>2. OwnSteps' /\ RestoreArmed'
      BY <1>2, <2>0 DEF IInv, OwnSteps, RestoreArmed, InspectPc, TestPc,
           ReadPc
    <2>3. PageAccounted' /\ RestoredLate'
      BY <1>2, <2>0 DEF IInv, RestoreArmed, PageAccounted, RestoredLate,
           ReadPc
    <2>4. HeldWhileRunning'
      BY <1>2, <2>0 DEF IInv, HeldWhileRunning
    <2>5. VerdictEarned'
      BY <1>2, <2>0, ChunksAssumption DEF IInv, OwnSteps, RestoreArmed,
           VerdictEarned,
           Evidence, TestPc, ReadPc, EndPc
    <2> QED
      BY <2>1, <2>2, <2>3, <2>4, <2>5 DEF IInv
  <1> QED
    BY <1>0, <1>1, <1>2 DEF ReadChunk, Answered, device, IInv, TypeOK

\* The two readings were compared.
LEMMA CompareInv ==
  ASSUME IInv, Compare
  PROVE  IInv'
  <1>0. report \in Report /\ report' \in Report
    BY FailureCodes DEF IInv, TypeOK, Compare, Fail, Report, ProbeCode
  <1> USE DEF Compare, Fail, local, reading, device
  <1>1. TypeOK'
    BY <1>0, ChunksAssumption DEF IInv, TypeOK, Page, InspectPc, TestPc,
         InspectSteps
  <1>2. OwnSteps' /\ RestoreArmed'
    BY <1>0 DEF IInv, TypeOK, OwnSteps, RestoreArmed, InspectPc, TestPc,
         ReadPc, InspectSteps, Report
  <1>3. PageAccounted'
    BY <1>0, FailureCodes DEF IInv, TypeOK, OwnSteps, RestoreArmed,
         PageAccounted, RestoredLate, InspectPc, TestPc, ReadPc, InspectSteps,
         Report
  <1>4. HeldWhileRunning' /\ RestoredLate'
    <2>1. pc = "compare" /\ pc' = "cleanup" /\ held' = held
      OBVIOUS
    <2>2. report'.controller_restored = report.controller_restored
      BY <1>0 DEF Report
    <2> QED
      BY <2>1, <2>2 DEF IInv, HeldWhileRunning, RestoredLate
  <1>5. VerdictEarned'
    <2>1. /\ pc = "compare" /\ pc' = "cleanup"
          /\ UNCHANGED <<workflow, pass, chunk, differ, restore_needed>>
      OBVIOUS
    <2>2. workflow = "test" =>
            /\ report.image /\ report.controller_changed
            /\ restore_needed /\ pass = 2 /\ chunk = Chunks
      BY <2>1 DEF IInv, VerdictEarned, RestoreArmed, ReadPc
    <2>3. CASE differ
      <3>1. report'.status = "INCONCLUSIVE" /\ report'.code = "MISMATCH"
        BY <2>3, <1>0 DEF Report
      <3> QED
        BY <2>1, <3>1 DEF VerdictEarned, EndPc, ReadPc
    <2>4. CASE ~differ
      <3>1. /\ report'.status = "SUPPORTED" /\ report'.code = "OK"
            /\ report'.repeated_reads_match
            /\ report'.image = report.image
            /\ report'.controller_changed = report.controller_changed
        BY <2>4, <1>0 DEF Report
      <3> QED
        BY <2>1, <2>2, <2>4, <3>1 DEF VerdictEarned, Evidence, EndPc, ReadPc
    <2> QED
      BY <2>3, <2>4
  <1> QED
    BY <1>1, <1>2, <1>3, <1>4, <1>5 DEF IInv

\* Cleanup decides whether the page has to go back.
LEMMA CleanupInv ==
  ASSUME IInv, Cleanup
  PROVE  IInv'
  <1>0. report \in Report /\ report' \in Report
    BY FailureCodes DEF IInv, TypeOK, Cleanup, RestoreOwed, Report, ProbeCode
  <1> USE DEF Cleanup, RestoreOwed, local, reading, device
  <1>1. TypeOK'
    <2>1. /\ interrupted' \in BOOLEAN /\ pc' \in {"restore", "release"}
          /\ UNCHANGED <<workflow, held, attempted, restore_needed, reading,
                         device>>
      BY DEF IInv, TypeOK
    <2> QED
      BY <1>0, <2>1 DEF IInv, TypeOK, TestPc
  <1>2. OwnSteps' /\ RestoreArmed'
    BY <1>0 DEF IInv, TypeOK, OwnSteps, RestoreArmed, InspectPc, TestPc,
         ReadPc, InspectSteps, Report
  <1>3. PageAccounted'
    BY <1>0, FailureCodes DEF IInv, TypeOK, OwnSteps, RestoreArmed,
         PageAccounted, RestoredLate, InspectPc, TestPc, ReadPc, InspectSteps,
         Report
  <1>4. HeldWhileRunning' /\ RestoredLate'
    BY <1>0, FailureCodes DEF IInv, TypeOK, OwnSteps, HeldWhileRunning,
         RestoredLate, InspectPc, TestPc, InspectSteps, Report
  <1>5. VerdictEarned'
    BY <1>0, FailureCodes, ChunksAssumption DEF IInv, TypeOK, OwnSteps,
         RestoreArmed, VerdictEarned, Evidence, InspectPc, TestPc, ReadPc,
         EndPc, InspectSteps, Report
  <1> QED
    BY <1>1, <1>2, <1>3, <1>4, <1>5 DEF IInv

\* The restoring MODE SELECT returns.
LEMMA RestoreInv ==
  ASSUME IInv, NEW r \in CommandResult, Restore(r)
  PROVE  IInv'
  <1>0. report \in Report /\ report' \in Report
    BY FailureCodes DEF IInv, TypeOK, Restore, ModeSelect, PagesAfter, Report,
         ProbeCode
  <1> USE DEF Restore, ModeSelect, PagesAfter, Owes, local, reading, device
  <1>1. TypeOK'
    BY <1>0, ChunksAssumption DEF IInv, TypeOK, Page, InspectPc, TestPc,
         InspectSteps
  <1>2. OwnSteps' /\ RestoreArmed'
    BY <1>0 DEF IInv, TypeOK, OwnSteps, RestoreArmed, InspectPc, TestPc,
         ReadPc, InspectSteps, Report
  <1>3. PageAccounted'
    BY <1>0, FailureCodes DEF IInv, TypeOK, OwnSteps, RestoreArmed,
         PageAccounted, RestoredLate, InspectPc, TestPc, ReadPc, InspectSteps,
         Report
  <1>4. HeldWhileRunning' /\ RestoredLate'
    BY <1>0, FailureCodes DEF IInv, TypeOK, OwnSteps, HeldWhileRunning,
         RestoredLate, InspectPc, TestPc, InspectSteps, Report
  <1>5. VerdictEarned'
    BY <1>0, FailureCodes, ChunksAssumption DEF IInv, TypeOK, OwnSteps,
         RestoreArmed, VerdictEarned, Evidence, InspectPc, TestPc, ReadPc,
         EndPc, InspectSteps, Report
  <1> QED
    BY <1>1, <1>2, <1>3, <1>4, <1>5 DEF IInv

\* release_exclusive returns.
LEMMA ReleaseInv ==
  ASSUME IInv, NEW ts \in {"OK"} \cup TransportFailure, Release(ts)
  PROVE  IInv'
  <1>c. /\ report \in Report
        /\ ts \in TransportFailure => code_for_transport(ts) \in ProbeCode
    BY FailureCodes DEF IInv, TypeOK, ProbeCode
  <1>0. report \in Report /\ report' \in Report
    <2>1. CASE KeepsCode(ts)
      <3>1. report.code \in ProbeCode
        BY <1>c DEF Report
      <3>2. CASE ts = "OK"
        <4> DEFINE img == report.image /\ report.status = "SUPPORTED"
        <4>1. report' = [report EXCEPT !.code = report.code,
                            !.status = report.status,
                            !.exclusive_acquired = FALSE, !.image = img]
          BY <2>1, <3>2 DEF Release
        <4>2. img \in BOOLEAN /\ report.status \in {"SUPPORTED", "UNSUPPORTED",
                                                   "INCONCLUSIVE"}
          BY <1>c DEF Report
        <4> HIDE DEF img
        <4> QED
          BY <1>c, <3>1, <4>1, <4>2 DEF Report
      <3>3. CASE ts # "OK"
        BY <1>c, <2>1, <3>1, <3>3 DEF Release, Report
      <3> QED
        BY <3>2, <3>3
    <2>2. CASE ~KeepsCode(ts)
      <3>1. ts # "OK" /\ code_for_transport(ts) \in ProbeCode
        BY <1>c, <2>2 DEF KeepsCode
      <3> QED
        BY <1>c, <2>2, <3>1 DEF Release, Report
    <2> QED
      BY <2>1, <2>2
  <1> USE DEF Release, KeepsCode, local, reading, device
  <1>1. TypeOK'
    BY <1>0, ChunksAssumption DEF IInv, TypeOK, Page, InspectPc, TestPc,
         InspectSteps
  <1>2. OwnSteps' /\ RestoreArmed'
    BY <1>0 DEF IInv, TypeOK, OwnSteps, RestoreArmed, InspectPc, TestPc,
         ReadPc, InspectSteps, Report
  <1>3. PageAccounted'
    BY <1>0, FailureCodes DEF IInv, TypeOK, OwnSteps, RestoreArmed,
         PageAccounted, RestoredLate, InspectPc, TestPc, ReadPc, InspectSteps,
         Report
  <1>4. HeldWhileRunning' /\ RestoredLate'
    BY <1>0, FailureCodes DEF IInv, TypeOK, OwnSteps, HeldWhileRunning,
         RestoredLate, InspectPc, TestPc, InspectSteps, Report
  <1>5. VerdictEarned'
    <2>1. /\ pc = "release" /\ pc' = "done"
          /\ UNCHANGED <<workflow, pass, chunk, page, original, attempted>>
      OBVIOUS
    <2>2. workflow = "test" =>
            /\ report.status = "SUPPORTED" <=> report.code = "OK"
            /\ report.status = "SUPPORTED" => Evidence
            /\ report.status = "SUPPORTED" => report.controller_restored
      BY <2>1 DEF IInv, VerdictEarned, EndPc
    <2>3. CASE ts = "OK"
      <3>1. report' = [report EXCEPT !.exclusive_acquired = FALSE,
                         !.image = report.image /\ report.status = "SUPPORTED"]
        BY <2>3, <1>0 DEF Report
      <3> QED
        BY <1>0, <2>1, <2>2, <3>1
           DEF VerdictEarned, Evidence, EndPc, ReadPc, Report
    <2>4. CASE ts # "OK"
      <3>1. report'.status = "INCONCLUSIVE" /\ report'.image = FALSE
        BY <2>4, <1>0 DEF Report
      <3>2. workflow = "test" => report'.code # "OK"
        BY <2>2, <2>4, <1>0, FailureCodes DEF Report
      <3> QED
        BY <1>0, <2>1, <3>1, <3>2 DEF VerdictEarned, EndPc, ReadPc
    <2> QED
      BY <2>3, <2>4
  <1> QED
    BY <1>1, <1>2, <1>3, <1>4, <1>5 DEF IInv
-----------------------------------------------------------------------------
(* The theorems. *)

\* Both workflows start in the invariant.
LEMMA InitInv == Init => IInv
  <1> SUFFICES ASSUME Init PROVE IInv
    OBVIOUS
  <1>r. ZeroReport \in Report
    BY DEF ZeroReport, Report, ProbeCode
  <1>p. pass \in 1..2 /\ chunk \in 0..Chunks
    BY ChunksAssumption DEF Init
  <1>1. TypeOK
    BY <1>r, <1>p DEF Init, TypeOK, Page
  <1>2. OwnSteps /\ RestoreArmed /\ HeldWhileRunning
    BY DEF Init, OwnSteps, RestoreArmed, HeldWhileRunning, InspectPc, TestPc,
         ReadPc
  <1>3. PageAccounted /\ RestoredLate
    BY DEF Init, PageAccounted, RestoredLate, ReadPc, ZeroReport
  <1>4. VerdictEarned
    BY ChunksAssumption DEF Init, VerdictEarned, Evidence, EndPc, ReadPc,
         ZeroReport
  <1> QED
    BY <1>1, <1>2, <1>3, <1>4 DEF IInv

\* Every step keeps it, a signal or a reset of the drive at any moment
\* included.
LEMMA NextInv == IInv /\ [Next]_vars => IInv'
  <1> SUFFICES ASSUME IInv, [Next]_vars PROVE IInv'
    OBVIOUS
  <1>1. CASE UNCHANGED vars
    BY <1>1 DEF vars, reading, device, IInv, TypeOK, OwnSteps, RestoreArmed,
         PageAccounted, RestoredLate, HeldWhileRunning, VerdictEarned,
         Evidence
  <1>2. CASE Signal \/ DriveResets
    BY <1>2, SignalInv, DriveResetsInv
  <1>3. CASE Step
    <2>1. Results \subseteq CommandResult
      BY DEF Results, CommandResult, TransportFailure
    <2> QED
      BY <1>3, <2>1, StartInv, AcquireInv, InspectInv, SaveOriginalInv,
         ReadMaskInv, SelectGeometryInv, VerifyGeometryInv, ReadBoundaryInv,
         AllocateInv, ReadChunkInv, CompareInv, CleanupInv, RestoreInv,
         ReleaseInv DEF Step
  <1> QED
    BY <1>1, <1>2, <1>3 DEF Next

\* The inductive invariant of both workflows.
THEOREM ProbeInvariant == Spec => []IInv
  BY InitInv, NextInv, PTL DEF Spec

\* The workflow's state keeps its types.
THEOREM ProbeTypes == Spec => []TypeOK
  <1>1. IInv => TypeOK
    BY DEF IInv
  <1> QED
    BY <1>1, ProbeInvariant, PTL

\* A controller that is left changed is reported as an inconclusive failure,
\* never as restored.
THEOREM ResidueIsReported == Spec => []ResidueReported
  <1>1. IInv => ResidueReported
    BY DEF IInv, PageAccounted, ResidueReported
  <1> QED
    BY <1>1, ProbeInvariant, PTL

\* The report's claim of restoration is true of the drive.
THEOREM RestoredTruthful == Spec => []RestoredIsTrue
  <1>1. IInv => RestoredIsTrue
    BY DEF IInv, PageAccounted, RestoredIsTrue
  <1> QED
    BY <1>1, ProbeInvariant, PTL

\* SUPPORTED stands only with all of its evidence, for images of any number
\* of reads.
THEOREM SupportedEarned == Spec => []SupportedIsEarned
  <1>1. IInv => SupportedIsEarned
    BY DEF IInv, VerdictEarned, Evidence, EndPc, HeldWhileRunning,
         SupportedIsEarned
  <1> QED
    BY <1>1, ProbeInvariant, PTL

\* Code OK of either workflow means that the interface was released.
THEOREM OkReleased == Spec => []OkMeansReleased
  <1>1. IInv => OkMeansReleased
    BY DEF IInv, HeldWhileRunning, OkMeansReleased
  <1> QED
    BY <1>1, ProbeInvariant, PTL

\* Each block of an image is read in the geometry that was verified, whenever
\* the drive drops it: a command that completes finds nothing owed, and then
\* the page is the one PageAccounted gives.
THEOREM ReadsInGeometry == Spec => ReadsUnderGeometry
  <1>1. IInv /\ [Next]_vars => [BlockCounts => page = "g1581"]_vars
    <2> SUFFICES ASSUME IInv, Next, BlockCounts PROVE page = "g1581"
      OBVIOUS
    <2>1. page = "g1581" \/ attention
      BY DEF IInv, PageAccounted, BlockCounts, ReadPc
    <2>2. PICK r \in Results, b \in BOOLEAN :
            ReadBoundary(r) \/ ReadChunk(r, b)
      BY DEF BlockCounts, Next, Step, Signal, DriveResets, Start, Acquire,
         Inspect, SaveOriginal, ReadMask, SelectGeometry, VerifyGeometry,
         Allocate, Compare, Cleanup, Restore, Release, InspectPc, reading
    <2>3. r = "GOOD"
      BY <2>2 DEF ReadBoundary, ReadChunk, Rejected, Failed, Fail, BlockCounts
    <2>4. ~attention
      BY <2>3 DEF Results, Completes, BlockCounts
    <2> QED
      BY <2>1, <2>4
  <1>2. Spec => [][Next]_vars
    BY PTL DEF Spec
  <1> QED
    BY <1>1, <1>2, ProbeInvariant, PTL DEF ReadsUnderGeometry
-----------------------------------------------------------------------------
(* run_selected *)

RunTypeOK ==
  /\ mpc \in {"create", "probe", "open", "write", "close", "failed", "report",
              "exited", "killed"}
  /\ workflow \in {"inspect", "test"} /\ report \in Report
  /\ wants_output \in BOOLEAN /\ forbidden \in BOOLEAN
  /\ file \in {"absent", "foreign", "partial", "whole"}
  /\ written \in 0..Blocks

\* The verdict that a file may be written for: two equal readings, and the
\* controller as it was found.
Vouched == page = original /\ report.repeated_reads_match

\* What exit code 0 stands for.
Promises ==
  /\ page = original
  /\ workflow = "test" => report.status = "SUPPORTED"
  /\ wants_output => file = "whole"

\* Until the transport is destroyed the workflow's own invariant holds; it has
\* not begun while the transport is being created.
ProbeIntact ==
  /\ mpc \in {"create", "probe"} => IInv
  /\ mpc = "create" => pc = "start"

\* Where run_selected stands, the file is; only a vouched-for verdict gets one.
FileMatches ==
  /\ workflow = "inspect" => ~wants_output
  /\ mpc \in {"create", "probe", "open", "failed"} =>
       file \in {"absent", "foreign"}
  /\ mpc \in {"create", "probe", "open"} => written = 0
  /\ mpc = "write" => file = "partial" /\ written < Blocks
  /\ mpc = "close" => file = "whole"
  /\ mpc \in {"report", "exited"} => file # "partial"
  /\ mpc \in {"open", "write", "close"} =>
       /\ Vouched /\ wants_output
       /\ workflow = "test" /\ report.status = "SUPPORTED"
  /\ file \in {"partial", "whole"} => Vouched

\* The code that becomes the exit code, and the exit code.
CodeMatches ==
  /\ mpc = "report" /\ report.code = "OK" => Promises
  /\ mpc = "exited" /\ exit = 0 => Promises
  /\ mpc # "exited" => exit = -1

RunInv == RunTypeOK /\ ProbeIntact /\ FileMatches /\ CodeMatches

\* Only OK is reported as exit code 0.
LEMMA ExitZero ==
  ASSUME NEW c \in ProbeCode, exit_code(c) = 0
  PROVE  c = "OK"
  BY DEF exit_code, ProbeCode

\* run_selected is entered.
LEMMA RunInitInv == RunInit => RunInv
  <1> SUFFICES ASSUME RunInit PROVE RunInv
    OBVIOUS
  <1>1. IInv
    BY InitInv DEF RunInit
  <1>2. RunTypeOK
    BY <1>1, BlocksAssumption DEF RunInit, RunTypeOK, IInv, TypeOK
  <1>3. ProbeIntact
    BY <1>1 DEF RunInit, Init, ProbeIntact
  <1>4. FileMatches /\ CodeMatches
    BY DEF RunInit, FileMatches, CodeMatches
  <1> QED
    BY <1>2, <1>3, <1>4 DEF RunInv

\* The transport is created, or the run ends with the transport's failure.
LEMMA CreateTransportInv ==
  ASSUME RunInv, NEW ts \in {"OK"} \cup TransportFailure, CreateTransport(ts)
  PROVE  RunInv'
  <1> USE DEF RunInv
  <1>1. CASE ts = "OK"
    <2>1. mpc = "create" /\ mpc' = "probe" /\ UNCHANGED <<vars, output>>
      BY <1>1 DEF CreateTransport
    <2>2. IInv
      BY <2>1 DEF ProbeIntact
    <2>3. IInv'
      BY <2>1, <2>2, NextInv
    <2>4. RunTypeOK'
      BY <2>1 DEF RunTypeOK, vars, output
    <2>5. FileMatches' /\ CodeMatches'
      BY <2>1 DEF FileMatches, CodeMatches, Vouched, vars, device, output
    <2> QED
      BY <2>1, <2>3, <2>4, <2>5 DEF ProbeIntact
  <1>2. CASE ts # "OK"
    <2>1. /\ mpc = "create" /\ mpc' = "report"
          /\ report' = [report EXCEPT !.code = code_for_transport(ts)]
          /\ UNCHANGED <<workflow, device, output>>
      BY <1>2 DEF CreateTransport
    <2>2. code_for_transport(ts) \in {"TRANSPORT", "PERMISSION", "NO_DEVICE"}
      BY <1>2, FailureCodes
    <2>3. report' \in Report /\ report'.code # "OK"
      BY <2>1, <2>2 DEF RunTypeOK, Report, ProbeCode
    <2>4. RunTypeOK'
      BY <2>1, <2>3 DEF RunTypeOK, output
    <2>5. FileMatches'
      BY <2>1 DEF FileMatches, output
    <2>6. ProbeIntact' /\ CodeMatches'
      BY <2>1, <2>3 DEF ProbeIntact, CodeMatches, output
    <2> QED
      BY <2>4, <2>5, <2>6
  <1> QED
    BY <1>1, <1>2

\* The workflow runs, with its signals and the resets of the drive, as it does
\* alone.
LEMMA WorkflowInv ==
  ASSUME RunInv, Workflow \/ Signalled \/ Reset
  PROVE  RunInv'
  <1> USE DEF RunInv
  <1>1. mpc = "probe" /\ Next /\ UNCHANGED <<mpc, output>>
    BY DEF Workflow, Signalled, Reset, Next
  <1>2. IInv /\ IInv'
    BY <1>1, NextInv DEF ProbeIntact
  <1>3. workflow' = workflow
    BY <1>1 DEF Next, Step, Signal, DriveResets, Start, Acquire, Inspect,
         SaveOriginal,
         ReadMask, SelectGeometry, VerifyGeometry, ReadBoundary, Allocate,
         ReadChunk, Compare, Cleanup, Restore, Release, local
  <1>4. RunTypeOK'
    BY <1>1, <1>2 DEF RunTypeOK, IInv, TypeOK, output
  <1>5. ProbeIntact' /\ FileMatches' /\ CodeMatches'
    BY <1>1, <1>2, <1>3 DEF ProbeIntact, FileMatches, CodeMatches, output
  <1> QED
    BY <1>4, <1>5

\* The workflow is over: an OK is what it promises, and a file is opened for a
\* vouched-for image only.
LEMMA DestroyTransportInv ==
  ASSUME RunInv, DestroyTransport
  PROVE  RunInv'
  <1> USE DEF RunInv
  <1>1. /\ mpc = "probe" /\ pc = "done"
        /\ mpc' = IF workflow = "test" /\ report.code = "OK" /\ wants_output
                  THEN "open" ELSE "report"
        /\ UNCHANGED <<workflow, report, device, output>>
    BY DEF DestroyTransport
  <1>2. IInv
    BY <1>1 DEF ProbeIntact
  <1>3. report.code = "OK" /\ workflow = "test" =>
          report.status = "SUPPORTED" /\ report.repeated_reads_match
          /\ page = original
    BY <1>1, <1>2 DEF IInv, VerdictEarned, Evidence, PageAccounted, EndPc
  <1>4. workflow = "inspect" => page = original
    BY <1>2 DEF IInv, RestoreArmed, PageAccounted
  <1>5. RunTypeOK'
    BY <1>1 DEF RunTypeOK, output
  <1>6. FileMatches'
    BY <1>1, <1>3 DEF FileMatches, Vouched, RunTypeOK, device, output
  <1>7. ProbeIntact' /\ CodeMatches'
    BY <1>1, <1>3, <1>4 DEF ProbeIntact, CodeMatches, Promises, RunTypeOK,
         FileMatches, device, output
  <1> QED
    BY <1>5, <1>6, <1>7

\* Opening, writing and closing the file, with every failure.
LEMMA OutputInv ==
  ASSUME RunInv, NEW ok \in BOOLEAN,
         OpenOutput(ok) \/ WriteOutput(ok) \/ CloseOutput(ok)
  PROVE  RunInv'
  <1> USE DEF RunInv
  <1>1. /\ mpc \in {"open", "write", "close"}
        /\ UNCHANGED <<vars, wants_output, forbidden, exit>>
    BY DEF OpenOutput, WriteOutput, CloseOutput
  <1>2. /\ written' \in 0..Blocks
        /\ \/ mpc' = "failed" /\ file' \in {"absent", "foreign"}
           \/ mpc' = "write" /\ file' = "partial" /\ written' < Blocks
           \/ mpc' \in {"close", "report"} /\ file' = "whole"
    <2>1. CASE OpenOutput(ok)
      BY <2>1, BlocksAssumption
         DEF OpenOutput, PathIsNew, FileMatches, RunTypeOK
    <2>2. CASE WriteOutput(ok)
      BY <2>2, BlocksAssumption
         DEF WriteOutput, RemoveOutput, FileMatches, RunTypeOK
    <2>3. CASE CloseOutput(ok)
      BY <2>3 DEF CloseOutput, RemoveOutput, FileMatches, RunTypeOK
    <2> QED
      BY <2>1, <2>2, <2>3
  <1>3. RunTypeOK'
    BY <1>1, <1>2 DEF RunTypeOK, vars
  <1>4. Vouched' /\ wants_output' /\ workflow' = "test"
        /\ report'.status = "SUPPORTED"
    BY <1>1 DEF FileMatches, Vouched, vars, device
  <1>5. FileMatches'
    BY <1>2, <1>4 DEF FileMatches
  <1>6. ProbeIntact' /\ CodeMatches'
    BY <1>1, <1>2, <1>4 DEF ProbeIntact, CodeMatches, Promises, Vouched
  <1> QED
    BY <1>3, <1>5, <1>6

\* The verdict is withdrawn with the code.
LEMMA OutputFailedInv ==
  ASSUME RunInv, OutputFailed
  PROVE  RunInv'
  <1> USE DEF RunInv
  <1>1. /\ mpc = "failed" /\ mpc' = "report"
        /\ report' = [report EXCEPT !.code = "TRANSPORT",
                                   !.status = "INCONCLUSIVE"]
        /\ UNCHANGED <<workflow, device, output>>
    BY DEF OutputFailed
  <1>2. report' \in Report /\ report'.code # "OK"
    BY <1>1 DEF RunTypeOK, Report, ProbeCode
  <1>3. RunTypeOK'
    BY <1>1, <1>2 DEF RunTypeOK, output
  <1>4. FileMatches'
    BY <1>1 DEF FileMatches, output
  <1>5. ProbeIntact' /\ CodeMatches'
    BY <1>1, <1>2 DEF ProbeIntact, CodeMatches, output
  <1> QED
    BY <1>3, <1>4, <1>5

\* The exit code is the report's.
LEMMA ExitInv ==
  ASSUME RunInv, Exit
  PROVE  RunInv'
  <1> USE DEF RunInv
  <1>1. /\ mpc = "report" /\ mpc' = "exited"
        /\ exit' = exit_code(report.code)
        /\ UNCHANGED <<vars, wants_output, forbidden, file, written>>
    BY DEF Exit
  <1>2. exit' = 0 => report.code = "OK"
    BY <1>1, ExitZero DEF RunTypeOK, Report
  <1>3. RunTypeOK'
    BY <1>1 DEF RunTypeOK, vars
  <1>4. FileMatches'
    BY <1>1 DEF FileMatches, Vouched, vars, device
  <1>5. ProbeIntact' /\ CodeMatches'
    BY <1>1, <1>2 DEF ProbeIntact, CodeMatches, Promises, vars, device
  <1> QED
    BY <1>3, <1>4, <1>5

\* A kill leaves the file as it stands.
LEMMA KilledInv ==
  ASSUME RunInv, Killed
  PROVE  RunInv'
  <1> USE DEF RunInv
  <1>1. /\ mpc # "exited" /\ mpc' = "killed"
        /\ UNCHANGED <<workflow, report, device, output>>
    BY DEF Killed
  <1>2. RunTypeOK'
    BY <1>1 DEF RunTypeOK, output
  <1>3. FileMatches'
    BY <1>1 DEF FileMatches, Vouched, device, output
  <1>4. ProbeIntact' /\ CodeMatches'
    BY <1>1 DEF ProbeIntact, CodeMatches, output
  <1> QED
    BY <1>2, <1>3, <1>4

\* Another process takes the path.
LEMMA OtherCreatesInv ==
  ASSUME RunInv, OtherCreates
  PROVE  RunInv'
  <1> USE DEF RunInv
  <1>1. /\ mpc \in {"create", "probe", "open"} /\ file' = "foreign"
        /\ UNCHANGED <<vars, mpc, wants_output, forbidden, written, exit>>
    BY DEF OtherCreates
  <1>2. RunTypeOK'
    BY <1>1 DEF RunTypeOK, vars
  <1>3. FileMatches'
    BY <1>1 DEF FileMatches, Vouched, vars, device
  <1>4. IInv => IInv'
    BY <1>1, NextInv
  <1>5. ProbeIntact'
    BY <1>1, <1>4 DEF ProbeIntact, vars, local
  <1>6. CodeMatches'
    BY <1>1 DEF CodeMatches
  <1> QED
    BY <1>2, <1>3, <1>5, <1>6

\* A step of run_selected keeps its invariant.
LEMMA RunNextInv == RunInv /\ [RunNext]_runVars => RunInv'
  <1> SUFFICES ASSUME RunInv, [RunNext]_runVars PROVE RunInv'
    OBVIOUS
  <1>1. CASE Run
    BY <1>1, CreateTransportInv, WorkflowInv, DestroyTransportInv, OutputInv,
       OutputFailedInv, ExitInv DEF Run
  <1>2. CASE Signalled \/ Reset \/ Killed \/ OtherCreates
    BY <1>2, WorkflowInv, KilledInv, OtherCreatesInv
  <1>3. CASE UNCHANGED runVars
    <2>1. UNCHANGED <<vars, mpc, wants_output, forbidden, file, written, exit>>
      BY <1>3 DEF runVars, output
    <2>2. IInv => IInv'
      BY <2>1, NextInv
    <2>3. RunTypeOK' /\ ProbeIntact'
      BY <2>1, <2>2 DEF RunInv, RunTypeOK, ProbeIntact, vars, local
    <2>4. FileMatches' /\ CodeMatches'
      BY <2>1 DEF RunInv, FileMatches, CodeMatches, Promises, Vouched, vars,
           device
    <2> QED
      BY <2>3, <2>4 DEF RunInv
  <1> QED
    BY <1>1, <1>2, <1>3 DEF RunNext

\* The inductive invariant of run_selected around the workflow.
THEOREM RunInvariant == RunSpec => []RunInv
  <1>1. RunSpec => RunInit /\ [][RunNext]_runVars
    BY PTL DEF RunSpec
  <1> QED
    BY <1>1, RunInitInv, RunNextInv, PTL

\* Exit code 0 keeps every promise of main's run_selected at once, whatever
\* signal, failing write or rival creation of the file came between.
THEOREM ExitZeroKept == RunSpec => []ExitZeroKeepsPromises
  <1>1. RunInv => ExitZeroKeepsPromises
    BY DEF RunInv, FileMatches, CodeMatches, Promises, Vouched,
         ExitZeroKeepsPromises
  <1> QED
    BY <1>1, RunInvariant, PTL

\* A run that ends by itself leaves no truncated image of write_new_image.
THEOREM ImageWholeOrGone == RunSpec => []NoTruncatedImage
  <1>1. RunInv => NoTruncatedImage
    BY DEF RunInv, FileMatches, NoTruncatedImage
  <1> QED
    BY <1>1, RunInvariant, PTL

\* write_new_image neither overwrites nor removes a file it did not create.
THEOREM ForeignFileKept == RunSpec => ForeignFileUntouched
  <1>1. RunInv /\ [RunNext]_runVars =>
          [file = "foreign" => file' = "foreign"]_runVars
    <2> SUFFICES ASSUME RunInv, RunNext, file = "foreign"
                 PROVE  file' = "foreign"
      BY DEF runVars, output
    <2>1. mpc \notin {"write", "close"}
      BY DEF RunInv, FileMatches
    <2> QED
      BY <2>1 DEF RunNext, Run, CreateTransport, Workflow, Signalled, Reset,
           DestroyTransport, OpenOutput, PathIsNew, WriteOutput, CloseOutput,
           OutputFailed, Exit, Killed, OtherCreates, output
  <1>2. RunSpec => [][RunNext]_runVars
    BY PTL DEF RunSpec
  <1> QED
    BY <1>1, <1>2, RunInvariant, PTL DEF ForeignFileUntouched
=============================================================================
