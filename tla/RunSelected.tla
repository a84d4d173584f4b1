----------------------------- MODULE RunSelected -----------------------------
(***************************************************************************)
(* run_selected of src/main.c around the workflows of Probe: creating the  *)
(* transport, installing and removing the signal handlers, destroying the  *)
(* transport, writing the image to a new file, and the exit code.  A       *)
(* SIGINT or SIGTERM kills the process wherever the handlers are not       *)
(* installed.                                                              *)
(***************************************************************************)
EXTENDS Probe, Integers

CONSTANT Blocks          \* write(2) calls that a whole image takes, at most

ASSUME BlocksAssumption == Blocks \in Nat \ {0}

VARIABLES
  mpc,                   \* where run_selected is
  wants_output,          \* options->output != NULL
  forbidden,             \* forbidden_output_path(options->output)
  file,                  \* what the output path names: absent, foreign,
                         \* or this run's image, partial or whole
  written,               \* write_new_image's progress
  exit                   \* the process's exit code, -1 while it runs

output == <<wants_output, forbidden, file, written, exit>>
runVars == <<vars, mpc, output>>

RunInit ==
  /\ Init
  /\ mpc = "create"
  /\ wants_output \in BOOLEAN /\ forbidden \in BOOLEAN
  /\ workflow = "inspect" => ~wants_output      \* the CLI refuses it
  /\ file \in {"absent", "foreign"}
  /\ written = 0
  /\ exit = -1

exit_code(code) ==
  CASE code = "OK" -> 0
    [] code = "NO_DEVICE" -> 2
    [] code = "PERMISSION" -> 3
    [] code = "UNSUPPORTED" -> 5
    [] code = "MISMATCH" -> 6
    [] code = "USAGE" -> 64
    [] OTHER -> 4

\* m65_usb_cbi_transport_create; without a transport no workflow runs.
CreateTransport(ts) ==
  /\ mpc = "create"
  /\ IF ts = "OK"
     THEN mpc' = "probe" /\ UNCHANGED vars
     ELSE /\ mpc' = "report"
          /\ report' = [report EXCEPT !.code = code_for_transport(ts)]
          /\ UNCHANGED <<workflow, pc, interrupted, restore_needed, reading,
                         device, held, attempted>>
  /\ UNCHANGED output

\* The workflow, and the signals it sees while the handlers are installed.
Workflow == mpc = "probe" /\ Step /\ UNCHANGED <<mpc, output>>

Signalled == mpc = "probe" /\ Signal /\ UNCHANGED <<mpc, output>>

Reset == mpc = "probe" /\ DriveResets /\ UNCHANGED <<mpc, output>>

\* transport->ops->destroy, a last release; then SIG_DFL again and, for an OK
\* test with an output path, write_new_image.
DestroyTransport ==
  /\ mpc = "probe" /\ pc = "done"
  /\ held' = FALSE
  /\ mpc' = IF workflow = "test" /\ report.code = "OK" /\ wants_output
            THEN "open" ELSE "report"
  /\ UNCHANGED <<workflow, pc, interrupted, report, restore_needed, reading,
                 device, attempted, output>>

\* Mutant: open(2) without O_EXCL.
MutTruncate == TRUE

\* O_CREAT | O_EXCL: open(2) succeeds only where nothing exists.
PathIsNew == file = "absent"

\* open(2) with O_EXCL: ok is FALSE for any other reason it may fail.
OpenOutput(ok) ==
  /\ mpc = "open"
  /\ IF ~forbidden /\ PathIsNew /\ ok
     THEN mpc' = "write" /\ file' = "partial"
     ELSE mpc' = "failed" /\ UNCHANGED file
  /\ UNCHANGED <<vars, wants_output, forbidden, written, exit>>

\* Mutant: the file is closed but stays.
MutKeepsFile == UNCHANGED file

\* unlink(2) of the file that the process has just created succeeds.
RemoveOutput == file' = "absent"

\* One turn of the write loop; on an error the file is closed and unlinked.
WriteOutput(ok) ==
  /\ mpc = "write"
  /\ \/ /\ ~ok
        /\ mpc' = "failed" /\ RemoveOutput
        /\ UNCHANGED written
     \/ /\ ok
        /\ \E n \in written + 1 .. Blocks :
             /\ written' = n
             /\ file' = IF n = Blocks THEN "whole" ELSE "partial"
             /\ mpc' = IF n = Blocks THEN "close" ELSE "write"
  /\ UNCHANGED <<vars, wants_output, forbidden, exit>>

CloseOutput(ok) ==
  /\ mpc = "close"
  /\ mpc' = IF ok THEN "report" ELSE "failed"
  /\ IF ok THEN UNCHANGED file ELSE RemoveOutput
  /\ UNCHANGED <<vars, wants_output, forbidden, written, exit>>

\* Mutant: only the printed verdict is withdrawn.
MutCodeStays ==
  /\ mpc = "failed"
  /\ report' = [report EXCEPT !.status = "INCONCLUSIVE"]
  /\ mpc' = "report"
  /\ UNCHANGED <<workflow, pc, interrupted, restore_needed, reading, device,
                 held, attempted, output>>

\* write_new_image returned false: the verdict is withdrawn.
OutputFailed ==
  /\ mpc = "failed"
  /\ report' = [report EXCEPT !.code = "TRANSPORT", !.status = "INCONCLUSIVE"]
  /\ mpc' = "report"
  /\ UNCHANGED <<workflow, pc, interrupted, restore_needed, reading, device,
                 held, attempted, output>>

\* The report is printed, freed, and its code becomes the exit code.
Exit ==
  /\ mpc = "report"
  /\ mpc' = "exited"
  /\ exit' = exit_code(report.code)
  /\ UNCHANGED <<vars, wants_output, forbidden, file, written>>

\* SIGINT or SIGTERM with the default disposition; the kernel closes the
\* interface.
Killed ==
  /\ \/ mpc \in {"create", "open", "write", "close", "failed", "report"}
     \/ mpc = "probe" /\ workflow = "inspect"
  /\ mpc' = "killed"
  /\ held' = FALSE
  /\ UNCHANGED <<workflow, pc, interrupted, report, restore_needed, reading,
                 device, attempted, output>>

\* Another process creates the path before this one does.
OtherCreates ==
  /\ file = "absent" /\ mpc \in {"create", "probe", "open"}
  /\ file' = "foreign"
  /\ UNCHANGED <<vars, mpc, wants_output, forbidden, written, exit>>

Run ==
  \/ \E ts \in {"OK"} \cup TransportFailure : CreateTransport(ts)
  \/ Workflow
  \/ DestroyTransport
  \/ \E ok \in BOOLEAN : OpenOutput(ok) \/ WriteOutput(ok) \/ CloseOutput(ok)
  \/ OutputFailed
  \/ Exit

RunNext == Run \/ Signalled \/ Reset \/ Killed \/ OtherCreates

RunSpec == RunInit /\ [][RunNext]_runVars /\ WF_runVars(Run)
-----------------------------------------------------------------------------
(* Properties *)

\* Exit code 0 of test-1581 keeps every promise at once: the controller has
\* its original page, the verdict stands and the requested file is whole;
\* and no other exit, not even a kill while writing, follows a whole file
\* that was read from a controller left changed.
ExitZeroKeepsPromises ==
  /\ exit = 0 =>
       /\ page = original
       /\ workflow = "test" => report.status = "SUPPORTED"
       /\ wants_output => file = "whole"
  /\ file \in {"partial", "whole"} =>
       page = original /\ report.repeated_reads_match

\* A file this run did not create is neither overwritten nor removed, whoever
\* creates it and whenever the write fails (README.md: "An output file is
\* created with exclusive creation and is never overwritten").
ForeignFileUntouched == [][file = "foreign" => file' = "foreign"]_runVars

\* A run that ends by itself leaves no truncated image behind.
NoTruncatedImage == mpc = "exited" => file # "partial"

\* Unless it is killed the program exits: no signal, failing write or failing
\* workflow keeps run_selected from returning.
ProgramExits == <>(mpc \in {"exited", "killed"})
=============================================================================
