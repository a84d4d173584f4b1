------------------------------ MODULE CbiStack ------------------------------
(***************************************************************************)
(* The transport the program runs: the CBI engine over the macOS adapter   *)
(* over a UFI drive.  Every engine step that consumes an adapter status is *)
(* conjoined with the adapter operation that produces it; the waits of the *)
(* adapter, the interrupt callback and the unplugging of the drive happen  *)
(* in between.                                                             *)
(*                                                                         *)
(* The drive is external.  Of it the model keeps which completion          *)
(* interrupts it still owes: that of the last accepted command block       *)
(* (mine) and any left over from earlier ones (stale).                     *)
(***************************************************************************)
EXTENDS CbiEngine, MacCbi

CONSTANT
  PipeReturns    \* answers of ClearPipeStallBothEnds and of submitting
                 \* ReadPipeAsync while the drive is attached

\* The drive answers CLEAR_FEATURE(ENDPOINT_HALT) and the submission of a read
\* without a stall, and access was decided when the interface was seized.
ASSUME PipeReturnsAssumption ==
  PipeReturns \subseteq
    IOReturn \ {"PipeStalled", "NotPermitted", "ExclusiveAccess"}

VARIABLES
  attached,      \* the drive has not been unplugged
  mine,          \* a completion of the last command block is outstanding
  stale,         \* one of an earlier command block is outstanding
  delivered      \* whose completion the last callback carried

device == <<attached, mine, stale, delivered>>
stackVars == <<vars, mac, device>>

StackInit ==
  /\ Init /\ MacInit
  /\ attached = TRUE /\ mine = FALSE /\ stale = FALSE /\ delivered = "none"
-----------------------------------------------------------------------------
(* The drive and the USB stack, as the adapter's calls see them. *)

\* Access is decided when the interface is seized; a drive that is gone
\* answers every call with kIOReturnNoDevice.
UsbAnswers(r, answers) ==
  IF attached \/ ~open THEN r \in answers \ {"NoDevice"} ELSE r = "NoDevice"

PhaseReturns == IOReturn \ {"NotPermitted", "ExclusiveAccess"}

\* A command block arrives.  The reset block discards whatever the drive
\* still owed.
BlockAccepted(reset) ==
  /\ mine' = TRUE
  /\ stale' = (~reset /\ (stale \/ mine))
  /\ UNCHANGED <<attached, delivered>>

\* A command block is stalled or never arrives.
BlockLost ==
  /\ mine' = FALSE
  /\ stale' = (stale \/ mine)
  /\ UNCHANGED <<attached, delivered>>

\* After a timeout or another error the drive may have the block or not.
DriveSeesAdsc(reset, r, full) ==
  \/ r = "Success" /\ full /\ BlockAccepted(reset)
  \/ r = "PipeStalled" /\ BlockLost
  \/ (r # "PipeStalled" /\ ~(r = "Success" /\ full))
     /\ (BlockAccepted(reset) \/ BlockLost)

\* The interrupt endpoint delivers the oldest completion it owes.
DriveCompletes ==
  /\ mine \/ stale
  /\ delivered' = IF stale THEN "stale" ELSE "own"
  /\ stale' = FALSE
  /\ mine' = (mine /\ stale)
  /\ UNCHANGED attached

Unplug ==
  /\ attached /\ pc # "destroyed"
  /\ attached' = FALSE
  /\ UNCHANGED <<mine, stale, delivered, vars, mac>>
-----------------------------------------------------------------------------
(* Joint steps: the adapter operation and the engine code after it. *)

Open ==
  /\ pc = "open_seize"
  /\ \E r, e \in IOReturn, root \in BOOLEAN, s \in IoStatus :
       /\ UsbAnswers(r, IOReturn)
       /\ MacOpenSeize(r, root, e, s)
       /\ OpenReturns(s)
  /\ UNCHANGED device

Adsc ==
  /\ pc = "adsc"
  /\ \E r \in PhaseReturns, full \in BOOLEAN, s \in IoStatus :
       /\ UsbAnswers(r, PhaseReturns)
       /\ MacAdsc(job = "reset", r, full, s)
       /\ IF ready_for_adsc(job = "reset")
          THEN DriveSeesAdsc(job = "reset", r, full) ELSE UNCHANGED device
       /\ AdscReturns(s)

\* IOUSBLib reports no byte count above the buffer's length; the adapter
\* reports none at all for a failed transfer.
Bulk ==
  /\ pc = "data"
  /\ \E r \in PhaseReturns, n \in Size \ {"over"}, s \in IoStatus :
       /\ UsbAnswers(r, PhaseReturns)
       /\ r # "Success" => n = "zero"
       /\ r = "Success" /\ direction = "OUT" => n = "exact"
       /\ MacBulk(r, s)
       /\ \E d \in SenseData : BulkReturns(s, n, d)
  /\ UNCHANGED device

ClearStall ==
  /\ pc \in {"clear_stall", "clear_in", "clear_out"}
  /\ \E r \in IOReturn, s \in IoStatus :
       /\ UsbAnswers(r, PipeReturns)
       /\ MacClearStall(r, s)
       /\ \/ ClearStallReturns(s)
          \/ ClearInReturns(s)
          \/ ClearOutReturns(s)
  /\ UNCHANGED device

Finish ==
  /\ pc = "finish"
  /\ \E s \in IoStatus : MacFinish(recovered, s) /\ FinishReturns(s)
  /\ UNCHANGED device

InterruptRefused ==
  /\ pc = "interrupt" /\ at = "rest"
  /\ \E r \in IOReturn, s \in IoStatus :
       /\ UsbAnswers(r, PipeReturns)
       /\ MacInterruptRefused(r, s)
       /\ InterruptReturns(s, FALSE, 0)
  /\ UNCHANGED device

InterruptSubmit ==
  /\ pc = "interrupt"
  /\ attached
  /\ MacInterruptSubmit
  /\ UNCHANGED <<vars, device>>

\* The kernel completes the request: with a completion of the drive, or with
\* an error (kIOReturnAborted among them).
Callback ==
  /\ kernel /\ at \in {"wait", "drain"}
  /\ \E o \in Outcome :
       /\ InterruptCallback(o)
       /\ IF o.result = "Success"
          THEN attached /\ DriveCompletes
          ELSE UsbAnswers(o.result, PhaseReturns) /\ UNCHANGED device
  /\ UNCHANGED vars

InterruptTimesOut == MacInterruptTimesOut /\ UNCHANGED <<vars, device>>

Abort ==
  /\ at = "abort"
  /\ \E r \in IOReturn : UsbAnswers(r, PhaseReturns) /\ AbortPipe(r)
  /\ UNCHANGED <<vars, device>>

Drained == DrainEnds /\ UNCHANGED <<vars, device>>

InterruptEnds ==
  /\ pc = "interrupt" /\ at \in {"wait", "drained"}
  /\ \E s \in IoStatus :
       /\ MacInterruptAborted(s) \/ MacInterruptCompleted(s)
       /\ InterruptReturns(s, outcome.exact, outcome.code)
  /\ delivered' = "none"
  /\ UNCHANGED <<attached, mine, stale>>

PrepareBegins ==
  /\ pc = "prepare"
  /\ MacPrepareBegin
  /\ UNCHANGED <<vars, device>>

PrepareEnds ==
  /\ pc = "prepare" /\ at = "drained"
  /\ \E r \in IOReturn, s \in IoStatus :
       /\ UsbAnswers(r, PipeReturns)
       /\ MacPrepareEnd(r, s)
       /\ PrepareReturns(s)
  /\ UNCHANGED device

\* cbi_release and cbi_destroy both close; the second ignores the outcome.
CloseBegins ==
  /\ pc \in {"close", "destroy_close"}
  /\ MacCloseBegin
  /\ UNCHANGED <<vars, device>>

CloseEnds ==
  /\ pc \in {"close", "destroy_close"}
  /\ \E r \in IOReturn, s \in IoStatus :
       /\ UsbAnswers(r, PhaseReturns)
       /\ MacCloseEnd(r, s) \/ MacCloseNotOpen(s)
       /\ CloseReturns(s) \/ DestroyCloseReturns
  /\ UNCHANGED device
-----------------------------------------------------------------------------
\* The workflow: one acquire, then commands, then one release (m65_inspect,
\* m65_test_1581), then main destroys the transport.
Workflow ==
  /\ \/ result.call = "none" /\ AcquireCall
     \/ /\ opened /\ result.call \in {"acquire", "execute"}
        /\ ReleaseCall \/ \E c \in Commands : ExecuteCall(c)
     \/ /\ result.call = "release" \/ (result.call = "acquire" /\ ~opened)
        /\ DestroyCall
  /\ UNCHANGED <<mac, device>>

\* The steps of the process itself; Callback waits for the drive.
Transport ==
  \/ Open \/ Adsc \/ Bulk \/ ClearStall \/ Finish
  \/ InterruptRefused \/ InterruptSubmit \/ InterruptTimesOut
  \/ Abort \/ Drained \/ InterruptEnds
  \/ PrepareBegins \/ PrepareEnds \/ CloseBegins \/ CloseEnds

StackNext == Transport \/ Callback \/ Workflow \/ Unplug

StackSpec == StackInit /\ [][StackNext]_stackVars

\* Every kernel call has a timeout and both run-loop waits a deadline, so the
\* process's own steps are never withheld for ever.  Nothing is assumed of the
\* callback: the kernel may never complete a request.
StackFairSpec == StackSpec /\ WF_stackVars(Transport)
-----------------------------------------------------------------------------
(* Properties *)

\* The completion handed to an exchange belongs to the command block that
\* exchange sent: a late completion of a command that timed out, or whose
\* data phase failed, is never taken for the answer to a later one.
OwnCompletion ==
  at = "wait" /\ complete /\ outcome.result = "Success" => delivered = "own"

\* The adapter's one-shot reset permission is held exactly from a successful
\* prepare to the finish that consumes it, however the reset's own phases
\* fail (include/m65/cbi.h: finish is "Called exactly once after every
\* successful prepare call").
ArmedOnlyDuringReset ==
  reset_armed <=> \/ pc \in PhasePc /\ job = "reset"
                  \/ pc \in {"clear_in", "clear_out", "finish"}

\* When the engine declares itself recovered, host and drive agree that
\* nothing is in flight: no completion owed, no request pending, and the
\* adapter's gate open again.
RecoveryResynchronises ==
  [][recovery_required /\ ~recovery_required' /\ pc = "finish" =>
       ~mine /\ ~stale /\ ~interrupt_request /\ ~desynchronized']_stackVars

\* Destruction leaves nothing behind: the interface is closed and the context
\* holds no request, also when the release before it failed half way
\* (docs/architecture.md: "Transport destruction also makes a best-effort
\* release as a final guard").
DestroyReleases == pc = "destroyed" => ~open /\ ~interrupt_request /\ ~opened

\* Every transport call ends although the drive may be unplugged, the
\* completion may never come and AbortPipe may fail: the waits for the
\* callback are bounded and no recovery is retried within one call.
StackCallsReturn == (pc # "idle") ~> (pc \in {"idle", "destroyed"})

\* docs/architecture.md: "A timeout, malformed transport phase, or low-level
\* I/O error marks the CBI engine as requiring recovery."  Whenever the
\* adapter has recorded the loss of phase, the engine, between commands,
\* must know that it owes a reset; otherwise the next command (the restoring
\* MODE SELECT included) is refused by ready_for_adsc without a reset being
\* tried.
PhaseLossMarksEngine ==
  pc = "idle" /\ opened /\ open /\ attached /\ desynchronized
    => recovery_required
=============================================================================
