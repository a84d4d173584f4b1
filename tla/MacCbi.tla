------------------------------- MODULE MacCbi -------------------------------
(***************************************************************************)
(* The macOS USB adapter of src/usb_cbi_macos.c: the operations the CBI    *)
(* engine calls, and the asynchronous completion-interrupt request that    *)
(* the adapter and the kernel share by reference count.                    *)
(*                                                                         *)
(* An operation that never runs the run loop is one action.  The three     *)
(* that may wait for the interrupt callback (interrupt_in_with_deadline,   *)
(* prepare_command_block_reset, close) are split at their waits; at says   *)
(* where the operation op stands.  The callback runs only inside           *)
(* CFRunLoopRunInMode, on the thread that acquired the interface, so it    *)
(* interleaves with the two waits and with nothing else.                   *)
(*                                                                         *)
(* The parameter s of an operation is the status it returns; a parameter   *)
(* r is the IOReturn of a kernel call it makes.                            *)
(***************************************************************************)
EXTENDS CbiTypes

VARIABLES
  open,             \* MacCbiContext.open
  desynchronized,   \* MacCbiContext.desynchronized
  reset_armed,      \* MacCbiContext.reset_armed
  interrupt_request,\* is MacCbiContext.interrupt_request non-NULL?
  references,       \* MacInterruptRequest.references of the last request
  complete,         \* MacInterruptRequest.complete
  outcome,          \* MacInterruptRequest.result, .transferred and .buffer
  kernel,           \* the kernel still holds the request and its buffer
  at,               \* where the running operation waits
  op,               \* the operation that runs
  abort_result      \* abort_and_drain_interrupt's result

mac == <<open, desynchronized, reset_armed, interrupt_request, references,
         complete, outcome, kernel, at, op, abort_result>>

flags == <<open, desynchronized, reset_armed>>
request == <<interrupt_request, references, complete, outcome, kernel>>
control == <<at, op, abort_result>>

\* IOReturn values, one per class that the code tells apart.
IOReturn == {"Success", "PipeStalled", "NotPermitted", "ExclusiveAccess",
             "NoDevice", "Timeout", "BadArgument", "Other"}

map_io_return(r) ==
  CASE r = "Success" -> "OK"
    [] r = "PipeStalled" -> "STALL"
    [] r \in {"NotPermitted", "ExclusiveAccess"} -> "PERMISSION"
    [] r = "NoDevice" -> "NO_DEVICE"
    [] r = "Timeout" -> "TIMEOUT"
    [] r = "BadArgument" -> "PROTOCOL"
    [] OTHER -> "ERROR"

\* IOUSBLib answers a call on a closed interface with kIOReturnNotOpen, which
\* map_io_return does not single out.
Answers(r) == open \/ r = "Other"

\* What the callback stores: the result, whether exactly two bytes arrived,
\* and the two bytes.
Outcome == [result : IOReturn, exact : BOOLEAN, code : Codes]
NotReady == [result |-> "Other", exact |-> FALSE, code |-> 0]

MacTypeOK ==
  /\ open \in BOOLEAN /\ desynchronized \in BOOLEAN /\ reset_armed \in BOOLEAN
  /\ interrupt_request \in BOOLEAN
  /\ references \in 0..2
  /\ complete \in BOOLEAN
  /\ outcome \in Outcome
  /\ kernel \in BOOLEAN
  /\ at \in {"rest", "wait", "abort", "drain", "drained"}
  /\ op \in {"none", "interrupt", "prepare", "close"}
  /\ abort_result \in IOReturn

\* m65_usb_cbi_transport_create: a zeroed context.
MacInit ==
  /\ open = FALSE /\ desynchronized = FALSE /\ reset_armed = FALSE
  /\ interrupt_request = FALSE /\ references = 0
  /\ complete = FALSE /\ outcome = NotReady /\ kernel = FALSE
  /\ at = "rest" /\ op = "none" /\ abort_result = "Success"
-----------------------------------------------------------------------------
(* The shared request. *)

\* release_interrupt_request: the context drops its reference, if it has one.
\* What a completed request held is gone with it.
Release ==
  /\ interrupt_request' = FALSE
  /\ references' = IF interrupt_request THEN references - 1 ELSE references
  /\ complete' = FALSE
  /\ outcome' = NotReady
  /\ UNCHANGED kernel

\* interrupt_callback: stores the outcome and drops the kernel's reference.
InterruptCallback(o) ==
  /\ at \in {"wait", "drain"}
  /\ kernel
  /\ outcome' = o
  /\ complete' = TRUE
  /\ references' = references - 1
  /\ kernel' = FALSE
  /\ UNCHANGED <<interrupt_request, flags, control>>

\* The operation returns to the engine.
Done == at' = "rest" /\ op' = "none" /\ abort_result' = "Success"

\* abort_and_drain_interrupt begins: AbortPipe is called only for a request
\* that is still pending.
BeginAbort(o) ==
  /\ op' = o
  /\ at' = IF interrupt_request /\ ~complete THEN "abort" ELSE "drained"
  /\ abort_result' = "Success"

AbortPipe(r) ==
  /\ at = "abort"
  /\ at' = IF r = "Success" THEN "drain" ELSE "drained"
  /\ abort_result' = r
  /\ UNCHANGED <<op, flags, request>>

\* Mutant: the drain waits for the callback without a deadline.
MutDrainForever ==
  /\ at = "drain" /\ complete
  /\ at' = "drained"
  /\ abort_result' = "Success"
  /\ UNCHANGED <<op, flags, request>>

\* run_until_interrupt ends: the callback ran, or the drain deadline passed.
DrainEnds ==
  /\ at = "drain"
  /\ at' = "drained"
  /\ abort_result' = IF complete THEN "Success" ELSE "Timeout"
  /\ UNCHANGED <<op, flags, request>>
-----------------------------------------------------------------------------
(* Operations without a wait. *)

\* mac_open_seize: r of USBInterfaceOpenSeize, root for geteuid() == 0, then
\* setup for inspect_endpoints and CreateInterfaceAsyncEventSource (a NULL
\* source counts as Other, bad endpoints as BadArgument).  A request that a
\* failed close abandoned belongs to an event source that is gone.
MacOpenSeize(r, root, setup, s) ==
  /\ at = "rest"
  /\ \/ /\ open
        /\ s = "OK"
        /\ UNCHANGED <<flags, request>>
     \/ /\ ~open /\ r # "Success"
        /\ s = IF r = "ExclusiveAccess" /\ root THEN "ERROR"
               ELSE map_io_return(r)
        /\ UNCHANGED <<flags, request>>
     \/ /\ ~open /\ r = "Success"
        /\ open' = (setup = "Success")
        /\ desynchronized' = FALSE
        /\ reset_armed' = FALSE
        /\ s = map_io_return(setup)
        /\ references' = 0 /\ kernel' = FALSE
        /\ complete' = FALSE /\ outcome' = NotReady
        /\ UNCHANGED interrupt_request
  /\ UNCHANGED control

\* Mutant: the gate forgets that the phase was lost.
MutGateIgnoresDesync(reset) == ~interrupt_request /\ reset_armed = reset

\* ready_for_adsc: the gate in front of every command block.
ready_for_adsc(reset) ==
  /\ ~interrupt_request
  /\ reset_armed = reset
  /\ desynchronized => reset

\* mac_adsc: full is wLenDone == 12.
MacAdsc(reset, r, full, s) ==
  /\ at = "rest"
  /\ Answers(r)
  /\ \/ /\ ~ready_for_adsc(reset)
        /\ s = "PROTOCOL"
        /\ UNCHANGED desynchronized
     \/ /\ ready_for_adsc(reset) /\ r # "Success"
        /\ s = map_io_return(r)
        /\ desynchronized' = (desynchronized \/ r = "Timeout")
     \/ /\ ready_for_adsc(reset) /\ r = "Success"
        /\ s = IF full THEN "OK" ELSE "PROTOCOL"
        /\ desynchronized' = (desynchronized \/ ~full)
  /\ UNCHANGED <<open, reset_armed, request, control>>

\* mac_bulk_in and mac_bulk_out.  The pipe clear after a timeout only adds to
\* the error text.
MacBulk(r, s) ==
  /\ at = "rest"
  /\ Answers(r)
  /\ s = map_io_return(r)
  /\ desynchronized' = (desynchronized \/ r = "Timeout")
  /\ UNCHANGED <<open, reset_armed, request, control>>

\* mac_clear_stall on one of the bulk pipes.
MacClearStall(r, s) ==
  /\ at = "rest"
  /\ Answers(r)
  /\ s = map_io_return(r)
  /\ UNCHANGED mac

\* Mutant: a failed reset keeps its permission for another attempt.
MutFinishStaysArmed(was_recovered, s) ==
  /\ at = "rest"
  /\ s = IF reset_armed THEN "OK" ELSE "PROTOCOL"
  /\ reset_armed' = (reset_armed /\ ~was_recovered)
  /\ desynchronized' = (~reset_armed \/ ~was_recovered)
  /\ UNCHANGED <<open, request, control>>

\* mac_finish_command_block_reset
MacFinish(was_recovered, s) ==
  /\ at = "rest"
  /\ s = IF reset_armed THEN "OK" ELSE "PROTOCOL"
  /\ reset_armed' = FALSE
  /\ desynchronized' = (~reset_armed \/ ~was_recovered)
  /\ UNCHANGED <<open, request, control>>
-----------------------------------------------------------------------------
(* mac_interrupt_in_with_deadline *)

\* Calls that end before the wait: a request is still pending, no memory for
\* a new one, or its submission fails (both references are dropped at once).
MacInterruptRefused(r, s) ==
  /\ at = "rest"
  /\ \/ interrupt_request /\ s = "PROTOCOL"
     \/ ~interrupt_request /\ s = "ERROR"
     \/ ~interrupt_request /\ r # "Success" /\ Answers(r)
        /\ s = map_io_return(r)
  /\ UNCHANGED mac

\* Mutant: the kernel's reference is not counted.
MutOneReference == 1

\* A submitted request is referenced by the context and by the kernel.
SubmittedReferences == 2

MacInterruptSubmit ==
  /\ at = "rest"
  /\ open
  /\ ~interrupt_request
  /\ interrupt_request' = TRUE
  /\ references' = SubmittedReferences
  /\ complete' = FALSE
  /\ outcome' = NotReady
  /\ kernel' = TRUE
  /\ at' = "wait"
  /\ op' = "interrupt"
  /\ UNCHANGED <<flags, abort_result>>

\* The deadline passes with the request incomplete.
MacInterruptTimesOut ==
  /\ at = "wait"
  /\ ~complete
  /\ desynchronized' = TRUE
  /\ BeginAbort("interrupt")
  /\ UNCHANGED <<open, reset_armed, request>>

\* Mutant: the request is let go although the kernel still holds it.
MutReleaseAfterFailedAbort(s) ==
  /\ at = "drained" /\ op = "interrupt"
  /\ s = IF abort_result # "Success" THEN map_io_return(abort_result)
         ELSE "TIMEOUT"
  /\ Release
  /\ Done
  /\ UNCHANGED flags

\* A request that could not be aborted stays with the context, so that no
\* command is sent until prepare drains it.
MacInterruptAborted(s) ==
  /\ at = "drained" /\ op = "interrupt"
  /\ \/ /\ abort_result # "Success"
        /\ s = map_io_return(abort_result)
        /\ UNCHANGED request
     \/ /\ abort_result = "Success"
        /\ s = "TIMEOUT"
        /\ Release
  /\ Done
  /\ UNCHANGED flags

MacInterruptCompleted(s) ==
  /\ at = "wait"
  /\ complete
  /\ Release
  /\ s = CASE outcome.result # "Success" -> map_io_return(outcome.result)
           [] outcome.result = "Success" /\ ~outcome.exact -> "PROTOCOL"
           [] OTHER -> "OK"
  /\ desynchronized' = (\/ desynchronized
                        \/ outcome.result # "Success"
                        \/ ~outcome.exact)
  /\ Done
  /\ UNCHANGED <<open, reset_armed>>
-----------------------------------------------------------------------------
(* mac_prepare_command_block_reset *)

MacPrepareRefused(s) ==
  /\ at = "rest"
  /\ ~open \/ reset_armed
  /\ s = "PROTOCOL"
  /\ UNCHANGED mac

MacPrepareBegin ==
  /\ at = "rest"
  /\ open /\ ~reset_armed
  /\ BeginAbort("prepare")
  /\ UNCHANGED <<flags, request>>

\* r of ClearPipeStallBothEnds on the interrupt pipe.
MacPrepareEnd(r, s) ==
  /\ at = "drained" /\ op = "prepare"
  /\ \/ /\ abort_result # "Success"
        /\ s = map_io_return(abort_result)
        /\ UNCHANGED <<reset_armed, request>>
     \/ /\ abort_result = "Success"
        /\ Release
        /\ s = map_io_return(r)
        /\ reset_armed' = (r = "Success")
  /\ Done
  /\ UNCHANGED <<open, desynchronized>>
-----------------------------------------------------------------------------
(* mac_close; mac_destroy_io calls it too. *)

MacCloseNotOpen(s) ==
  /\ at = "rest"
  /\ ~open
  /\ s = "OK"
  /\ UNCHANGED mac

MacCloseBegin ==
  /\ at = "rest"
  /\ open
  /\ BeginAbort("close")
  /\ UNCHANGED <<flags, request>>

\* Mutant: a failed abort ends the close early.
MutCloseGivesUp(r, s) ==
  /\ at = "drained" /\ op = "close"
  /\ s = map_io_return(IF abort_result # "Success" THEN abort_result ELSE r)
  /\ open' = (abort_result # "Success")
  /\ reset_armed' = FALSE
  /\ IF abort_result = "Success" THEN Release ELSE UNCHANGED request
  /\ Done
  /\ UNCHANGED desynchronized

\* r of USBInterfaceClose.  The interface counts as closed and the request is
\* let go whatever failed; one the kernel still holds keeps its reference.
MacCloseEnd(r, s) ==
  /\ at = "drained" /\ op = "close"
  /\ s = map_io_return(IF abort_result # "Success" THEN abort_result ELSE r)
  /\ open' = FALSE
  /\ reset_armed' = FALSE
  /\ Release
  /\ Done
  /\ UNCHANGED desynchronized
-----------------------------------------------------------------------------
(* The adapter under a caller that obeys no protocol: any operation, in    *)
(* any order, with any outcome.                                            *)

MacSteps ==
  \/ \E o \in Outcome : InterruptCallback(o)
  \/ \E r \in IOReturn : AbortPipe(r)
  \/ DrainEnds
  \/ MacInterruptTimesOut
  \/ \E s \in IoStatus : MacInterruptAborted(s)
  \/ \E s \in IoStatus : MacInterruptCompleted(s)
  \/ \E r \in IOReturn, s \in IoStatus : MacPrepareEnd(r, s)
  \/ \E r \in IOReturn, s \in IoStatus : MacCloseEnd(r, s)

MacCalls ==
  \/ \E r, e \in IOReturn, root \in BOOLEAN, s \in IoStatus :
       MacOpenSeize(r, root, e, s)
  \/ \E reset, full \in BOOLEAN, r \in IOReturn, s \in IoStatus :
       MacAdsc(reset, r, full, s)
  \/ \E r \in IOReturn, s \in IoStatus : MacBulk(r, s)
  \/ \E r \in IOReturn, s \in IoStatus : MacClearStall(r, s)
  \/ \E b \in BOOLEAN, s \in IoStatus : MacFinish(b, s)
  \/ \E r \in IOReturn, s \in IoStatus : MacInterruptRefused(r, s)
  \/ MacInterruptSubmit
  \/ \E s \in IoStatus : MacPrepareRefused(s)
  \/ MacPrepareBegin
  \/ \E s \in IoStatus : MacCloseNotOpen(s)
  \/ MacCloseBegin

MacNext == MacSteps \/ MacCalls

MacSpec == MacInit /\ [][MacNext]_mac
-----------------------------------------------------------------------------
(* Properties *)

\* The reference count of the shared request is exactly the number of its
\* holders, the context's pointer and the kernel, so it is freed neither
\* while the kernel may still write its buffer or call back (a timed-out
\* request that AbortPipe could not cancel, then close) nor twice.
RefcountExact ==
  references = (IF interrupt_request THEN 1 ELSE 0) + (IF kernel THEN 1 ELSE 0)

\* The context lets go of a request the kernel still holds only by closing:
\* a pending request survives every other failure, where it keeps the gate
\* of ready_for_adsc shut.
PendingKeptUntilClose ==
  [][interrupt_request /\ kernel /\ ~interrupt_request' => op = "close"]_mac

\* Phase loss is forgotten only through an armed reset that was reported as
\* recovered, or by opening the interface anew (include/m65/cbi.h: "It may
\* clear its local desynchronized state only when recovered is true").
DesyncClearedByReset ==
  [][desynchronized /\ ~desynchronized' =>
       (reset_armed /\ ~reset_armed' /\ open') \/ ~open]_mac
=============================================================================
