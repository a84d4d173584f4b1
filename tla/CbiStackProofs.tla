--------------------------- MODULE CbiStackProofs ---------------------------
(***************************************************************************)
(* Proofs about the CBI engine over the macOS adapter over a UFI drive,    *)
(* for every set of commands, codes, keys and pipe answers.                *)
(***************************************************************************)
EXTENDS CbiStack, CbiEngineProofs
-----------------------------------------------------------------------------
(* The macOS adapter under a caller that obeys no protocol                 *)

\* Only an open interface has a request, an armed reset or an operation that
\* waits.
ClosedIsEmpty == ~open => ~interrupt_request /\ ~reset_armed /\ at = "rest"

\* A request that completed is not the kernel's any more, and while the
\* interface is open the kernel holds no request but the context's.
KernelHolds ==
  /\ complete => ~kernel
  /\ open /\ kernel => interrupt_request

\* Where the operation stands: a wait is for a request of the context, and a
\* drain that reports success left none that the kernel still holds.
Waiting ==
  /\ at \in {"wait", "abort", "drain"} => interrupt_request
  /\ at = "drained" /\ abort_result = "Success" => ~kernel

MacInv ==
  /\ MacTypeOK
  /\ RefcountExact
  /\ ClosedIsEmpty
  /\ KernelHolds
  /\ Waiting
-----------------------------------------------------------------------------
\* The values that the adapter stores are typed.
LEMMA NotReadyType == NotReady \in Outcome
  BY CodesAssumption DEF NotReady, Outcome, IOReturn

\* A fresh adapter holds nothing.
LEMMA MacInitInv == MacInit => MacInv
  <1> SUFFICES ASSUME MacInit PROVE MacInv
    OBVIOUS
  <1>r. references \in 0..2
    BY DEF MacInit
  <1>1. MacTypeOK
    BY <1>r, NotReadyType DEF MacInit, MacTypeOK, IOReturn
  <1>2. RefcountExact
    BY DEF MacInit, RefcountExact
  <1>3. ClosedIsEmpty /\ KernelHolds /\ Waiting
    BY DEF MacInit, ClosedIsEmpty, KernelHolds, Waiting
  <1> QED
    BY <1>1, <1>2, <1>3 DEF MacInv

\* The callback and the two ends of a wait.
LEMMA WaitInv ==
  ASSUME MacInv,
         \/ \E o \in Outcome : InterruptCallback(o)
         \/ \E r \in IOReturn : AbortPipe(r)
         \/ DrainEnds \/ MacInterruptTimesOut
  PROVE  MacInv'
  <1> USE DEF flags, request, control, mac
  <1>1. CASE \E o \in Outcome : InterruptCallback(o)
    <2>0. interrupt_request /\ references = 2
      BY <1>1 DEF InterruptCallback, MacInv, Waiting, RefcountExact
    <2>r. references' \in 0..2
      BY <1>1, <2>0 DEF InterruptCallback, MacInv, MacTypeOK, RefcountExact
    <2>1. MacTypeOK'
      BY <1>1, <2>0, <2>r, NotReadyType DEF InterruptCallback, MacInv,
         MacTypeOK, IOReturn
    <2>2. RefcountExact'
      BY <1>1, <2>0 DEF InterruptCallback, MacInv, MacTypeOK, RefcountExact,
         ClosedIsEmpty, KernelHolds
    <2>3. ClosedIsEmpty'
      BY <1>1, <2>0 DEF InterruptCallback, MacInv, MacTypeOK, ClosedIsEmpty
    <2>4. KernelHolds' /\ Waiting'
      BY <1>1, <2>0 DEF InterruptCallback, MacInv, MacTypeOK, ClosedIsEmpty,
         KernelHolds, Waiting
    <2> QED
      BY <2>1, <2>2, <2>3, <2>4 DEF MacInv
  <1>2. CASE \E r \in IOReturn : AbortPipe(r)
    BY <1>2 DEF AbortPipe, MacInv, MacTypeOK, RefcountExact,
         ClosedIsEmpty, KernelHolds, Waiting
  <1>3. CASE DrainEnds
    BY <1>3 DEF DrainEnds, MacInv, MacTypeOK, RefcountExact,
         ClosedIsEmpty, KernelHolds, Waiting, IOReturn
  <1>4. CASE MacInterruptTimesOut
    BY <1>4 DEF MacInterruptTimesOut, BeginAbort, MacInv, MacTypeOK,
         RefcountExact, ClosedIsEmpty, KernelHolds, Waiting, IOReturn
  <1> QED
    BY <1>1, <1>2, <1>3, <1>4

\* Letting the request go while the interface stays open, once the kernel has
\* let go of it.
LEMMA ReleaseInv ==
  ASSUME MacInv, ~kernel, Release, Done, open, UNCHANGED open,
         desynchronized' \in BOOLEAN, reset_armed' \in BOOLEAN
  PROVE  MacInv'
  <1>0. references' = 0
    BY DEF Release, MacInv, MacTypeOK, RefcountExact
  <1>r. references' \in 0..2
    BY <1>0 DEF Release, Done, MacInv, MacTypeOK, RefcountExact
  <1>1. MacTypeOK'
    BY <1>0, <1>r, NotReadyType DEF Release, Done, MacInv, MacTypeOK,
       IOReturn
  <1>2. RefcountExact'
    BY <1>0 DEF Release, Done, MacInv, MacTypeOK, RefcountExact, ClosedIsEmpty,
       KernelHolds
  <1>3. ClosedIsEmpty'
    BY DEF Release, Done, MacInv, MacTypeOK, ClosedIsEmpty
  <1>4. KernelHolds' /\ Waiting'
    BY DEF Release, Done, MacInv, MacTypeOK, ClosedIsEmpty, KernelHolds,
       Waiting
  <1> QED
    BY <1>1, <1>2, <1>3, <1>4 DEF MacInv

\* The end of an operation that waited.
LEMMA EndInv ==
  ASSUME MacInv, NEW r \in IOReturn, NEW s \in IoStatus,
         \/ MacInterruptAborted(s) \/ MacInterruptCompleted(s)
         \/ MacPrepareEnd(r, s) \/ MacCloseEnd(r, s)
  PROVE  MacInv'
  <1> USE DEF flags, request
  <1>0. open
    BY DEF MacInv, ClosedIsEmpty, MacInterruptAborted, MacInterruptCompleted,
         MacPrepareEnd, MacCloseEnd
  <1>1. CASE MacInterruptAborted(s)
    <2>1. CASE abort_result # "Success"
      BY <1>1, <2>1 DEF MacInterruptAborted, Done, MacInv, MacTypeOK,
           RefcountExact, ClosedIsEmpty, KernelHolds, Waiting, IOReturn
    <2>2. CASE abort_result = "Success"
      BY <1>0, <1>1, <2>2, ReleaseInv
         DEF MacInterruptAborted, MacInv, Waiting, MacTypeOK
    <2> QED
      BY <2>1, <2>2
  <1>2. CASE MacInterruptCompleted(s)
    BY <1>0, <1>2, ReleaseInv
       DEF MacInterruptCompleted, MacInv, KernelHolds, MacTypeOK
  <1>3. CASE MacPrepareEnd(r, s)
    <2>1. CASE abort_result # "Success"
      BY <1>3, <2>1 DEF MacPrepareEnd, Done, MacInv, MacTypeOK,
           RefcountExact, ClosedIsEmpty, KernelHolds, Waiting, IOReturn
    <2>2. CASE abort_result = "Success"
      BY <1>0, <1>3, <2>2, ReleaseInv
         DEF MacPrepareEnd, MacInv, Waiting, MacTypeOK
    <2> QED
      BY <2>1, <2>2
  <1>4. CASE MacCloseEnd(r, s)
    <2>0. references' = IF kernel THEN 1 ELSE 0
      BY <1>4 DEF MacCloseEnd, Release, MacInv, MacTypeOK, RefcountExact
    <2>r. references' \in 0..2
      BY <1>4, <2>0 DEF MacCloseEnd, Release, Done, MacInv, MacTypeOK,
         RefcountExact
    <2>1. MacTypeOK'
      BY <1>4, <2>0, <2>r, NotReadyType DEF MacCloseEnd, Release, Done,
         MacInv, MacTypeOK, IOReturn
    <2>2. RefcountExact'
      BY <1>4, <2>0 DEF MacCloseEnd, Release, Done, MacInv, MacTypeOK,
         RefcountExact, ClosedIsEmpty, KernelHolds
    <2>3. ClosedIsEmpty'
      BY <1>4, <2>0 DEF MacCloseEnd, Release, Done, MacInv, MacTypeOK,
         ClosedIsEmpty
    <2>4. KernelHolds' /\ Waiting'
      BY <1>4, <2>0 DEF MacCloseEnd, Release, Done, MacInv, MacTypeOK,
         ClosedIsEmpty, KernelHolds, Waiting
    <2> QED
      BY <2>1, <2>2, <2>3, <2>4 DEF MacInv
  <1> QED
    BY <1>1, <1>2, <1>3, <1>4

\* The calls of the engine.
LEMMA CallInv ==
  ASSUME MacInv, MacCalls
  PROVE  MacInv'
  <1> USE DEF flags, request, control, mac
  <1>1. CASE \E r, e \in IOReturn, root \in BOOLEAN, s \in IoStatus :
               MacOpenSeize(r, root, e, s)
    <2>r. references' \in 0..2
      BY <1>1 DEF MacOpenSeize, MacInv, MacTypeOK, RefcountExact
    <2>b. /\ open' \in BOOLEAN /\ desynchronized' \in BOOLEAN
          /\ reset_armed' \in BOOLEAN /\ interrupt_request' \in BOOLEAN
          /\ complete' \in BOOLEAN /\ kernel' \in BOOLEAN
      BY <1>1 DEF MacOpenSeize, MacInv, MacTypeOK
    <2>o. /\ outcome' \in Outcome
          /\ UNCHANGED control
      BY <1>1, NotReadyType DEF MacOpenSeize, MacInv, MacTypeOK
    <2>1. MacTypeOK'
      BY <2>r, <2>b, <2>o DEF MacInv, MacTypeOK
    <2>2. RefcountExact'
      BY <1>1 DEF MacOpenSeize, MacInv, MacTypeOK, RefcountExact,
         ClosedIsEmpty, KernelHolds
    <2>3. ClosedIsEmpty'
      BY <1>1 DEF MacOpenSeize, MacInv, MacTypeOK, ClosedIsEmpty
    <2>4. KernelHolds' /\ Waiting'
      BY <1>1 DEF MacOpenSeize, MacInv, MacTypeOK, ClosedIsEmpty,
         KernelHolds, Waiting
    <2> QED
      BY <2>1, <2>2, <2>3, <2>4 DEF MacInv
  <1>2. CASE \/ \E reset, full \in BOOLEAN, r \in IOReturn, s \in IoStatus :
                  MacAdsc(reset, r, full, s)
             \/ \E r \in IOReturn, s \in IoStatus : MacBulk(r, s)
             \/ \E b \in BOOLEAN, s \in IoStatus : MacFinish(b, s)
    <2>1. /\ at = "rest" /\ desynchronized' \in BOOLEAN
          /\ reset_armed' = reset_armed \/ reset_armed' = FALSE
          /\ UNCHANGED <<open, request, control>>
      BY <1>2 DEF MacAdsc, MacBulk, MacFinish, MacInv, MacTypeOK
    <2>2. MacTypeOK'
      BY <2>1 DEF MacInv, MacTypeOK
    <2>3. RefcountExact' /\ KernelHolds' /\ Waiting'
      BY <2>1 DEF MacInv, RefcountExact, KernelHolds, Waiting
    <2>4. ClosedIsEmpty'
      BY <2>1 DEF MacInv, ClosedIsEmpty
    <2> QED
      BY <2>2, <2>3, <2>4 DEF MacInv
  <1>3. CASE UNCHANGED mac
    BY <1>3 DEF MacInv, MacTypeOK, RefcountExact, ClosedIsEmpty, KernelHolds,
         Waiting
  <1>4. CASE MacInterruptSubmit
    <2>r. references' \in 0..2
      BY <1>4 DEF MacInterruptSubmit, SubmittedReferences, MacInv, MacTypeOK,
         RefcountExact
    <2>1. MacTypeOK'
      BY <1>4, <2>r, NotReadyType DEF MacInterruptSubmit,
         SubmittedReferences, MacInv, MacTypeOK, IOReturn
    <2>2. RefcountExact'
      BY <1>4 DEF MacInterruptSubmit, SubmittedReferences, MacInv, MacTypeOK,
         RefcountExact, ClosedIsEmpty, KernelHolds
    <2>3. ClosedIsEmpty'
      BY <1>4 DEF MacInterruptSubmit, SubmittedReferences, MacInv, MacTypeOK,
         ClosedIsEmpty
    <2>4. KernelHolds' /\ Waiting'
      BY <1>4 DEF MacInterruptSubmit, SubmittedReferences, MacInv, MacTypeOK,
         ClosedIsEmpty, KernelHolds, Waiting
    <2> QED
      BY <2>1, <2>2, <2>3, <2>4 DEF MacInv
  <1>5. CASE MacPrepareBegin \/ MacCloseBegin
    BY <1>5 DEF MacPrepareBegin, MacCloseBegin, BeginAbort, MacInv,
         MacTypeOK, RefcountExact, ClosedIsEmpty, KernelHolds, Waiting,
         IOReturn
  <1> QED
    BY <1>1, <1>2, <1>3, <1>4, <1>5 DEF MacCalls, MacClearStall,
         MacInterruptRefused, MacPrepareRefused, MacCloseNotOpen

\* Every step of the adapter keeps the invariant.
LEMMA MacNextInv == MacInv /\ [MacNext]_mac => MacInv'
  <1> SUFFICES ASSUME MacInv, [MacNext]_mac PROVE MacInv'
    OBVIOUS
  <1>1. CASE UNCHANGED mac
    BY <1>1 DEF mac, MacInv, MacTypeOK, RefcountExact, ClosedIsEmpty,
         KernelHolds, Waiting
  <1>2. CASE MacCalls
    BY <1>2, CallInv
  <1>3. CASE MacSteps
    <2>1. "Success" \in IOReturn
      BY DEF IOReturn
    <2> QED
      BY <1>3, <2>1, WaitInv, EndInv DEF MacSteps
  <1> QED
    BY <1>1, <1>2, <1>3 DEF MacNext
-----------------------------------------------------------------------------
(* The theorems. *)

\* The inductive invariant of the adapter, whatever its caller does.
THEOREM MacInvariant == MacSpec => []MacInv
  BY MacInitInv, MacNextInv, PTL DEF MacSpec

\* The reference count of the shared request is the number of its holders, so
\* it is neither freed early nor twice nor leaked.
THEOREM Refcount == MacSpec => []RefcountExact
  <1>1. MacInv => RefcountExact
    BY DEF MacInv
  <1> QED
    BY <1>1, MacInvariant, PTL

\* A request that the kernel still holds is let go by close alone.
THEOREM PendingKept == MacSpec => PendingKeptUntilClose
  <1>1. MacInv /\ [MacNext]_mac =>
          [interrupt_request /\ kernel /\ ~interrupt_request'
             => op = "close"]_mac
    <2> SUFFICES ASSUME MacInv, MacNext, interrupt_request, kernel,
                        ~interrupt_request'
                 PROVE  op = "close"
      OBVIOUS
    <2> USE DEF flags, request, control, mac
    <2>1. ~MacCalls
      BY DEF MacCalls, MacOpenSeize, MacAdsc, MacBulk, MacClearStall,
           MacFinish, MacInterruptRefused, MacInterruptSubmit,
           MacPrepareRefused, MacPrepareBegin, MacCloseNotOpen, MacCloseBegin
    <2>2. ~ \/ \E o \in Outcome : InterruptCallback(o)
            \/ \E r \in IOReturn : AbortPipe(r)
            \/ DrainEnds \/ MacInterruptTimesOut
      BY DEF InterruptCallback, AbortPipe, DrainEnds, MacInterruptTimesOut
    <2>3. ~ \/ \E s \in IoStatus : MacInterruptAborted(s)
            \/ \E s \in IoStatus : MacInterruptCompleted(s)
            \/ \E r \in IOReturn, s \in IoStatus : MacPrepareEnd(r, s)
      BY DEF MacInterruptAborted, MacInterruptCompleted, MacPrepareEnd,
           MacInv, KernelHolds, Waiting
    <2> QED
      BY <2>1, <2>2, <2>3 DEF MacNext, MacSteps, MacCloseEnd
  <1> QED
    BY <1>1, MacInvariant, PTL DEF MacSpec, PendingKeptUntilClose

\* The loss of phase is forgotten only by an armed and recovered reset or by
\* opening the interface anew.
THEOREM DesyncCleared == MacSpec => DesyncClearedByReset
  <1>1. MacInv /\ [MacNext]_mac =>
          [desynchronized /\ ~desynchronized' =>
             (reset_armed /\ ~reset_armed' /\ open') \/ ~open]_mac
    <2> SUFFICES ASSUME MacInv, MacNext, desynchronized, ~desynchronized'
                 PROVE  (reset_armed /\ ~reset_armed' /\ open') \/ ~open
      OBVIOUS
    <2> USE DEF flags, request, control, mac
    <2>1. ~MacSteps
      BY DEF MacSteps, InterruptCallback, AbortPipe, DrainEnds,
           MacInterruptTimesOut, MacInterruptAborted, MacInterruptCompleted,
           MacPrepareEnd, MacCloseEnd
    <2>2. CASE \E r, e \in IOReturn, root \in BOOLEAN, s \in IoStatus :
                 MacOpenSeize(r, root, e, s)
      BY <2>2 DEF MacOpenSeize
    <2>3. CASE \E b \in BOOLEAN, s \in IoStatus : MacFinish(b, s)
      <3>1. PICK b \in BOOLEAN : desynchronized' = (~reset_armed \/ ~b)
        BY <2>3 DEF MacFinish
      <3>2. ~reset_armed' /\ open' = open
        BY <2>3 DEF MacFinish
      <3> QED
        BY <3>1, <3>2 DEF MacInv, ClosedIsEmpty
    <2> QED
      BY <2>1, <2>2, <2>3 DEF MacNext, MacCalls, MacAdsc, MacBulk,
           MacClearStall, MacInterruptRefused, MacInterruptSubmit,
           MacPrepareRefused, MacPrepareBegin, MacCloseNotOpen, MacCloseBegin
  <1> QED
    BY <1>1, MacInvariant, PTL DEF MacSpec, DesyncClearedByReset
-----------------------------------------------------------------------------
(* The engine over the adapter over the drive                              *)

DeviceTypeOK ==
  /\ attached \in BOOLEAN /\ mine \in BOOLEAN /\ stale \in BOOLEAN
  /\ delivered \in {"none", "own", "stale"}

\* An adapter operation that waits was called by the engine step that pc
\* names, and the abort of a late interrupt has recorded the loss of phase.
AtMatches ==
  /\ at # "rest" =>
       \/ op = "interrupt" /\ pc = "interrupt"
       \/ op = "prepare" /\ pc = "prepare"
       \/ op = "close" /\ pc \in {"close", "destroy_close"}
  /\ at = "wait" => op = "interrupt"
  /\ at \notin {"rest", "wait"} /\ op = "interrupt" => desynchronized

\* The engine's and the adapter's idea of the seized interface.  They differ
\* only after a close that failed, which the adapter counts as closed.
OpenMatches ==
  /\ pc \in ActivePc \cup {"close"} => open /\ opened
  /\ pc \in {"open_seize", "destroyed"} => ~open /\ ~opened
  /\ pc = "destroy_close" => opened
  /\ pc = "idle" =>
       /\ result.call \in {"acquire", "execute"} => (open <=> opened)
       /\ result.call = "execute" => opened
       /\ result.call = "release" => ~open
       /\ result.call = "none" => ~open /\ ~opened

\* No completion is owed and no request is pending.
Quiet == ~mine /\ ~stale /\ ~interrupt_request

\* A command block can only pass the adapter's gate when nothing is owed.
GateIsQuiet ==
  pc \in {"idle", "adsc"} /\ open /\ attached /\ ~recovery_required
    /\ ~desynchronized /\ ~interrupt_request => ~mine /\ ~stale

\* What the drive may owe while the engine is at pc.
Outstanding ==
  /\ pc = "open_seize" \/ (pc = "idle" /\ result.call = "none") => Quiet
  /\ pc \in {"data", "clear_stall", "interrupt"} => ~stale
  /\ at = "wait" /\ complete /\ outcome.result = "Success"
       => ~mine /\ ~stale /\ delivered = "own"
  /\ pc \in {"clear_in", "clear_out"} \/ (pc = "finish" /\ first_failure = "OK")
       => Quiet

\* What ties the engine, the adapter and the drive together.
Linked ==
  /\ DeviceTypeOK
  /\ ArmedOnlyDuringReset
  /\ AtMatches
  /\ OpenMatches
  /\ GateIsQuiet
  /\ Outstanding

StackInv == IInv /\ MacInv /\ Linked
-----------------------------------------------------------------------------
(* Every step of the stack is a step of the engine and one of the adapter. *)

\* The joint steps in which the engine consumes an adapter status.
LEMMA JointIsEngineStep ==
  ASSUME StackInv,
         \/ Open \/ Adsc \/ Bulk \/ ClearStall \/ Finish \/ InterruptRefused
         \/ InterruptEnds \/ PrepareEnds \/ CloseEnds
  PROVE  Next
  <1>1. CASE Open
    BY <1>1 DEF Open, Next, IoReturns
  <1>2. CASE Adsc
    BY <1>2 DEF Adsc, Next, IoReturns
  <1>3. CASE Bulk
    BY <1>3 DEF Bulk, Next, IoReturns
  <1>4. CASE ClearStall
    BY <1>4 DEF ClearStall, Next, IoReturns
  <1>5. CASE Finish
    BY <1>5 DEF Finish, Next, IoReturns
  <1>6. CASE InterruptRefused
    BY <1>6, CodesAssumption DEF InterruptRefused, Next, IoReturns
  <1>7. CASE InterruptEnds
    <2>1. outcome.exact \in BOOLEAN /\ outcome.code \in Codes
      BY DEF StackInv, MacInv, MacTypeOK, Outcome
    <2> QED
      BY <1>7, <2>1 DEF InterruptEnds, Next, IoReturns
  <1>8. CASE PrepareEnds
    BY <1>8 DEF PrepareEnds, Next, IoReturns
  <1>9. CASE CloseEnds
    BY <1>9 DEF CloseEnds, Next, IoReturns
  <1> QED
    BY <1>1, <1>2, <1>3, <1>4, <1>5, <1>6, <1>7, <1>8, <1>9

\* The same steps are operations of the adapter.
LEMMA JointIsMacStep ==
  ASSUME \/ Open \/ Adsc \/ Bulk \/ ClearStall \/ Finish \/ InterruptRefused
         \/ InterruptEnds \/ PrepareEnds \/ CloseEnds
  PROVE  MacNext
  <1> USE DEF MacNext, MacCalls, MacSteps
  <1>1. CASE Open
    BY <1>1 DEF Open
  <1>2. CASE Adsc
    <2>1. (job = "reset") \in BOOLEAN /\ PhaseReturns \subseteq IOReturn
      BY DEF PhaseReturns
    <2> QED
      BY <1>2, <2>1 DEF Adsc
  <1>3. CASE Bulk
    BY <1>3 DEF Bulk, PhaseReturns
  <1>4. CASE ClearStall
    BY <1>4 DEF ClearStall
  <1>5. CASE Finish
    <2>1. recovered \in BOOLEAN
      BY DEF recovered
    <2> QED
      BY <1>5, <2>1 DEF Finish
  <1>6. CASE InterruptRefused
    BY <1>6 DEF InterruptRefused
  <1>7. CASE InterruptEnds
    BY <1>7 DEF InterruptEnds
  <1>8. CASE PrepareEnds
    BY <1>8 DEF PrepareEnds
  <1>9. CASE CloseEnds
    BY <1>9 DEF CloseEnds
  <1> QED
    BY <1>1, <1>2, <1>3, <1>4, <1>5, <1>6, <1>7, <1>8, <1>9

\* A step of the stack is a step or a stutter of either component.
LEMMA StackStep ==
  ASSUME StackInv, [StackNext]_stackVars
  PROVE  [Next]_vars /\ [MacNext]_mac
  <1>1. CASE \/ Open \/ Adsc \/ Bulk \/ ClearStall \/ Finish
             \/ InterruptRefused \/ InterruptEnds \/ PrepareEnds \/ CloseEnds
    BY <1>1, JointIsEngineStep, JointIsMacStep
  <1>2. CASE \/ InterruptSubmit \/ InterruptTimesOut \/ Abort \/ Drained
             \/ PrepareBegins \/ CloseBegins \/ Callback
    <2>1. UNCHANGED vars
      BY <1>2 DEF InterruptSubmit, InterruptTimesOut, Abort, Drained,
           PrepareBegins, CloseBegins, Callback
    <2>2. MacNext
      BY <1>2 DEF InterruptSubmit, InterruptTimesOut, Abort, Drained,
           PrepareBegins, CloseBegins, Callback, MacNext, MacCalls, MacSteps
    <2> QED
      BY <2>1, <2>2
  <1>3. CASE Workflow
    BY <1>3 DEF Workflow, Next, Calls
  <1>4. CASE Unplug \/ UNCHANGED stackVars
    BY <1>4 DEF Unplug, stackVars
  <1> QED
    BY <1>1, <1>2, <1>3, <1>4 DEF StackNext, Transport
-----------------------------------------------------------------------------
(* The phases of an exchange. *)

\* map_io_return answers OK, STALL, NO_DEVICE and PERMISSION for no other
\* return than these.
LEMMA MapIoReturn ==
  ASSUME NEW r \in IOReturn
  PROVE  /\ map_io_return(r) \in IoStatus
         /\ map_io_return(r) = "OK" <=> r = "Success"
         /\ map_io_return(r) = "STALL" <=> r = "PipeStalled"
         /\ map_io_return(r) = "NO_DEVICE" <=> r = "NoDevice"
         /\ map_io_return(r) = "PERMISSION"
              => r \in {"NotPermitted", "ExclusiveAccess"}
  BY DEF map_io_return, IOReturn, IoStatus

\* What an exchange that ends, or goes on, needs of the adapter and the drive:
\* a status that does not mark the engine leaves nothing owed.
LEMMA PhaseLinked ==
  ASSUME StackInv, NEW s \in IoStatus, NEW n \in Size, NEW d \in Sense,
         NEW e \in BOOLEAN, NEW k \in Codes,
         \/ AdscReturns(s) \/ BulkReturns(s, n, d) \/ ClearStallReturns(s)
         \/ InterruptReturns(s, e, k),
         DeviceTypeOK', at' = "rest", open' = open, reset_armed' = reset_armed,
         attached' = attached,
         s \in {"NO_DEVICE", "PERMISSION"} => ~attached \/ desynchronized',
         s = "STALL" => \/ pc = "adsc" /\ (job # "reset" => ~mine' /\ ~stale')
                        \/ pc = "data"
                        \/ pc = "interrupt" /\ desynchronized',
         pc = "interrupt" /\ s = "OK" =>
           ~mine' /\ ~stale' /\ ~interrupt_request',
         pc # "interrupt" /\ (s = "OK" \/ pc = "data") => ~stale'
  PROVE  Linked'
  <1> USE DEF StackInv, Linked
  <1>1. /\ pc \in PhasePc
        /\ opened' = opened
        /\ \/ ResetFails
           \/ ResetCompletes /\ pc = "interrupt" /\ s = "OK"
           \/ /\ CommandEnds
              /\ io_status_loses_phase(s) => recovery_required'
              /\ s = "OK" => pc = "interrupt" \/ recovery_required'
              /\ s = "STALL" => pc # "data"
           \/ /\ SenseBegins /\ recovery_required' = recovery_required
              /\ \/ pc = "adsc" /\ s = "STALL"
                 \/ pc = "interrupt" /\ s = "OK"
           \/ /\ job' = job /\ recovery_required' = recovery_required
              /\ pc' \in {"data", "clear_stall", "interrupt"}
              /\ \/ pc = "adsc" /\ s = "OK"
                 \/ pc = "data" /\ s \in {"OK", "STALL"}
                 \/ pc = "clear_stall" /\ s = "OK"
    BY PhaseEnds
  <1> USE DEF ResetFails, ResetCompletes, CommandEnds, SenseBegins
  <1>2. ArmedOnlyDuringReset'
    BY <1>1 DEF ArmedOnlyDuringReset, PhasePc
  <1>3. AtMatches'
    BY DEF AtMatches
  <1>4. OpenMatches'
    BY <1>1 DEF OpenMatches, ActivePc, PhasePc
  <1>5. GateIsQuiet'
    <2> SUFFICES ASSUME pc' \in {"idle", "adsc"}, attached',
                        ~recovery_required', ~desynchronized'
                 PROVE  ~mine' /\ ~stale'
      BY DEF GateIsQuiet
    <2>1. s \in {"OK", "STALL"} \/ io_status_loses_phase(s)
      BY DEF IoStatus, io_status_loses_phase
    <2> QED
      BY <1>1, <2>1
  <1>6. Outstanding'
    <2>1. pc' \in {"data", "clear_stall", "interrupt"} => ~stale'
      BY <1>1 DEF PhasePc, IInv, ResetStaysClean
    <2>2. pc' \in {"clear_in", "clear_out"}
            \/ (pc' = "finish" /\ first_failure' = "OK") => Quiet'
      BY <1>1 DEF Quiet
    <2> QED
      BY <1>1, <2>1, <2>2 DEF Outstanding
  <1> QED
    BY <1>2, <1>3, <1>4, <1>5, <1>6

\* A phase runs on an open interface, so the drive that is attached never
\* answers kIOReturnNoDevice and one that is gone answers nothing else.
LEMMA PhaseAnswers ==
  ASSUME StackInv, pc \in ActivePc, NEW r, NEW answers, UsbAnswers(r, answers)
  PROVE  /\ open
         /\ r = "NoDevice" <=> ~attached
         /\ r # "NoDevice" => r \in answers
  BY DEF StackInv, Linked, OpenMatches, UsbAnswers

\* The command block.
LEMMA AdscLinked ==
  ASSUME StackInv, Adsc
  PROVE  Linked'
  <1>1. PICK r \in PhaseReturns, full \in BOOLEAN, s \in IoStatus :
          /\ UsbAnswers(r, PhaseReturns)
          /\ MacAdsc(job = "reset", r, full, s)
          /\ IF ready_for_adsc(job = "reset")
             THEN DriveSeesAdsc(job = "reset", r, full) ELSE UNCHANGED device
          /\ AdscReturns(s)
    BY DEF Adsc
  <1>2. /\ pc = "adsc" /\ open /\ (r = "NoDevice" <=> ~attached)
        /\ r \in IOReturn /\ r \notin {"NotPermitted", "ExclusiveAccess"}
    BY <1>1, PhaseAnswers DEF Adsc, ActivePc, PhasePc, PhaseReturns
  <1>3. /\ at' = "rest" /\ open' = open /\ reset_armed' = reset_armed
        /\ interrupt_request' = interrupt_request
    BY <1>1 DEF MacAdsc, request, control
  <1>4. DeviceTypeOK' /\ attached' = attached
    BY <1>1 DEF StackInv, Linked, DeviceTypeOK, DriveSeesAdsc, BlockAccepted,
         BlockLost, device
  <1>5. CASE ~ready_for_adsc(job = "reset")
    <2>1. s = "PROTOCOL"
      BY <1>1, <1>5 DEF MacAdsc
    <2> QED
      BY <1>1, <1>2, <1>3, <1>4, <2>1, PhaseLinked, NoSenseType,
         CodesAssumption DEF Size
  <1>6. CASE ready_for_adsc(job = "reset")
    <2>1. s = IF r # "Success" THEN map_io_return(r)
              ELSE IF full THEN "OK" ELSE "PROTOCOL"
      BY <1>1, <1>6 DEF MacAdsc
    <2>2. DriveSeesAdsc(job = "reset", r, full)
      BY <1>1, <1>6
    <2>3. job # "reset" /\ attached => ~mine /\ ~stale
      BY <1>2, <1>6 DEF ready_for_adsc, StackInv, Linked, GateIsQuiet, IInv,
           RecoveryGatesCommands, PhasePc
    <2>4. /\ s = "NO_DEVICE" => ~attached
          /\ s # "PERMISSION"
          /\ s = "STALL" => r = "PipeStalled"
          /\ s = "OK" => r = "Success" /\ full
      BY <1>2, <2>1, MapIoReturn
    <2>5. s = "STALL" /\ job # "reset" => ~mine' /\ ~stale'
      BY <1>2, <2>2, <2>3, <2>4 DEF DriveSeesAdsc, BlockLost
    <2>6. s = "OK" => ~stale'
      BY <1>2, <2>2, <2>3, <2>4 DEF DriveSeesAdsc, BlockAccepted
    <2> QED
      BY <1>1, <1>2, <1>3, <1>4, <2>4, <2>5, <2>6, PhaseLinked, NoSenseType,
         CodesAssumption DEF Size
  <1> QED
    BY <1>5, <1>6

\* The data phase.
LEMMA BulkLinked ==
  ASSUME StackInv, Bulk
  PROVE  Linked'
  <1>1. PICK r \in PhaseReturns, n \in Size \ {"over"}, s \in IoStatus,
             d \in SenseData :
          /\ UsbAnswers(r, PhaseReturns) /\ MacBulk(r, s)
          /\ BulkReturns(s, n, d)
    BY DEF Bulk
  <1>2. /\ pc = "data" /\ (r = "NoDevice" <=> ~attached)
        /\ r \in IOReturn /\ r \notin {"NotPermitted", "ExclusiveAccess"}
        /\ n \in Size /\ d \in Sense
    BY <1>1, PhaseAnswers, NoSenseType
       DEF Bulk, ActivePc, PhasePc, PhaseReturns, SenseData
  <1>3. /\ at' = "rest" /\ open' = open /\ reset_armed' = reset_armed
        /\ UNCHANGED device
    BY <1>1 DEF Bulk, MacBulk, control
  <1>4. DeviceTypeOK' /\ attached' = attached /\ ~stale'
    BY <1>2, <1>3 DEF StackInv, Linked, DeviceTypeOK, Outstanding, device
  <1>5. (s = "NO_DEVICE" => ~attached) /\ s # "PERMISSION"
    BY <1>1, <1>2, MapIoReturn DEF MacBulk
  <1> QED
    BY <1>1, <1>2, <1>3, <1>4, <1>5, PhaseLinked, CodesAssumption

\* The clearing of a stalled data pipe.
LEMMA ClearStallLinked ==
  ASSUME StackInv, NEW r \in IOReturn, NEW s \in IoStatus,
         UsbAnswers(r, PipeReturns), MacClearStall(r, s),
         ClearStallReturns(s), UNCHANGED device
  PROVE  Linked'
  <1>1. pc = "clear_stall" /\ (r = "NoDevice" <=> ~attached)
        /\ r \notin {"PipeStalled", "NotPermitted", "ExclusiveAccess"}
    BY PhaseAnswers, PipeReturnsAssumption
       DEF ClearStallReturns, ActivePc, PhasePc
  <1>2. at' = "rest" /\ open' = open /\ reset_armed' = reset_armed
    BY DEF MacClearStall, mac
  <1>3. DeviceTypeOK' /\ attached' = attached /\ ~stale'
    BY <1>1 DEF StackInv, Linked, DeviceTypeOK, Outstanding, device
  <1>4. (s = "NO_DEVICE" => ~attached) /\ s \notin {"PERMISSION", "STALL"}
    BY <1>1, MapIoReturn DEF MacClearStall
  <1> QED
    BY <1>1, <1>2, <1>3, <1>4, PhaseLinked, NoSenseType, CodesAssumption
       DEF Size

\* A completion interrupt that could not be asked for.
LEMMA InterruptRefusedLinked ==
  ASSUME StackInv, InterruptRefused
  PROVE  Linked'
  <1>1. PICK r \in IOReturn, s \in IoStatus :
          /\ UsbAnswers(r, PipeReturns) /\ MacInterruptRefused(r, s)
          /\ InterruptReturns(s, FALSE, 0)
    BY DEF InterruptRefused
  <1>2. pc = "interrupt" /\ (r = "NoDevice" <=> ~attached)
        /\ r \notin {"PipeStalled", "NotPermitted", "ExclusiveAccess"}
    BY <1>1, PhaseAnswers, PipeReturnsAssumption
       DEF InterruptRefused, ActivePc, PhasePc
  <1>3. /\ at' = "rest" /\ open' = open /\ reset_armed' = reset_armed
        /\ UNCHANGED device
    BY <1>1 DEF InterruptRefused, MacInterruptRefused, mac
  <1>4. DeviceTypeOK' /\ attached' = attached
    BY <1>3 DEF StackInv, Linked, DeviceTypeOK, device
  <1>5. /\ s = "NO_DEVICE" => ~attached
        /\ s \notin {"PERMISSION", "STALL", "OK"}
    BY <1>1, <1>2, MapIoReturn DEF MacInterruptRefused
  <1> QED
    BY <1>1, <1>2, <1>3, <1>4, <1>5, PhaseLinked, NoSenseType,
       CodesAssumption DEF Size

\* The end of the wait for a completion interrupt.
LEMMA InterruptEndsLinked ==
  ASSUME StackInv, InterruptEnds
  PROVE  Linked'
  <1>1. PICK s \in IoStatus :
          /\ MacInterruptAborted(s) \/ MacInterruptCompleted(s)
          /\ InterruptReturns(s, outcome.exact, outcome.code)
    BY DEF InterruptEnds
  <1>2. /\ pc = "interrupt" /\ op = "interrupt"
        /\ outcome.exact \in BOOLEAN /\ outcome.code \in Codes
        /\ outcome.result \in IOReturn /\ abort_result \in IOReturn
    BY DEF InterruptEnds, StackInv, Linked, AtMatches, MacInv, MacTypeOK,
         Outcome
  <1>3. /\ at' = "rest" /\ open' = open /\ reset_armed' = reset_armed
        /\ attached' = attached /\ mine' = mine /\ stale' = stale
    BY <1>1 DEF InterruptEnds, MacInterruptAborted, MacInterruptCompleted,
         Done, flags
  <1>4. DeviceTypeOK'
    BY <1>3 DEF InterruptEnds, StackInv, Linked, DeviceTypeOK
  <1>5. CASE MacInterruptAborted(s)
    <2>1. desynchronized'
      BY <1>2, <1>5 DEF MacInterruptAborted, flags, StackInv, Linked, AtMatches
    <2>2. s # "OK"
      BY <1>2, <1>5, MapIoReturn DEF MacInterruptAborted
    <2> QED
      BY <1>1, <1>2, <1>3, <1>4, <2>1, <2>2, PhaseLinked, NoSenseType
         DEF Size
  <1>6. CASE MacInterruptCompleted(s)
    <2>1. s \in {"NO_DEVICE", "PERMISSION", "STALL"} => desynchronized'
      BY <1>6 DEF MacInterruptCompleted
    <2>2. s = "OK" => ~mine' /\ ~stale' /\ ~interrupt_request'
      <3>1. s = "OK" => outcome.result = "Success"
        BY <1>2, <1>6, MapIoReturn DEF MacInterruptCompleted
      <3> QED
        BY <1>3, <1>6, <3>1 DEF MacInterruptCompleted, Release, StackInv,
           Linked, Outstanding
    <2> QED
      BY <1>1, <1>2, <1>3, <1>4, <2>1, <2>2, PhaseLinked, NoSenseType
         DEF Size
  <1> QED
    BY <1>1, <1>5, <1>6
-----------------------------------------------------------------------------
(* The waits of the adapter, the callback and the unplugging. *)

\* A wait begins, goes on or is unplugged: the engine stays where it is.
LEMMA WaitLinked ==
  ASSUME StackInv,
         \/ InterruptSubmit \/ InterruptTimesOut \/ Abort \/ Drained
         \/ PrepareBegins \/ CloseBegins \/ Unplug
  PROVE  Linked'
  <1> USE DEF StackInv, Linked
  <1>1. UNCHANGED <<vars, mine, stale, delivered>>
    BY DEF InterruptSubmit, InterruptTimesOut, Abort, Drained, PrepareBegins,
         CloseBegins, Unplug, device
  <1>2. /\ attached' \in BOOLEAN /\ (attached' => attached)
        /\ open' = open /\ reset_armed' = reset_armed
        /\ desynchronized => desynchronized'
    <2>1. attached' = attached \/ attached' = FALSE
      BY DEF InterruptSubmit, InterruptTimesOut, Abort, Drained,
           PrepareBegins, CloseBegins, Unplug, device
    <2>2. \/ UNCHANGED flags
          \/ UNCHANGED <<open, reset_armed>> /\ desynchronized' = TRUE
      BY DEF InterruptSubmit, InterruptTimesOut, Abort, Drained,
           PrepareBegins, CloseBegins, Unplug, mac, flags, MacInterruptSubmit,
           MacInterruptTimesOut, AbortPipe, DrainEnds, MacPrepareBegin,
           MacCloseBegin
    <2>0. attached \in BOOLEAN
      BY DEF DeviceTypeOK
    <2>3. attached' \in BOOLEAN /\ (attached' => attached)
      <3>1. CASE attached' = attached
        BY <2>0, <3>1
      <3>2. CASE attached' = FALSE
        BY <3>2
      <3> QED
        BY <2>1, <3>1, <3>2
    <2>4. open' = open /\ reset_armed' = reset_armed
      BY <2>2 DEF flags
    <2>5. desynchronized => desynchronized'
      BY <2>2 DEF flags
    <2> QED
      BY <2>3, <2>4, <2>5
  <1>3. DeviceTypeOK'
    BY <1>1, <1>2 DEF DeviceTypeOK
  <1>4. ArmedOnlyDuringReset'
    BY <1>1, <1>2 DEF ArmedOnlyDuringReset, vars
  <1>5. OpenMatches'
    BY <1>1, <1>2 DEF OpenMatches, vars
  <1>6. AtMatches'
    <2>1. CASE InterruptSubmit
      BY <2>1, <1>1 DEF InterruptSubmit, MacInterruptSubmit, AtMatches, vars
    <2>2. CASE InterruptTimesOut
      BY <2>2, <1>1 DEF InterruptTimesOut, MacInterruptTimesOut, BeginAbort,
           AtMatches, vars
    <2>3. CASE Abort \/ Drained
      BY <2>3, <1>1, <1>2 DEF Abort, Drained, AbortPipe, DrainEnds, AtMatches,
           vars
    <2>4. CASE PrepareBegins \/ CloseBegins
      BY <2>4, <1>1 DEF PrepareBegins, CloseBegins, MacPrepareBegin,
           MacCloseBegin, BeginAbort, AtMatches, vars
    <2>5. CASE Unplug
      BY <2>5, <1>1 DEF Unplug, mac, AtMatches, vars
    <2> QED
      BY <2>1, <2>2, <2>3, <2>4, <2>5
  <1>7. /\ interrupt_request' = interrupt_request \/ pc = "interrupt"
        /\ complete' /\ at' = "wait" =>
             at = "wait" /\ complete /\ outcome' = outcome
    <2>1. CASE InterruptSubmit
      BY <2>1 DEF InterruptSubmit, MacInterruptSubmit
    <2>2. CASE \/ InterruptTimesOut \/ Abort \/ Drained \/ PrepareBegins
               \/ CloseBegins
      <3>1. UNCHANGED request
        BY <2>2 DEF InterruptTimesOut, Abort, Drained, PrepareBegins,
             CloseBegins, MacInterruptTimesOut, AbortPipe, DrainEnds,
             MacPrepareBegin, MacCloseBegin
      <3>2. at' # "wait"
        BY <2>2 DEF InterruptTimesOut, Abort, Drained, PrepareBegins,
             CloseBegins, MacInterruptTimesOut, AbortPipe, DrainEnds,
             MacPrepareBegin, MacCloseBegin, BeginAbort
      <3> QED
        BY <3>1, <3>2 DEF request
    <2>3. CASE Unplug
      BY <2>3 DEF Unplug, mac
    <2> QED
      BY <2>1, <2>2, <2>3
  <1>8. GateIsQuiet'
    BY <1>1, <1>2, <1>7 DEF GateIsQuiet, vars
  <1>9. Outstanding'
    BY <1>1, <1>2, <1>7 DEF Outstanding, Quiet, vars
  <1> QED
    BY <1>3, <1>4, <1>5, <1>6, <1>8, <1>9

\* The kernel's callback, in either wait.
LEMMA CallbackLinked ==
  ASSUME StackInv, Callback
  PROVE  Linked'
  <1> USE DEF StackInv, Linked
  <1>1. PICK o \in Outcome :
          /\ InterruptCallback(o)
          /\ IF o.result = "Success"
             THEN attached /\ DriveCompletes
             ELSE UsbAnswers(o.result, PhaseReturns) /\ UNCHANGED device
    BY DEF Callback
  <1>2. /\ UNCHANGED <<vars, flags, control, interrupt_request, attached>>
        /\ outcome' = o /\ at \in {"wait", "drain"}
    BY <1>1 DEF Callback, InterruptCallback, DriveCompletes, device
  <1>3. pc \in {"interrupt", "prepare", "close", "destroy_close"}
        /\ (at = "wait" => pc = "interrupt")
    BY <1>2 DEF AtMatches
  <1>4. DeviceTypeOK'
    BY <1>1 DEF DeviceTypeOK, DriveCompletes, device
  <1>5. ArmedOnlyDuringReset' /\ OpenMatches' /\ AtMatches'
    BY <1>2 DEF ArmedOnlyDuringReset, OpenMatches, AtMatches, vars, flags,
         control
  <1>6. GateIsQuiet'
    BY <1>2, <1>3 DEF GateIsQuiet, vars
  <1>7. Outstanding'
    <2>1. pc = "interrupt" => ~stale
      BY DEF Outstanding
    <2>2. pc' = pc /\ at' = at
      BY <1>2 DEF vars, control
    <2>3. pc' = "interrupt" => ~stale'
      BY <1>1, <2>1, <2>2 DEF DriveCompletes, device
    <2>4. at' = "wait" /\ outcome'.result = "Success"
            => ~mine' /\ ~stale' /\ delivered' = "own"
      BY <1>1, <1>2, <1>3, <2>1, <2>2 DEF DriveCompletes
    <2> QED
      BY <1>3, <2>2, <2>3, <2>4 DEF Outstanding
  <1> QED
    BY <1>4, <1>5, <1>6, <1>7
-----------------------------------------------------------------------------
(* The recovery sequence around the reset block. *)

\* prepare arms the reset exactly when it reports OK.
LEMMA PrepareEndsLinked ==
  ASSUME StackInv, PrepareEnds
  PROVE  Linked'
  <1> USE DEF StackInv, Linked
  <1>1. PICK r \in IOReturn, s \in IoStatus :
          MacPrepareEnd(r, s) /\ PrepareReturns(s)
    BY DEF PrepareEnds
  <1>2. /\ pc = "prepare" /\ open /\ opened /\ ~reset_armed
        /\ recovery_required
    BY DEF PrepareEnds, OpenMatches, ActivePc, ArmedOnlyDuringReset, PhasePc,
         IInv, RecoveryInProgress
  <1>3. at' = "rest" /\ open' /\ UNCHANGED device
    BY <1>1, <1>2 DEF PrepareEnds, MacPrepareEnd, Done
  <1>4. reset_armed' <=> s = "OK"
    <2>1. abort_result \in IOReturn
      BY DEF MacInv, MacTypeOK
    <2>2. CASE abort_result # "Success"
      <3>1. reset_armed' = reset_armed /\ s = map_io_return(abort_result)
        BY <1>1, <2>2 DEF MacPrepareEnd
      <3> QED
        BY <1>2, <2>1, <2>2, <3>1, MapIoReturn
    <2>3. CASE abort_result = "Success"
      <3>1. reset_armed' = (r = "Success") /\ s = map_io_return(r)
        BY <1>1, <2>3 DEF MacPrepareEnd
      <3> QED
        BY <3>1, MapIoReturn
    <2> QED
      BY <2>2, <2>3
  <1>5. map_io_status(s) \in TransportStatus
    BY MapIoStatus
  <1>6. /\ opened' /\ recovery_required'
        /\ \/ pc' = "idle" /\ result'.call = "execute" /\ s # "OK"
           \/ pc' = "adsc" /\ job' = "reset" /\ s = "OK"
    <2>1. CASE s # "OK"
      <3>1. Return(Bare("execute", map_io_status(s)), recovery_required)
        BY <1>1, <2>1 DEF PrepareReturns
      <3>2. Bare("execute", map_io_status(s)).call = "execute"
        BY <1>5, BareType
      <3> QED
        BY <1>2, <2>1, <3>1, <3>2 DEF Return
    <2>2. CASE s = "OK"
      BY <1>1, <1>2, <2>2 DEF PrepareReturns, EnterExchange
    <2> QED
      BY <2>1, <2>2
  <1>7. DeviceTypeOK' /\ AtMatches'
    BY <1>3 DEF DeviceTypeOK, AtMatches, device
  <1>8. ArmedOnlyDuringReset' /\ OpenMatches'
    BY <1>3, <1>4, <1>6 DEF ArmedOnlyDuringReset, OpenMatches, ActivePc,
         PhasePc
  <1>9. GateIsQuiet' /\ Outstanding'
    BY <1>3, <1>6 DEF GateIsQuiet, Outstanding
  <1> QED
    BY <1>7, <1>8, <1>9

\* The two pipe clears after a completed reset block.
LEMMA ClearPipesLinked ==
  ASSUME StackInv, NEW s \in IoStatus, ClearInReturns(s) \/ ClearOutReturns(s),
         UNCHANGED <<mac, device>>
  PROVE  Linked'
  <1> USE DEF StackInv, Linked
  <1>1. /\ pc \in {"clear_in", "clear_out"} /\ pc' \in {"clear_out", "finish"}
        /\ UNCHANGED <<opened, recovery_required, job, result>>
    BY DEF ClearInReturns, ClearOutReturns
  <1>2. DeviceTypeOK' /\ AtMatches'
    BY <1>1 DEF DeviceTypeOK, AtMatches, device, mac
  <1>3. ArmedOnlyDuringReset' /\ OpenMatches'
    BY <1>1 DEF ArmedOnlyDuringReset, OpenMatches, ActivePc, PhasePc, mac
  <1>4. GateIsQuiet' /\ Outstanding'
    BY <1>1 DEF GateIsQuiet, Outstanding, Quiet, AtMatches, mac, device
  <1> QED
    BY <1>2, <1>3, <1>4

\* finish consumes the permission; the recovered engine starts the command
\* with nothing owed.
LEMMA FinishLinked ==
  ASSUME StackInv, Finish
  PROVE  Linked'
  <1> USE DEF StackInv, Linked
  <1>1. PICK s \in IoStatus : MacFinish(recovered, s) /\ FinishReturns(s)
    BY DEF Finish
  <1>2. pc = "finish" /\ open /\ opened /\ recovery_required
    BY DEF Finish, OpenMatches, ActivePc, IInv, RecoveryInProgress
  <1>3. /\ at = "rest" /\ at' = "rest" /\ open' /\ reset_armed' = FALSE
        /\ interrupt_request' = interrupt_request /\ UNCHANGED device
    BY <1>1, <1>2 DEF Finish, MacFinish, control, request
  <1> DEFINE failure == IF recovered THEN s ELSE first_failure
  <1>4. map_io_status(failure) \in TransportStatus
    BY MapIoStatus DEF IInv, TypeOK
  <1>5. /\ opened'
        /\ \/ pc' = "idle" /\ result'.call = "execute" /\ recovery_required'
           \/ pc' = "adsc" /\ job' = "command" /\ first_failure = "OK"
    <2>1. CASE failure # "OK"
      <3>1. Return(Bare("execute", map_io_status(failure)), recovery_required)
        BY <1>1, <2>1 DEF FinishReturns
      <3>2. Bare("execute", map_io_status(failure)).call = "execute"
        BY <1>4, BareType
      <3> HIDE DEF failure
      <3> QED
        BY <1>2, <2>1, <3>1, <3>2 DEF Return
    <2>2. CASE failure = "OK"
      BY <1>1, <1>2, <2>2 DEF FinishReturns, EnterExchange, recovered
    <2> QED
      BY <2>1, <2>2
  <1>6. DeviceTypeOK' /\ AtMatches'
    BY <1>3 DEF DeviceTypeOK, AtMatches, device
  <1>7. ArmedOnlyDuringReset' /\ OpenMatches'
    BY <1>3, <1>5 DEF ArmedOnlyDuringReset, OpenMatches, ActivePc, PhasePc
  <1>8. GateIsQuiet'
    BY <1>2, <1>3, <1>5 DEF GateIsQuiet, Outstanding, Quiet, device
  <1>9. Outstanding'
    BY <1>3, <1>5 DEF Outstanding
  <1> QED
    BY <1>6, <1>7, <1>8, <1>9
-----------------------------------------------------------------------------
(* Seizing, closing, and the calls of the workflow. *)

\* The engine counts the interface as opened exactly when the adapter does.
LEMMA OpenLinked ==
  ASSUME StackInv, Open
  PROVE  Linked'
  <1> USE DEF StackInv, Linked
  <1>1. PICK r \in IOReturn, e \in IOReturn, root \in BOOLEAN, s \in IoStatus :
          MacOpenSeize(r, root, e, s) /\ OpenReturns(s)
    BY DEF Open
  <1>2. pc = "open_seize" /\ ~open /\ ~opened /\ Quiet /\ ~reset_armed
    BY DEF Open, OpenMatches, Outstanding, ArmedOnlyDuringReset, PhasePc
  <1>3. at' = "rest" /\ UNCHANGED device
    BY <1>1 DEF Open, MacOpenSeize, control
  <1>4. (open' <=> s = "OK") /\ ~reset_armed'
    <2>1. CASE r # "Success"
      <3>1. /\ UNCHANGED flags
            /\ s = IF r = "ExclusiveAccess" /\ root THEN "ERROR"
                   ELSE map_io_return(r)
        BY <1>1, <1>2, <2>1 DEF MacOpenSeize
      <3>2. s # "OK"
        BY <2>1, <3>1, MapIoReturn
      <3> QED
        BY <1>2, <3>1, <3>2 DEF flags
    <2>2. CASE r = "Success"
      <3>1. /\ open' = (e = "Success") /\ reset_armed' = FALSE
            /\ s = map_io_return(e)
        BY <1>1, <1>2, <2>2 DEF MacOpenSeize
      <3> QED
        BY <3>1, MapIoReturn
    <2> QED
      BY <2>1, <2>2
  <1>5. map_io_status(s) \in TransportStatus
    BY MapIoStatus
  <1>6. pc' = "idle" /\ (opened' <=> s = "OK") /\ result'.call = "acquire"
    BY <1>1, <1>5, BareType DEF OpenReturns
  <1>7. DeviceTypeOK' /\ AtMatches'
    BY <1>3 DEF DeviceTypeOK, AtMatches, device
  <1>8. ArmedOnlyDuringReset' /\ OpenMatches'
    BY <1>4, <1>6 DEF ArmedOnlyDuringReset, OpenMatches, ActivePc, PhasePc
  <1>9. GateIsQuiet' /\ Outstanding'
    BY <1>2, <1>3, <1>6 DEF GateIsQuiet, Outstanding, Quiet, device
  <1> QED
    BY <1>7, <1>8, <1>9

\* A close leaves the adapter closed, whatever it reports.
LEMMA CloseEndsLinked ==
  ASSUME StackInv, CloseEnds
  PROVE  Linked'
  <1> USE DEF StackInv, Linked
  <1>1. PICK r \in IOReturn, s \in IoStatus :
          /\ MacCloseEnd(r, s) \/ MacCloseNotOpen(s)
          /\ CloseReturns(s) \/ DestroyCloseReturns
    BY DEF CloseEnds
  <1>2. ~reset_armed
    BY DEF CloseEnds, ArmedOnlyDuringReset, PhasePc
  <1>3. at' = "rest" /\ ~open' /\ ~reset_armed' /\ UNCHANGED device
    BY <1>1, <1>2 DEF CloseEnds, MacCloseEnd, MacCloseNotOpen, mac, Done
  <1>4. map_io_status(s) \in TransportStatus
    BY MapIoStatus
  <1>5. \/ pc' = "idle" /\ result'.call = "release"
        \/ pc' = "destroyed" /\ ~opened'
    BY <1>1, <1>4, BareType DEF CloseReturns, DestroyCloseReturns
  <1>6. DeviceTypeOK' /\ AtMatches'
    BY <1>3 DEF DeviceTypeOK, AtMatches, device
  <1>7. ArmedOnlyDuringReset' /\ OpenMatches'
    BY <1>3, <1>5 DEF ArmedOnlyDuringReset, OpenMatches, ActivePc, PhasePc
  <1>8. GateIsQuiet' /\ Outstanding'
    BY <1>3, <1>5 DEF GateIsQuiet, Outstanding
  <1> QED
    BY <1>6, <1>7, <1>8

\* A call of the workflow begins between operations of the adapter.
LEMMA WorkflowLinked ==
  ASSUME StackInv, Workflow
  PROVE  Linked'
  <1> USE DEF StackInv, Linked
  <1>1. pc = "idle" /\ UNCHANGED <<mac, device>>
    BY DEF Workflow, AcquireCall, ReleaseCall, ExecuteCall, DestroyCall
  <1>2. at' = "rest" /\ ~reset_armed'
    BY <1>1 DEF AtMatches, ArmedOnlyDuringReset, PhasePc, mac
  <1>3. DeviceTypeOK' /\ AtMatches'
    BY <1>1, <1>2 DEF DeviceTypeOK, AtMatches, device
  <1>z. "OK" \in TransportStatus /\ "PROTOCOL" \in TransportStatus
    BY DEF TransportStatus
  <1>4. CASE result.call = "none" /\ AcquireCall
    <2>1. ~open /\ ~opened /\ Quiet
      BY <1>1, <1>4 DEF OpenMatches, Outstanding
    <2>2. pc' = "open_seize" /\ opened' = opened
      BY <1>4, <2>1 DEF AcquireCall
    <2>3. ArmedOnlyDuringReset' /\ OpenMatches'
      BY <1>1, <1>2, <2>1, <2>2 DEF ArmedOnlyDuringReset, OpenMatches, mac,
           ActivePc, PhasePc
    <2>4. GateIsQuiet' /\ Outstanding'
      BY <1>1, <1>2, <2>1, <2>2 DEF GateIsQuiet, Outstanding, Quiet, mac,
           device
    <2> QED
      BY <1>3, <2>3, <2>4
  <1>5. CASE opened /\ result.call \in {"acquire", "execute"} /\ ReleaseCall
    <2>1. pc' = "close" /\ open' /\ opened'
      BY <1>1, <1>5 DEF ReleaseCall, OpenMatches, mac
    <2> QED
      BY <1>2, <1>3, <2>1 DEF ArmedOnlyDuringReset, OpenMatches, ActivePc,
           PhasePc, GateIsQuiet, Outstanding
  <1>6. CASE /\ opened /\ result.call \in {"acquire", "execute"}
             /\ \E c \in Commands : ExecuteCall(c)
    <2>1. /\ open' /\ opened' /\ recovery_required' = recovery_required
          /\ \/ pc' = "idle" /\ result'.call = "execute"
             \/ pc' = "prepare"
             \/ pc' = "adsc" /\ job' = "command"
      BY <1>1, <1>6, <1>z, BareType DEF ExecuteCall, RecoveryNeeded,
           OpenMatches, mac
    <2>2. ArmedOnlyDuringReset' /\ OpenMatches'
      BY <1>2, <2>1 DEF ArmedOnlyDuringReset, OpenMatches, ActivePc, PhasePc
    <2>3. GateIsQuiet' /\ Outstanding'
      BY <1>1, <1>2, <2>1 DEF GateIsQuiet, Outstanding, mac, device
    <2> QED
      BY <1>3, <2>2, <2>3
  <1>7. CASE /\ result.call = "release" \/ (result.call = "acquire" /\ ~opened)
             /\ DestroyCall
    <2>1. /\ opened' = opened /\ open' = open /\ ~open
          /\ pc' = IF opened THEN "destroy_close" ELSE "destroyed"
      BY <1>1, <1>7 DEF DestroyCall, OpenMatches, mac
    <2> QED
      BY <1>2, <1>3, <2>1 DEF ArmedOnlyDuringReset, OpenMatches, ActivePc,
           PhasePc, GateIsQuiet, Outstanding
  <1> QED
    BY <1>4, <1>5, <1>6, <1>7 DEF Workflow
-----------------------------------------------------------------------------
(* The inductive invariant. *)

\* A fresh transport over an idle drive.
LEMMA StackInitInv == StackInit => StackInv
  <1> SUFFICES ASSUME StackInit PROVE StackInv
    OBVIOUS
  <1>1. IInv /\ MacInv
    BY InitInv, MacInitInv DEF StackInit
  <1>2. pc = "idle" /\ result.call = "none" /\ ~opened
    BY BareType DEF StackInit, Init, TransportStatus
  <1>3. ~open /\ ~reset_armed /\ ~interrupt_request /\ at = "rest"
    BY DEF StackInit, MacInit
  <1>4. DeviceTypeOK /\ ~mine /\ ~stale
    BY DEF StackInit, DeviceTypeOK
  <1>5. ArmedOnlyDuringReset /\ AtMatches
    BY <1>2, <1>3 DEF ArmedOnlyDuringReset, AtMatches, PhasePc
  <1>6. OpenMatches
    BY <1>2, <1>3 DEF OpenMatches, ActivePc, PhasePc
  <1>7. GateIsQuiet /\ Outstanding
    BY <1>2, <1>3, <1>4 DEF GateIsQuiet, Outstanding, Quiet
  <1> QED
    BY <1>1, <1>4, <1>5, <1>6, <1>7 DEF StackInv, Linked

\* Every step keeps the link between engine, adapter and drive.
LEMMA LinkedStep ==
  ASSUME StackInv, StackNext
  PROVE  Linked'
  <1>1. CASE ClearStall
    <2>1. PICK r \in IOReturn, s \in IoStatus :
            /\ UsbAnswers(r, PipeReturns) /\ MacClearStall(r, s)
            /\ ClearStallReturns(s) \/ ClearInReturns(s) \/ ClearOutReturns(s)
      BY <1>1 DEF ClearStall
    <2>2. UNCHANGED <<mac, device>>
      BY <1>1, <2>1 DEF ClearStall, MacClearStall
    <2> QED
      BY <2>1, <2>2, ClearStallLinked, ClearPipesLinked
  <1>2. CASE Open \/ CloseEnds \/ Workflow
    BY <1>2, OpenLinked, CloseEndsLinked, WorkflowLinked
  <1>3. CASE Adsc \/ Bulk \/ InterruptRefused \/ InterruptEnds
    BY <1>3, AdscLinked, BulkLinked, InterruptRefusedLinked,
       InterruptEndsLinked
  <1>4. CASE PrepareEnds \/ Finish
    BY <1>4, PrepareEndsLinked, FinishLinked
  <1>5. CASE Callback
    BY <1>5, CallbackLinked
  <1> QED
    BY <1>1, <1>2, <1>3, <1>4, <1>5, WaitLinked DEF StackNext, Transport

\* The components keep their invariants because every step of the stack is
\* one of theirs.
LEMMA StackNextInv == StackInv /\ [StackNext]_stackVars => StackInv'
  <1> SUFFICES ASSUME StackInv, [StackNext]_stackVars PROVE StackInv'
    OBVIOUS
  <1>1. IInv' /\ MacInv'
    BY StackStep, NextInv, MacNextInv DEF StackInv
  <1>2. CASE StackNext
    BY <1>1, <1>2, LinkedStep DEF StackInv
  <1>3. CASE UNCHANGED stackVars
    <2>1. UNCHANGED <<vars, mac, device>>
      BY <1>3 DEF stackVars
    <2>2. DeviceTypeOK' /\ ArmedOnlyDuringReset' /\ AtMatches'
      BY <2>1 DEF vars, mac, device, StackInv, Linked, DeviceTypeOK,
           ArmedOnlyDuringReset, AtMatches
    <2>3. OpenMatches'
      BY <2>1 DEF vars, mac, device, StackInv, Linked, OpenMatches
    <2>4. GateIsQuiet' /\ Outstanding'
      BY <2>1 DEF vars, mac, device, StackInv, Linked, GateIsQuiet,
           Outstanding, Quiet
    <2> QED
      BY <1>1, <2>2, <2>3, <2>4 DEF StackInv, Linked
  <1> QED
    BY <1>2, <1>3
-----------------------------------------------------------------------------
(* The theorems. *)

\* The inductive invariant of the stack.
THEOREM StackInvariant == StackSpec => []StackInv
  BY StackInitInv, StackNextInv, PTL DEF StackSpec

\* Composed, the engine and the adapter each behave as specified alone: the
\* adapter gives the engine no status that the open engine specification does
\* not allow, and the engine calls the adapter no other way than the open
\* adapter specification allows.
THEOREM StackRefines == StackSpec => Spec /\ MacSpec
  <1>1. StackInit => Init /\ MacInit
    BY DEF StackInit
  <1>2. StackInv /\ [StackNext]_stackVars => [Next]_vars /\ [MacNext]_mac
    BY StackStep
  <1> QED
    BY <1>1, <1>2, StackInvariant, PTL DEF StackSpec, Spec, MacSpec

\* What was proved of the engine and of the adapter alone therefore holds of
\* the transport that the program runs: the request is counted exactly and
\* kept while the kernel holds it, no command passes an unpaid reset, GOOD is
\* earned, and the transport contract is kept.
THEOREM StackInherits ==
  StackSpec => /\ []RefcountExact
               /\ PendingKeptUntilClose
               /\ DesyncClearedByReset
               /\ []RecoveryGatesCommands
               /\ DebtClearedOnlyByReset
               /\ GoodIsEarned
               /\ Contract!Spec
  BY StackRefines, Refcount, PendingKept, DesyncCleared, RecoveryGates,
     DebtCleared, GoodEarned, EngineRefinesTransport, PTL

\* A completion that an exchange takes is the one of its own command block,
\* in every order of timeouts, aborts, late callbacks and unplugging.
THEOREM CompletionIsOwn == StackSpec => []OwnCompletion
  <1>1. StackInv => OwnCompletion
    BY DEF StackInv, Linked, Outstanding, OwnCompletion
  <1> QED
    BY <1>1, StackInvariant, PTL

\* The adapter's one-shot reset permission lives from prepare to finish.
THEOREM ArmedDuringReset == StackSpec => []ArmedOnlyDuringReset
  <1>1. StackInv => ArmedOnlyDuringReset
    BY DEF StackInv, Linked
  <1> QED
    BY <1>1, StackInvariant, PTL

\* Destruction leaves the interface closed and the context without a request.
THEOREM DestroyLeavesNothing == StackSpec => []DestroyReleases
  <1>1. StackInv => DestroyReleases
    BY DEF StackInv, Linked, OpenMatches, MacInv, ClosedIsEmpty,
         DestroyReleases
  <1> QED
    BY <1>1, StackInvariant, PTL

\* The engine forgives the debt at finish only when the drive owes nothing,
\* no request is pending and the adapter's gate is open again.
THEOREM RecoveryIsReal == StackSpec => RecoveryResynchronises
  <1>1. StackInv /\ [StackNext]_stackVars =>
          [recovery_required /\ ~recovery_required' /\ pc = "finish" =>
             ~mine /\ ~stale /\ ~interrupt_request /\ ~desynchronized'
          ]_stackVars
    <2> SUFFICES ASSUME StackInv, StackNext, recovery_required,
                        ~recovery_required', pc = "finish"
                 PROVE  ~mine /\ ~stale /\ ~interrupt_request
                        /\ ~desynchronized'
      OBVIOUS
    <2>1. Finish
      BY DEF StackNext, Transport, Open, Adsc, Bulk, ClearStall,
           InterruptRefused, InterruptSubmit, InterruptTimesOut, Abort,
           Drained, InterruptEnds, PrepareBegins, PrepareEnds, CloseBegins,
           CloseEnds, Callback, Workflow, Unplug, AcquireCall, ReleaseCall,
           ExecuteCall, DestroyCall, ClearStallReturns, ClearInReturns,
           ClearOutReturns, vars
    <2>2. PICK s \in IoStatus : MacFinish(recovered, s) /\ FinishReturns(s)
      BY <2>1 DEF Finish
    <2>3. recovered
      BY <2>2 DEF FinishReturns, Return, recovered
    <2>4. ~mine /\ ~stale /\ ~interrupt_request
      BY <2>3 DEF recovered, StackInv, Linked, Outstanding, Quiet
    <2>5. reset_armed
      BY DEF StackInv, Linked, ArmedOnlyDuringReset
    <2>6. ~desynchronized'
      BY <2>2, <2>3, <2>5 DEF MacFinish
    <2> QED
      BY <2>4, <2>6
  <1> QED
    BY <1>1, StackInvariant, PTL DEF StackSpec, RecoveryResynchronises
=============================================================================
