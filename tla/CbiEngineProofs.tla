--------------------------- MODULE CbiEngineProofs ---------------------------
(***************************************************************************)
(* Proofs about CbiEngine, and of its place under the transport contract,  *)
(* for every set of commands, codes and keys.                              *)
(***************************************************************************)
EXTENDS CbiContract, TLAPS

\* The recovery sequence is under way exactly while the debt is unpaid, on
\* behalf of the reset job.
RecoveryInProgress ==
  pc \in {"prepare", "clear_in", "clear_out", "finish"} =>
    recovery_required /\ job = "reset"

\* The reset block has no data phase, and its exchange record stays zero all
\* the way to a finish without failure.
ResetStaysClean ==
  /\ job = "reset" => pc \notin {"data", "clear_stall"}
  /\ (\/ pc \in PhasePc /\ job = "reset"
      \/ pc \in {"clear_in", "clear_out"}
      \/ pc = "finish" /\ first_failure = "OK")
     => exchange["reset"] = ZeroExchange

\* Outside a call all frames are empty, so the next one starts clean.
FramesEmpty ==
  pc \in {"idle", "prepare", "open_seize", "close", "destroy_close"} =>
    exchange = NoExchanges

IInv ==
  /\ TypeOK
  /\ RecoveryGatesCommands
  /\ RecoveryInProgress
  /\ ResetStaysClean
  /\ FramesEmpty
  /\ ReportMatchesDebt
-----------------------------------------------------------------------------
(* Types of the values the actions build. *)

\* m65_ufi_sense of all zeros.
LEMMA NoSenseType == NoSense \in Sense
  BY CodesAssumption, KeysAssumption DEF NoSense, Sense

\* A CbiExchange of all zeros.
LEMMA ZeroExchangeType == ZeroExchange \in Exchange
  BY NoSenseType, CodesAssumption DEF ZeroExchange, Exchange, Size

\* The records between two calls.
LEMMA NoExchangesType == NoExchanges \in [Jobs -> Exchange]
  BY ZeroExchangeType DEF NoExchanges

\* map_io_status is total, and reports TIMEOUT, IO and OK for one status each.
LEMMA MapIoStatus ==
  ASSUME NEW s \in IoStatus
  PROVE  /\ map_io_status(s) \in TransportStatus
         /\ map_io_status(s) \in {"TIMEOUT", "IO"} => s \in {"TIMEOUT", "ERROR"}
         /\ map_io_status(s) = "OK" => s = "OK"
  BY DEF map_io_status, IoStatus, TransportStatus

\* What set_result and a cleared result make is a Result.
LEMMA BareType ==
  ASSUME NEW call \in {"none", "acquire", "execute", "release"},
         NEW ts \in TransportStatus
  PROVE  /\ Bare(call, ts) \in Result
         /\ Bare(call, ts).call = call
         /\ Bare(call, ts).transport_status = ts
         /\ ZeroResult(call) \in Result
         /\ ZeroResult(call).call = call
         /\ ZeroResult(call).transport_status = "OK"
  BY NoSenseType DEF Bare, ZeroResult, Result, TransportStatus, Size

\* Returning from execute preserves the invariant when the result is typed
\* and its status agrees with the debt that is left.
LEMMA ReturnInv ==
  ASSUME IInv, NEW r \in Result, NEW rr \in BOOLEAN,
         r.call = "execute" =>
           /\ r.transport_status \in {"TIMEOUT", "IO"} => rr
           /\ r.transport_status = "OK" => ~rr,
         Return(r, rr)
  PROVE  IInv'
  <1> USE DEF Return
  <1>1. TypeOK'
    BY NoExchangesType DEF IInv, TypeOK, Pc, PhasePc, IoStatus
  <1>2. RecoveryGatesCommands'
    BY DEF RecoveryGatesCommands, PhasePc
  <1>3. RecoveryInProgress'
    BY DEF RecoveryInProgress
  <1>4. ResetStaysClean'
    BY DEF ResetStaysClean, PhasePc
  <1>5. FramesEmpty'
    BY DEF FramesEmpty
  <1>6. ReportMatchesDebt'
    BY DEF ReportMatchesDebt
  <1> QED
    BY <1>1, <1>2, <1>3, <1>4, <1>5, <1>6 DEF IInv

\* Replacing one field of a typed result leaves it typed and the other fields
\* alone.
LEMMA WithTransferred ==
  ASSUME NEW r \in Result, NEW n \in Size
  PROVE  /\ [r EXCEPT !.transferred = n] \in Result
         /\ [r EXCEPT !.transferred = n].call = r.call
         /\ [r EXCEPT !.transferred = n].transport_status = r.transport_status
  BY DEF Result

\* The same for the sense data.
LEMMA WithSense ==
  ASSUME NEW r \in Result, NEW d \in Sense
  PROVE  /\ [r EXCEPT !.sense = d] \in Result
         /\ [r EXCEPT !.sense = d].call = r.call
         /\ [r EXCEPT !.sense = d].transport_status = r.transport_status
  BY DEF Result

\* The same for the transport status.
LEMMA WithStatus ==
  ASSUME NEW r \in Result, NEW ts \in TransportStatus
  PROVE  /\ [r EXCEPT !.transport_status = ts] \in Result
         /\ [r EXCEPT !.transport_status = ts].call = r.call
         /\ [r EXCEPT !.transport_status = ts].transport_status = ts
  BY DEF Result

\* The same for the sense data and the SCSI status together.
LEMMA WithVerdict ==
  ASSUME NEW r \in Result, NEW d \in Sense,
         NEW sc \in {"GOOD", "CHECK_CONDITION"}
  PROVE  /\ [r EXCEPT !.sense = d, !.scsi_status = sc] \in Result
         /\ [r EXCEPT !.sense = d, !.scsi_status = sc].call = r.call
         /\ [r EXCEPT !.sense = d, !.scsi_status = sc].transport_status
              = r.transport_status
  BY DEF Result

\* Entering run_exchange for job j preserves the invariant when the job and
\* the debt match.
LEMMA EnterInv ==
  ASSUME IInv, NEW j \in Jobs, NEW xs \in [Jobs -> Exchange],
         EnterExchange(j, xs),
         recovery_required' \in BOOLEAN,
         recovery_required' <=> j = "reset",
         first_failure' \in IoStatus
  PROVE  IInv'
  <1> USE DEF EnterExchange
  <1>1. TypeOK'
    BY ZeroExchangeType DEF IInv, TypeOK, Pc, PhasePc
  <1>2. RecoveryGatesCommands'
    BY DEF RecoveryGatesCommands
  <1>3. RecoveryInProgress'
    BY DEF RecoveryInProgress
  <1>4. ResetStaysClean'
    BY DEF ResetStaysClean, PhasePc, Jobs
  <1>5. FramesEmpty' /\ ReportMatchesDebt'
    BY DEF FramesEmpty, ReportMatchesDebt
  <1> QED
    BY <1>1, <1>2, <1>3, <1>4, <1>5 DEF IInv

\* The four callers of run_exchange, for a status s, an exchange x and a debt
\* rr that run_exchange can hand them.
LEMMA ExchangeReturnsInv ==
  ASSUME IInv, pc \in PhasePc,
         NEW s \in IoStatus, NEW x \in Exchange, NEW rr \in BOOLEAN,
         recovery_required => rr,
         io_status_loses_phase(s) => rr,
         s = "OK" => rr = recovery_required,
         job = "reset" /\ ~x.adsc_stalled /\ ~x.data_stalled
           /\ x.completion = 0 /\ s = "OK" => x = ZeroExchange,
         RunExchangeReturns(s, x, rr)
  PROVE  IInv'
  <1>0. /\ job = "reset" <=> recovery_required
        /\ x.transferred \in Size /\ x.sense \in Sense
        /\ exchange \in [Jobs -> Exchange]
        /\ exchange["command"].transferred \in Size
    BY DEF IInv, RecoveryGatesCommands, TypeOK, Exchange, Jobs
  <1>m. /\ map_io_status(s) \in TransportStatus
        /\ map_io_status(s) \in {"TIMEOUT", "IO"} => rr
        /\ map_io_status(s) = "OK" => s = "OK"
    BY MapIoStatus DEF io_status_loses_phase
  <1>1. CASE ResetExchanged(s, x, rr)
    <2> DEFINE failure == CASE s # "OK" -> s
                   [] s = "OK" /\ (x.adsc_stalled \/ x.data_stalled
                                   \/ x.completion # 0) -> "PROTOCOL"
                   [] OTHER -> "OK"
    <2>1. failure \in IoStatus
      BY DEF IoStatus
    <2>2. failure = "OK" => x = ZeroExchange
      BY <1>1 DEF ResetExchanged
    <2>3. /\ job = "reset" /\ job' = "reset" /\ rr
          /\ first_failure' = failure
          /\ pc' = IF failure = "OK" THEN "clear_in" ELSE "finish"
          /\ exchange' = [exchange EXCEPT !["reset"] = x]
          /\ recovery_required' = rr
          /\ UNCHANGED <<opened, job, cmd, result>>
      BY <1>1, <1>0 DEF ResetExchanged
    <2> HIDE DEF failure
    <2>4. TypeOK'
      BY <2>1, <2>3 DEF IInv, TypeOK, Pc, Jobs
    <2>5. RecoveryGatesCommands' /\ RecoveryInProgress'
      BY <2>3 DEF RecoveryGatesCommands, RecoveryInProgress, PhasePc
    <2>6. ResetStaysClean'
      BY <2>2, <2>3, <1>0 DEF ResetStaysClean, PhasePc, Jobs
    <2>7. FramesEmpty' /\ ReportMatchesDebt'
      BY <2>3 DEF FramesEmpty, ReportMatchesDebt
    <2> QED
      BY <2>4, <2>5, <2>6, <2>7 DEF IInv
  <1>2. CASE RequestSenseExchanged(s, x, rr)
    <2> DEFINE b == Bare("execute", map_io_status(s))
               r == [b EXCEPT !.transferred = x.transferred]
               q == [r EXCEPT !.transport_status = "PROTOCOL"]
               g == [r EXCEPT !.sense = x.sense]
    <2>1. b \in Result /\ b.transport_status = map_io_status(s)
      BY <1>m, BareType
    <2> HIDE DEF b
    <2>2. r \in Result /\ r.transport_status = map_io_status(s)
      BY <2>1, <1>0, WithTransferred
    <2> HIDE DEF r
    <2>3. /\ q \in Result /\ q.transport_status = "PROTOCOL"
          /\ g \in Result /\ g.transport_status = map_io_status(s)
      BY <2>2, <1>0, WithStatus, WithSense DEF TransportStatus
    <2> HIDE DEF q, g
    <2>4. CASE s # "OK" /\ Return(r, rr)
      BY <2>4, <2>2, <1>m, ReturnInv
    <2>5. CASE s = "OK" /\ Return(g, rr)
      <3>1. ~rr
        BY <2>5, <1>2, <1>0 DEF RequestSenseExchanged
      <3>2. map_io_status(s) \notin {"TIMEOUT", "IO"}
        BY <3>1, <1>m
      <3> QED
        BY <3>1, <3>2, <2>5, <2>3, ReturnInv
    <2>6. CASE Return(q, TRUE)
      BY <2>6, <2>3, ReturnInv
    <2> QED
      BY <1>2, <2>4, <2>5, <2>6 DEF RequestSenseExchanged, b, r, q, g
  <1>3. CASE CommandExchanged(s, x, rr)
    <2> DEFINE b == Bare("execute", map_io_status(s))
               r == [b EXCEPT !.transferred = x.transferred]
    <2>1. b \in Result /\ b.transport_status = map_io_status(s)
      BY <1>m, BareType
    <2> HIDE DEF b
    <2>2. r \in Result /\ r.transport_status = map_io_status(s)
      BY <2>1, <1>0, WithTransferred
    <2> HIDE DEF r
    <2>3. CASE s # "OK" /\ Return(r, rr)
      BY <2>3, <2>2, <1>m, ReturnInv
    <2>4. CASE /\ s = "OK"
               /\ EnterExchange("sense", [exchange EXCEPT !["command"] = x])
               /\ recovery_required' = rr
               /\ UNCHANGED first_failure
      <3>1. ~rr /\ first_failure \in IoStatus
        BY <2>4, <1>3, <1>0 DEF CommandExchanged, IInv, TypeOK
      <3>2. [exchange EXCEPT !["command"] = x] \in [Jobs -> Exchange]
        BY <1>0
      <3> QED
        BY <3>1, <3>2, <2>4, EnterInv DEF Jobs
    <2> QED
      BY <1>3, <2>3, <2>4 DEF CommandExchanged, b, r
  <1>4. CASE SenseExchanged(s, x, rr)
    <2> DEFINE c == exchange["command"]
               z == ZeroResult("execute")
               r == [z EXCEPT !.transferred = c.transferred]
               f == [r EXCEPT !.transport_status = map_io_status(s)]
               q == [r EXCEPT !.transport_status = "PROTOCOL"]
               d == [r EXCEPT !.sense = x.sense]
               e == [d EXCEPT !.transport_status = "PROTOCOL"]
               g == [r EXCEPT !.sense = x.sense,
                              !.scsi_status = scsi_status(c, x.sense)]
    <2>0. ~recovery_required
      BY <1>4, <1>0 DEF SenseExchanged
    <2>1. z \in Result /\ z.transport_status = "OK"
      BY BareType DEF TransportStatus
    <2> HIDE DEF z
    <2>2. r \in Result /\ r.transport_status = "OK"
      BY <2>1, <1>0, WithTransferred
    <2> HIDE DEF r
    <2>3. scsi_status(c, x.sense) \in {"GOOD", "CHECK_CONDITION"}
      BY DEF scsi_status
    <2>a. f \in Result /\ f.transport_status = map_io_status(s)
      BY <2>2, <1>m, WithStatus
    <2>b. q \in Result /\ q.transport_status = "PROTOCOL"
      BY <2>2, WithStatus DEF TransportStatus
    <2>d. d \in Result
      BY <2>2, <1>0, WithSense
    <2>g. g \in Result /\ g.transport_status = "OK"
      BY <2>2, <2>3, <1>0, WithVerdict
    <2> HIDE DEF d
    <2>5. e \in Result /\ e.transport_status = "PROTOCOL"
      BY <2>d, WithStatus DEF TransportStatus
    <2> HIDE DEF f, q, e, g
    <2>6. CASE s # "OK" /\ Return(f, rr)
      BY <2>6, <2>a, <1>m, ReturnInv
    <2>7. CASE Return(q, TRUE) \/ Return(e, TRUE)
      BY <2>7, <2>b, <2>5, ReturnInv
    <2>8. CASE s = "OK" /\ Return(g, rr)
      BY <2>8, <2>0, <2>g, ReturnInv
    <2> QED
      BY <1>4, <2>6, <2>7, <2>8 DEF SenseExchanged, z, r, f, q, d, e, g
  <1> QED
    BY <1>1, <1>2, <1>3, <1>4 DEF RunExchangeReturns

\* Going on to another phase of the exchange preserves the invariant; the
\* reset block's exchange goes nowhere but to its interrupt.
LEMMA NextPhaseInv ==
  ASSUME IInv, pc \in PhasePc, NEW p \in PhasePc, NEW x \in Exchange,
         job = "reset" => p \notin {"data", "clear_stall"}
                          /\ x = exchange["reset"],
         NextPhase(p, x)
  PROVE  IInv'
  <1> USE DEF NextPhase
  <1>1. TypeOK'
    BY DEF IInv, TypeOK, Pc
  <1>2. RecoveryGatesCommands'
    BY DEF IInv, RecoveryGatesCommands
  <1>3. RecoveryInProgress' /\ FramesEmpty' /\ ReportMatchesDebt'
    BY DEF RecoveryInProgress, FramesEmpty, ReportMatchesDebt, PhasePc
  <1>4. ResetStaysClean'
    <2>1. exchange'["reset"] = exchange["reset"]
      BY DEF IInv, TypeOK, Jobs
    <2> QED
      BY <2>1 DEF IInv, ResetStaysClean, PhasePc
  <1> QED
    BY <1>1, <1>2, <1>3, <1>4 DEF IInv

\* A phase that fails with s leaves a debt when s loses the phase.
LEMMA PhaseIoFailureInv ==
  ASSUME IInv, pc \in PhasePc, NEW s \in IoStatus, s # "OK",
         NEW x \in Exchange, PhaseIoFailure(s, x)
  PROVE  IInv'
  <1>1. recovery_required \in BOOLEAN
    BY DEF IInv, TypeOK
  <1>2. (recovery_required \/ io_status_loses_phase(s)) \in BOOLEAN
    BY <1>1 DEF io_status_loses_phase
  <1> QED
    BY <1>1, <1>2, ExchangeReturnsInv DEF PhaseIoFailure
-----------------------------------------------------------------------------
(* Each adapter call that returns inside run_exchange. *)

\* The exchange of the current job, and what a phase does to it, is typed.
LEMMA ExchangeFields ==
  ASSUME IInv
  PROVE  /\ job \in Jobs /\ exchange[job] \in Exchange
         /\ [exchange[job] EXCEPT !.adsc_stalled = TRUE] \in Exchange
         /\ \A n \in Size, d \in Sense :
              /\ [exchange[job] EXCEPT !.transferred = n, !.sense = d]
                   \in Exchange
              /\ [[exchange[job] EXCEPT !.transferred = n, !.sense = d]
                    EXCEPT !.data_stalled = TRUE] \in Exchange
         /\ \A k \in Codes :
              [exchange[job] EXCEPT !.completion = k] \in Exchange
  <1>1. job \in Jobs /\ exchange[job] \in Exchange
    BY DEF IInv, TypeOK
  <1> QED
    BY <1>1 DEF Exchange

\* The ADSC phase of run_exchange.
LEMMA AdscInv ==
  ASSUME IInv, NEW s \in IoStatus, AdscReturns(s)
  PROVE  IInv'
  <1> DEFINE x == exchange[job]
             y == [x EXCEPT !.adsc_stalled = TRUE]
             p == IF direction = "NONE" THEN "interrupt" ELSE "data"
  <1>1. /\ pc \in PhasePc /\ x \in Exchange /\ y \in Exchange
        /\ recovery_required \in BOOLEAN
    BY ExchangeFields DEF AdscReturns, PhasePc, IInv, TypeOK
  <1>2. y.adsc_stalled
    BY <1>1 DEF Exchange
  <1>3. p \in PhasePc /\ (job = "reset" => p = "interrupt")
    BY DEF PhasePc, direction
  <1>4. job = "reset" => x = exchange["reset"]
    OBVIOUS
  <1> HIDE DEF x, y, p
  <1>5. CASE s = "STALL" /\ RunExchangeReturns("OK", y, recovery_required)
    BY <1>5, <1>1, <1>2, ExchangeReturnsInv
       DEF IoStatus, io_status_loses_phase
  <1>6. CASE s \notin {"OK", "STALL"} /\ PhaseIoFailure(s, x)
    BY <1>6, <1>1, PhaseIoFailureInv
  <1>7. CASE s = "OK" /\ NextPhase(p, x)
    BY <1>7, <1>1, <1>3, <1>4, NextPhaseInv
  <1> QED
    BY <1>5, <1>6, <1>7 DEF AdscReturns, x, y, p

\* The data phase; the reset block never has one.
LEMMA BulkInv ==
  ASSUME IInv, NEW s \in IoStatus, NEW n \in Size, NEW d \in Sense,
         BulkReturns(s, n, d)
  PROVE  IInv'
  <1> DEFINE x == [exchange[job] EXCEPT !.transferred = n, !.sense = d]
             y == [x EXCEPT !.data_stalled = TRUE]
  <1>1. /\ pc \in PhasePc /\ x \in Exchange /\ y \in Exchange
        /\ recovery_required \in BOOLEAN
        /\ job # "reset"
    BY ExchangeFields
       DEF BulkReturns, PhasePc, IInv, TypeOK, ResetStaysClean
  <1> HIDE DEF x, y
  <1>2. CASE s = "STALL" /\ NextPhase("clear_stall", y)
    BY <1>2, <1>1, NextPhaseInv DEF PhasePc
  <1>3. CASE s \notin {"OK", "STALL"} /\ PhaseIoFailure(s, x)
    BY <1>3, <1>1, PhaseIoFailureInv
  <1>4. CASE RunExchangeReturns("PROTOCOL", x, TRUE)
    BY <1>4, <1>1, ExchangeReturnsInv DEF IoStatus
  <1>5. CASE NextPhase("interrupt", x)
    BY <1>5, <1>1, NextPhaseInv DEF PhasePc
  <1> QED
    BY <1>2, <1>3, <1>4, <1>5 DEF BulkReturns, x, y

\* The clearing of a stalled data pipe.
LEMMA ClearStallInv ==
  ASSUME IInv, NEW s \in IoStatus, ClearStallReturns(s)
  PROVE  IInv'
  <1>1. pc \in PhasePc /\ exchange[job] \in Exchange
    BY ExchangeFields DEF ClearStallReturns, PhasePc
  <1>2. CASE s # "OK" /\ PhaseIoFailure(s, exchange[job])
    BY <1>2, <1>1, PhaseIoFailureInv
  <1>3. CASE NextPhase("interrupt", exchange[job])
    BY <1>3, <1>1, NextPhaseInv DEF PhasePc
  <1> QED
    BY <1>2, <1>3 DEF ClearStallReturns

\* The completion interrupt.
LEMMA InterruptInv ==
  ASSUME IInv, NEW s \in IoStatus, NEW e \in BOOLEAN, NEW k \in Codes,
         InterruptReturns(s, e, k)
  PROVE  IInv'
  <1> DEFINE z == exchange[job]
             x == [z EXCEPT !.completion = k]
  <1>1. /\ pc \in PhasePc /\ z \in Exchange /\ x \in Exchange
        /\ recovery_required \in BOOLEAN
        /\ job = "reset" => z = ZeroExchange
    BY ExchangeFields
       DEF InterruptReturns, PhasePc, IInv, TypeOK, ResetStaysClean
  <1>2. x.completion = k
    BY <1>1 DEF Exchange
  <1>3. job = "reset" /\ x.completion = 0 => x = ZeroExchange
    BY <1>1, <1>2 DEF ZeroExchange
  <1> HIDE DEF x, z
  <1>4. CASE s # "OK" /\ PhaseIoFailure(s, z)
    BY <1>4, <1>1, PhaseIoFailureInv
  <1>5. CASE RunExchangeReturns("PROTOCOL", x, TRUE)
    BY <1>5, <1>1, ExchangeReturnsInv DEF IoStatus
  <1>6. CASE RunExchangeReturns("OK", x, recovery_required)
    BY <1>6, <1>1, <1>3, ExchangeReturnsInv
       DEF IoStatus, io_status_loses_phase
  <1> QED
    BY <1>4, <1>5, <1>6 DEF InterruptReturns, x, z
-----------------------------------------------------------------------------
(* The recovery sequence. *)

\* The adapter's preparation: the reset exchange starts, or execute returns
\* with the debt unpaid.
LEMMA PrepareInv ==
  ASSUME IInv, NEW s \in IoStatus, PrepareReturns(s)
  PROVE  IInv'
  <1> DEFINE b == Bare("execute", map_io_status(s))
  <1>1. /\ recovery_required /\ recovery_required \in BOOLEAN
        /\ exchange \in [Jobs -> Exchange]
    BY DEF PrepareReturns, IInv, TypeOK, RecoveryInProgress
  <1>2. b \in Result /\ b.transport_status = map_io_status(s)
    BY MapIoStatus, BareType
  <1> HIDE DEF b
  <1>3. CASE s # "OK" /\ Return(b, recovery_required)
    BY <1>3, <1>1, <1>2, MapIoStatus, ReturnInv
  <1>4. CASE /\ EnterExchange("reset", exchange)
             /\ first_failure' = "OK"
             /\ UNCHANGED recovery_required
    BY <1>4, <1>1, EnterInv DEF Jobs, IoStatus
  <1> QED
    BY <1>3, <1>4 DEF PrepareReturns, b

\* Both pipe clears of the recovery.
LEMMA ClearInv ==
  ASSUME IInv, NEW s \in IoStatus, ClearInReturns(s) \/ ClearOutReturns(s)
  PROVE  IInv'
  <1> USE DEF ClearInReturns, ClearOutReturns
  <1>1. TypeOK'
    BY DEF IInv, TypeOK, Pc
  <1>2. RecoveryGatesCommands' /\ RecoveryInProgress'
    BY DEF IInv, RecoveryGatesCommands, RecoveryInProgress, PhasePc
  <1>3. ResetStaysClean'
    BY DEF IInv, ResetStaysClean, PhasePc
  <1>4. FramesEmpty' /\ ReportMatchesDebt'
    BY DEF FramesEmpty, ReportMatchesDebt
  <1> QED
    BY <1>1, <1>2, <1>3, <1>4 DEF IInv

\* The end of the recovery: the command starts with the debt paid, or execute
\* returns with the debt unpaid.
LEMMA FinishInv ==
  ASSUME IInv, NEW s \in IoStatus, FinishReturns(s)
  PROVE  IInv'
  <1> DEFINE f == IF recovered THEN s ELSE first_failure
             b == Bare("execute", map_io_status(f))
  <1>1. /\ recovery_required /\ recovery_required \in BOOLEAN
        /\ exchange \in [Jobs -> Exchange] /\ first_failure \in IoStatus
    BY DEF FinishReturns, IInv, TypeOK, RecoveryInProgress
  <1>2. f \in IoStatus
    BY <1>1
  <1> HIDE DEF f
  <1>3. b \in Result /\ b.transport_status = map_io_status(f)
    BY <1>2, MapIoStatus, BareType
  <1> HIDE DEF b
  <1>4. CASE f # "OK" /\ Return(b, recovery_required)
    BY <1>4, <1>1, <1>2, <1>3, MapIoStatus, ReturnInv
  <1>5. CASE /\ EnterExchange("command", exchange)
             /\ recovery_required' = FALSE
             /\ UNCHANGED first_failure
    BY <1>5, <1>1, EnterInv DEF Jobs
  <1> QED
    BY <1>4, <1>5 DEF FinishReturns, b, f
-----------------------------------------------------------------------------
(* The calls of the workflow. *)

\* Acquire and release, up to the adapter call or to the early return.
LEMMA AcquireReleaseInv ==
  ASSUME IInv, AcquireCall \/ ReleaseCall
  PROVE  IInv'
  <1>1. /\ pc = "idle" /\ recovery_required \in BOOLEAN
        /\ exchange = NoExchanges
    BY DEF AcquireCall, ReleaseCall, IInv, TypeOK, FramesEmpty
  <1>2. \A c \in {"acquire", "release"} :
          /\ Bare(c, "OK") \in Result /\ Bare(c, "OK").call = c
          /\ ZeroResult("none") \in Result
    BY BareType DEF TransportStatus
  <1>3. CASE Return(Bare("acquire", "OK"), recovery_required)
    BY <1>3, <1>1, <1>2, ReturnInv
  <1>4. CASE Return(Bare("release", "OK"), recovery_required)
    BY <1>4, <1>1, <1>2, ReturnInv
  <1>5. CASE /\ pc' \in {"open_seize", "close"}
             /\ result' = ZeroResult("none")
             /\ UNCHANGED <<opened, recovery_required, job, cmd, exchange,
                            first_failure>>
    <2>1. TypeOK'
      BY <1>5, <1>2 DEF IInv, TypeOK, Pc
    <2>2. /\ RecoveryGatesCommands' /\ RecoveryInProgress'
          /\ ResetStaysClean' /\ FramesEmpty' /\ ReportMatchesDebt'
      BY <1>5, <1>1 DEF RecoveryGatesCommands, RecoveryInProgress,
           ResetStaysClean, FramesEmpty, ReportMatchesDebt, PhasePc
    <2> QED
      BY <2>1, <2>2 DEF IInv
  <1> QED
    BY <1>3, <1>4, <1>5 DEF AcquireCall, ReleaseCall

\* The adapter's open and close return to the workflow.
LEMMA OpenCloseInv ==
  ASSUME IInv, NEW s \in IoStatus, OpenReturns(s) \/ CloseReturns(s)
  PROVE  IInv'
  <1>1. \A c \in {"acquire", "release"} :
          /\ Bare(c, map_io_status(s)) \in Result
          /\ Bare(c, map_io_status(s)).call = c
    BY MapIoStatus, BareType
  <1>2. TypeOK'
    BY <1>1 DEF OpenReturns, CloseReturns, IInv, TypeOK, Pc
  <1>3. result'.call # "execute"
    BY <1>1 DEF OpenReturns, CloseReturns
  <1>4. pc' = "idle" /\ exchange' = NoExchanges
    BY DEF OpenReturns, CloseReturns, IInv, FramesEmpty
  <1>5. /\ RecoveryGatesCommands' /\ RecoveryInProgress'
        /\ ResetStaysClean' /\ FramesEmpty' /\ ReportMatchesDebt'
    BY <1>3, <1>4 DEF RecoveryGatesCommands, RecoveryInProgress,
         ResetStaysClean, FramesEmpty, ReportMatchesDebt, PhasePc
  <1> QED
    BY <1>2, <1>5 DEF IInv

\* Execute, up to its first adapter call or its refusal.
LEMMA ExecuteInv ==
  ASSUME IInv, NEW c \in Commands, ExecuteCall(c)
  PROVE  IInv'
  <1>1. /\ Bare("execute", "PROTOCOL") \in Result
        /\ Bare("execute", "PROTOCOL").transport_status = "PROTOCOL"
        /\ ZeroResult("none") \in Result
    BY BareType DEF TransportStatus
  <1>2. /\ pc = "idle" /\ recovery_required \in BOOLEAN
        /\ exchange' = NoExchanges
        /\ recovery_required' = recovery_required
    BY DEF ExecuteCall, IInv, TypeOK, FramesEmpty
  <1>3. NoExchanges["reset"] = ZeroExchange
    BY DEF NoExchanges, Jobs
  <1>4. TypeOK'
    BY <1>1, CommandsAssumption
       DEF ExecuteCall, RecoveryNeeded, IInv, TypeOK, Pc, PhasePc, Jobs
  <1>5. CASE pc' = "idle" /\ result' = Bare("execute", "PROTOCOL")
    <2>1. /\ RecoveryGatesCommands' /\ RecoveryInProgress'
          /\ ResetStaysClean' /\ FramesEmpty' /\ ReportMatchesDebt'
      BY <1>1, <1>2, <1>5 DEF RecoveryGatesCommands, RecoveryInProgress,
           ResetStaysClean, FramesEmpty, ReportMatchesDebt, PhasePc
    <2> QED
      BY <2>1, <1>4 DEF IInv
  <1>6. CASE /\ pc' = IF recovery_required THEN "prepare" ELSE "adsc"
             /\ job' = IF recovery_required THEN "reset" ELSE "command"
    <2>1. /\ RecoveryGatesCommands' /\ RecoveryInProgress'
          /\ ResetStaysClean' /\ FramesEmpty' /\ ReportMatchesDebt'
      BY <1>2, <1>3, <1>6 DEF RecoveryGatesCommands, RecoveryInProgress,
           ResetStaysClean, FramesEmpty, ReportMatchesDebt, PhasePc
    <2> QED
      BY <2>1, <1>4 DEF IInv
  <1> QED
    BY <1>5, <1>6 DEF ExecuteCall, RecoveryNeeded

\* Destroying the transport.
LEMMA DestroyInv ==
  ASSUME IInv, DestroyCall \/ DestroyCloseReturns
  PROVE  IInv'
  <1>1. TypeOK'
    BY DEF DestroyCall, DestroyCloseReturns, IInv, TypeOK, Pc
  <1>2. /\ pc' \in {"destroy_close", "destroyed"}
        /\ exchange' = NoExchanges \/ pc' = "destroyed"
    BY DEF DestroyCall, DestroyCloseReturns, IInv, FramesEmpty
  <1>3. /\ RecoveryGatesCommands' /\ RecoveryInProgress'
        /\ ResetStaysClean' /\ FramesEmpty' /\ ReportMatchesDebt'
    BY <1>2 DEF RecoveryGatesCommands, RecoveryInProgress,
         ResetStaysClean, FramesEmpty, ReportMatchesDebt, PhasePc
  <1> QED
    BY <1>1, <1>3 DEF IInv
-----------------------------------------------------------------------------
(* The theorems. *)

\* The engine starts in the invariant (m65_cbi_transport_create).
LEMMA InitInv == Init => IInv
  <1> SUFFICES ASSUME Init PROVE IInv
    OBVIOUS
  <1>1. ZeroResult("none") \in Result /\ ZeroResult("none").call = "none"
    BY BareType DEF TransportStatus
  <1>2. TypeOK
    BY <1>1, NoExchangesType, CommandsAssumption
       DEF Init, TypeOK, Pc, Jobs, IoStatus
  <1> QED
    BY <1>1, <1>2 DEF Init, IInv, RecoveryGatesCommands, RecoveryInProgress,
         ResetStaysClean, FramesEmpty, ReportMatchesDebt, PhasePc

\* Every step keeps it.
LEMMA NextInv == IInv /\ [Next]_vars => IInv'
  <1> SUFFICES ASSUME IInv, [Next]_vars PROVE IInv'
    OBVIOUS
  <1>1. CASE UNCHANGED vars
    BY <1>1 DEF vars, IInv, TypeOK, RecoveryGatesCommands,
         RecoveryInProgress, ResetStaysClean, FramesEmpty, ReportMatchesDebt
  <1>2. CASE Calls
    BY <1>2, AcquireReleaseInv, ExecuteInv, DestroyInv DEF Calls
  <1>3. CASE IoReturns
    <2>1. SenseData \subseteq Sense
      BY NoSenseType DEF SenseData
    <2> QED
      BY <1>3, <2>1, OpenCloseInv, PrepareInv, AdscInv, BulkInv,
         ClearStallInv, InterruptInv, ClearInv, FinishInv, DestroyInv
         DEF IoReturns
  <1> QED
    BY <1>1, <1>2, <1>3 DEF Next

\* The inductive invariant holds throughout, for every set of commands,
\* completion codes and sense keys, and whatever the adapter returns.
THEOREM EngineInvariant == Spec => []IInv
  BY InitInv, NextInv, PTL DEF Spec

\* The engine's state keeps its types in every behaviour.
THEOREM EngineTypes == Spec => []TypeOK
  <1>1. IInv => TypeOK
    BY DEF IInv
  <1> QED
    BY <1>1, EngineInvariant, PTL

\* While a Command Block Reset is owed, the only exchange run is the reset
\* block, and none is run that is not owed (recover_if_required).
THEOREM RecoveryGates == Spec => []RecoveryGatesCommands
  <1>1. IInv => RecoveryGatesCommands
    BY DEF IInv
  <1> QED
    BY <1>1, EngineInvariant, PTL

\* What execute reports agrees with the debt it leaves behind.
THEOREM ReportsDebt == Spec => []ReportMatchesDebt
  <1>1. IInv => ReportMatchesDebt
    BY DEF IInv
  <1> QED
    BY <1>1, EngineInvariant, PTL

\* run_exchange hands its callers a debt, and none of them forgives it.
LEMMA CallersKeepDebt ==
  ASSUME NEW s, NEW x, NEW rr, rr, RunExchangeReturns(s, x, rr)
  PROVE  recovery_required'
  <1>1. \A r, q : q /\ Return(r, q) => recovery_required'
    BY DEF Return
  <1>2. CASE ResetExchanged(s, x, rr)
    BY <1>2 DEF ResetExchanged
  <1>3. CASE RequestSenseExchanged(s, x, rr)
    BY <1>1, <1>3 DEF RequestSenseExchanged
  <1>4. CASE CommandExchanged(s, x, rr)
    BY <1>1, <1>4 DEF CommandExchanged
  <1>5. CASE SenseExchanged(s, x, rr)
    BY <1>1, <1>5 DEF SenseExchanged
  <1> QED
    BY <1>2, <1>3, <1>4, <1>5 DEF RunExchangeReturns

\* No phase of an exchange forgives the debt.
LEMMA PhasesKeepDebt ==
  ASSUME recovery_required,
         NEW s \in IoStatus, NEW n \in Size, NEW d \in Sense,
         NEW e \in BOOLEAN, NEW k \in Codes,
         \/ AdscReturns(s) \/ BulkReturns(s, n, d) \/ ClearStallReturns(s)
         \/ InterruptReturns(s, e, k)
  PROVE  recovery_required'
  <1>1. \A t, x : PhaseIoFailure(t, x) => recovery_required'
    BY CallersKeepDebt DEF PhaseIoFailure
  <1>2. \A t, x : RunExchangeReturns(t, x, recovery_required)
                   \/ RunExchangeReturns(t, x, TRUE) => recovery_required'
    BY CallersKeepDebt
  <1>3. \A q, x : NextPhase(q, x) => recovery_required'
    BY DEF NextPhase
  <1> QED
    BY <1>1, <1>2, <1>3
       DEF AdscReturns, BulkReturns, ClearStallReturns, InterruptReturns

\* A step that clears the debt is the finish of a whole reset or a new seize.
LEMMA DebtStep ==
  ASSUME IInv, Next, recovery_required, ~recovery_required'
  PROVE  \/ pc = "open_seize" /\ opened'
         \/ /\ pc = "finish" /\ job' = "command" /\ pc' = "adsc"
            /\ exchange["reset"] = ZeroExchange
            /\ first_failure = "OK"
  <1>1. \A r : Return(r, recovery_required) => recovery_required'
    BY DEF Return
  <1>2. ~Calls
    BY <1>1 DEF Calls, AcquireCall, ReleaseCall, ExecuteCall, DestroyCall
  <1>3. SenseData \subseteq Sense
    BY NoSenseType DEF SenseData
  <1>4. ~ \/ \E s \in IoStatus : AdscReturns(s)
          \/ \E s \in IoStatus, n \in Size, d \in SenseData :
               BulkReturns(s, n, d)
          \/ \E s \in IoStatus : ClearStallReturns(s)
          \/ \E s \in IoStatus, e \in BOOLEAN, k \in Codes :
               InterruptReturns(s, e, k)
    BY <1>3, PhasesKeepDebt, NoSenseType, CodesAssumption DEF Size
  <1>5. ~ \E s \in IoStatus : \/ PrepareReturns(s) \/ CloseReturns(s)
                               \/ ClearInReturns(s) \/ ClearOutReturns(s)
    BY <1>1 DEF PrepareReturns, CloseReturns, ClearInReturns, ClearOutReturns
  <1>6. CASE \E s \in IoStatus : OpenReturns(s)
    BY <1>6 DEF OpenReturns
  <1>7. CASE \E s \in IoStatus : FinishReturns(s)
    <2>1. PICK s \in IoStatus : FinishReturns(s)
      BY <1>7
    <2>2. /\ pc = "finish" /\ first_failure = "OK"
          /\ EnterExchange("command", exchange)
      BY <1>1, <2>1 DEF FinishReturns, recovered
    <2> QED
      BY <2>2 DEF EnterExchange, IInv, ResetStaysClean
  <1>8. ~DestroyCloseReturns
    BY DEF DestroyCloseReturns
  <1> QED
    BY <1>2, <1>4, <1>5, <1>6, <1>7, <1>8 DEF Next, IoReturns

\* Nothing clears the debt but a whole Command Block Reset or a new seize.
THEOREM DebtCleared == Spec => DebtClearedOnlyByReset
  <1>1. IInv /\ [Next]_vars =>
          [recovery_required /\ ~recovery_required' =>
             \/ pc = "open_seize" /\ opened'
             \/ /\ pc = "finish" /\ job' = "command" /\ pc' = "adsc"
                /\ exchange["reset"] = ZeroExchange
                /\ first_failure = "OK"]_vars
    BY DebtStep
  <1> QED
    BY <1>1, EngineInvariant, PTL DEF Spec, DebtClearedOnlyByReset
-----------------------------------------------------------------------------
(* GOOD is earned. *)

ActivePc == PhasePc \cup {"prepare", "clear_in", "clear_out", "finish"}

\* The command being executed passed m65_validate_command.
CommandChecked ==
  /\ cmd \in Commands
  /\ pc \in ActivePc => cmd.allowed

\* Only execute lets a command in, and it checks it first.
LEMMA CommandCheckedStep == CommandChecked /\ [Next]_vars => CommandChecked'
  <1> SUFFICES ASSUME CommandChecked, [Next]_vars PROVE CommandChecked'
    OBVIOUS
  <1> USE DEF ActivePc, PhasePc
  <1>1. CASE UNCHANGED vars
    BY <1>1 DEF vars, CommandChecked
  <1>2. CASE \E c \in Commands : ExecuteCall(c)
    BY <1>2 DEF ExecuteCall, Refused, CommandChecked
  <1>3. CASE \/ AcquireCall \/ ReleaseCall \/ DestroyCall
             \/ DestroyCloseReturns
             \/ \E s \in IoStatus : OpenReturns(s) \/ CloseReturns(s)
    BY <1>3 DEF AcquireCall, ReleaseCall, DestroyCall, DestroyCloseReturns,
         OpenReturns, CloseReturns, Return, CommandChecked
  <1>4. CASE \E s \in IoStatus :
               \/ PrepareReturns(s) \/ ClearInReturns(s)
               \/ ClearOutReturns(s) \/ FinishReturns(s)
    BY <1>4 DEF PrepareReturns, ClearInReturns, ClearOutReturns,
         FinishReturns, Return, EnterExchange, CommandChecked
  <1>5. \A s, x, rr : RunExchangeReturns(s, x, rr) => cmd' = cmd
    BY DEF RunExchangeReturns, ResetExchanged, RequestSenseExchanged,
         CommandExchanged, SenseExchanged, Return, EnterExchange
  <1>6. CASE \/ \E s \in IoStatus : AdscReturns(s)
             \/ \E s \in IoStatus, n \in Size, d \in SenseData :
                  BulkReturns(s, n, d)
             \/ \E s \in IoStatus : ClearStallReturns(s)
             \/ \E s \in IoStatus, e \in BOOLEAN, k \in Codes :
                  InterruptReturns(s, e, k)
    <2>1. pc \in PhasePc
      BY <1>6 DEF AdscReturns, BulkReturns, ClearStallReturns,
           InterruptReturns
    <2>2. cmd' = cmd
      BY <1>5, <1>6 DEF AdscReturns, BulkReturns, ClearStallReturns,
           InterruptReturns, PhaseIoFailure, NextPhase
    <2> QED
      BY <2>1, <2>2 DEF CommandChecked
  <1> QED
    BY <1>1, <1>2, <1>3, <1>4, <1>6 DEF Next, Calls, IoReturns

\* Of run_exchange's callers only the one after the sense exchange reports
\* GOOD, and only when that exchange succeeded and agrees with the command's.
LEMMA GoodReturn ==
  ASSUME IInv, NEW s \in IoStatus, NEW x \in Exchange, NEW rr,
         ReportsGood, RunExchangeReturns(s, x, rr)
  PROVE  LET c == exchange["command"] IN
         /\ job = "sense" /\ s = "OK" /\ SenseUsable(x)
         /\ Coherent(c, x.sense) /\ scsi_status(c, x.sense) = "GOOD"
         /\ result'.sense = x.sense /\ result'.transferred = c.transferred
  <1>0. /\ map_io_status(s) \in TransportStatus
        /\ map_io_status(s) = "OK" => s = "OK"
        /\ x.transferred \in Size /\ x.sense \in Sense
        /\ exchange["command"].transferred \in Size
    BY MapIoStatus DEF Exchange, IInv, TypeOK, Jobs
  <1>1. ~ResetExchanged(s, x, rr)
    BY DEF ResetExchanged, ReportsGood
  <1>2. ~RequestSenseExchanged(s, x, rr)
    BY DEF RequestSenseExchanged, ReportsGood
  <1>3. ~CommandExchanged(s, x, rr)
    <2> DEFINE b == Bare("execute", map_io_status(s))
               r == [b EXCEPT !.transferred = x.transferred]
    <2>1. b \in Result /\ b.transport_status = map_io_status(s)
      BY <1>0, BareType
    <2> HIDE DEF b
    <2>2. r.transport_status = map_io_status(s)
      BY <2>1, <1>0, WithTransferred
    <2> HIDE DEF r
    <2>3. ~(s # "OK" /\ Return(r, rr))
      BY <2>2, <1>0 DEF Return, ReportsGood
    <2> QED
      BY <2>3 DEF CommandExchanged, EnterExchange, ReportsGood, b, r
  <1>4. SenseExchanged(s, x, rr)
    BY <1>1, <1>2, <1>3 DEF RunExchangeReturns
  <1> DEFINE c == exchange["command"]
             z == ZeroResult("execute")
             r == [z EXCEPT !.transferred = c.transferred]
             f == [r EXCEPT !.transport_status = map_io_status(s)]
             q == [r EXCEPT !.transport_status = "PROTOCOL"]
             d == [r EXCEPT !.sense = x.sense]
             e == [d EXCEPT !.transport_status = "PROTOCOL"]
             v == scsi_status(c, x.sense)
             g == [r EXCEPT !.sense = x.sense, !.scsi_status = v]
  <1>5. z \in Result
    BY BareType DEF TransportStatus
  <1> HIDE DEF z
  <1>6. r \in Result /\ r.transferred = c.transferred
    BY <1>5, <1>0, WithTransferred DEF Result
  <1> HIDE DEF r
  <1>7. f.transport_status = map_io_status(s)
    BY <1>6, <1>0, WithStatus
  <1>8. q.transport_status = "PROTOCOL"
    BY <1>6, WithStatus DEF TransportStatus
  <1>9. d \in Result
    BY <1>6, <1>0, WithSense
  <1> HIDE DEF d
  <1>10. e.transport_status = "PROTOCOL"
    BY <1>9, WithStatus DEF TransportStatus
  <1>11. g.sense = x.sense /\ g.scsi_status = v
         /\ g.transferred = r.transferred
    BY <1>6 DEF Result
  <1> HIDE DEF f, q, e, g, v, c
  <1>12. ~(s # "OK" /\ Return(f, rr)) /\ ~Return(q, TRUE) /\ ~Return(e, TRUE)
    BY <1>7, <1>8, <1>10, <1>0 DEF Return, ReportsGood
  <1>13. /\ job = "sense" /\ s = "OK" /\ SenseUsable(x)
         /\ Coherent(c, x.sense) /\ Return(g, rr)
    BY <1>4, <1>12 DEF SenseExchanged, z, r, f, q, d, e, g, v, c
  <1>14. v = "GOOD" /\ result'.sense = x.sense
         /\ result'.transferred = c.transferred
    BY <1>6, <1>11, <1>13 DEF Return, ReportsGood
  <1> QED
    BY <1>13, <1>14 DEF v, c

\* The step that reports GOOD is the sense exchange's completion interrupt.
LEMMA GoodStep ==
  ASSUME IInv, CommandChecked, Next, ReportsGood
  PROVE  Earned
  <1>1. ~ \/ AcquireCall \/ ReleaseCall \/ DestroyCall
          \/ \E c \in Commands : ExecuteCall(c)
          \/ DestroyCloseReturns
    BY DEF AcquireCall, ReleaseCall, DestroyCall, ExecuteCall,
         DestroyCloseReturns, ReportsGood
  <1>2. ~ \E s \in IoStatus : \/ OpenReturns(s) \/ CloseReturns(s)
                               \/ ClearInReturns(s) \/ ClearOutReturns(s)
    BY MapIoStatus, BareType DEF OpenReturns, CloseReturns, ClearInReturns,
         ClearOutReturns, ReportsGood
  <1>3. \A s \in IoStatus : s # "OK" =>
          ~Return(Bare("execute", map_io_status(s)), recovery_required)
    BY MapIoStatus, BareType DEF Return, ReportsGood
  <1>4. ~ \E s \in IoStatus : PrepareReturns(s) \/ FinishReturns(s)
    BY <1>3 DEF PrepareReturns, FinishReturns, EnterExchange, ReportsGood,
         IInv, TypeOK
  <1>5. \A s \in IoStatus, x \in Exchange : s # "OK" => ~PhaseIoFailure(s, x)
    BY GoodReturn DEF PhaseIoFailure
  <1>6. \A x \in Exchange : ~RunExchangeReturns("PROTOCOL", x, TRUE)
    BY GoodReturn DEF IoStatus
  <1>7. \A q \in PhasePc : \A x : ~NextPhase(q, x)
    BY DEF NextPhase, ReportsGood, PhasePc
  <1>8. ~ \E s \in IoStatus : AdscReturns(s)
    <2> SUFFICES ASSUME NEW s \in IoStatus, AdscReturns(s) PROVE FALSE
      OBVIOUS
    <2> DEFINE y == [exchange[job] EXCEPT !.adsc_stalled = TRUE]
    <2>1. y \in Exchange /\ y.adsc_stalled /\ exchange[job] \in Exchange
      BY ExchangeFields DEF Exchange
    <2> HIDE DEF y
    <2>2. ~RunExchangeReturns("OK", y, recovery_required)
      BY <2>1, GoodReturn DEF SenseUsable, IoStatus
    <2> QED
      BY <1>5, <1>7, <2>1, <2>2 DEF AdscReturns, PhasePc, y
  <1>9. ~ \E s \in IoStatus, n \in Size, d \in SenseData : BulkReturns(s, n, d)
    <2> SUFFICES ASSUME NEW s \in IoStatus, NEW n \in Size, NEW d \in Sense,
                        BulkReturns(s, n, d)
                 PROVE FALSE
      BY NoSenseType DEF SenseData
    <2> DEFINE x == [exchange[job] EXCEPT !.transferred = n, !.sense = d]
    <2>1. x \in Exchange
      BY ExchangeFields
    <2> HIDE DEF x
    <2> QED
      BY <1>5, <1>6, <1>7, <2>1 DEF BulkReturns, PhasePc, x
  <1>10. ~ \E s \in IoStatus : ClearStallReturns(s)
    BY <1>5, <1>7, ExchangeFields DEF ClearStallReturns, PhasePc
  <1>11. PICK s \in IoStatus, e \in BOOLEAN, k \in Codes :
           InterruptReturns(s, e, k)
    BY <1>1, <1>2, <1>4, <1>8, <1>9, <1>10 DEF Next, Calls, IoReturns
  <1> DEFINE x == [exchange[job] EXCEPT !.completion = k]
             c == exchange["command"]
  <1>12. /\ x \in Exchange /\ x.sense = exchange[job].sense
         /\ exchange[job] \in Exchange /\ c \in Exchange
    BY ExchangeFields DEF Exchange, IInv, TypeOK, Jobs
  <1> HIDE DEF x, c
  <1>13. RunExchangeReturns("OK", x, recovery_required)
    BY <1>5, <1>6, <1>11, <1>12 DEF InterruptReturns, x
  <1>14. /\ job = "sense" /\ SenseUsable(x)
         /\ Coherent(c, x.sense) /\ scsi_status(c, x.sense) = "GOOD"
         /\ result'.sense = x.sense /\ result'.transferred = c.transferred
    BY <1>12, <1>13, GoodReturn DEF IoStatus, c
  <1>15. /\ ~c.adsc_stalled /\ ~c.data_stalled /\ ~(x.sense.key > 1)
         /\ c.completion = x.sense.code
    BY <1>14 DEF Coherent, scsi_status
  <1>16. x.sense.valid /\ x.sense.key <= 1
    <2>1. x.sense.key \in 0..15
      BY <1>12, KeysAssumption DEF Exchange, Sense
    <2> QED
      BY <2>1, <1>14, <1>15 DEF SenseUsable
  <1>17. cmd.op \in {"READ_10", "MODE_SELECT_10"} =>
           cmd.direction = "OUT" \/ cmd.op = "READ_10"
    BY <1>11, ValidatorAssumption
       DEF CommandChecked, ActivePc, PhasePc, InterruptReturns
  <1>18. cmd.op \in {"READ_10", "MODE_SELECT_10"} => c.transferred = "exact"
    BY <1>14, <1>15, <1>17 DEF Coherent
  <1> QED
    BY <1>12, <1>14, <1>15, <1>16, <1>18 DEF Earned, c

\* GOOD is earned by a completion and a sense that agree and by data that is
\* complete, for every allowlisted command and every answer of the adapter.
THEOREM GoodEarned == Spec => GoodIsEarned
  <1>1. Init => CommandChecked
    BY DEF Init, CommandChecked, ActivePc, PhasePc
  <1>2. Spec => []CommandChecked
    BY <1>1, CommandCheckedStep, PTL DEF Spec
  <1>3. IInv /\ CommandChecked /\ [Next]_vars => [ReportsGood => Earned]_vars
    BY GoodStep
  <1> QED
    BY <1>2, <1>3, EngineInvariant, PTL DEF Spec, GoodIsEarned
-----------------------------------------------------------------------------
(* What a call leaves behind, whichever way run_exchange ended. *)

\* The ways in which an exchange ends for its caller.
ResetFails == job = "reset" /\ job' = job /\ pc' = "finish"
              /\ first_failure' # "OK"
ResetCompletes == job = "reset" /\ job' = job /\ pc' = "clear_in"
CommandEnds == job # "reset" /\ job' = job /\ pc' = "idle"
               /\ result'.call = "execute"
SenseBegins == job # "reset" /\ job' = "sense" /\ pc' = "adsc"

\* The four callers of run_exchange: the reset goes on or fails, a command
\* returns to the workflow, or fetch_sense begins.
LEMMA ExchangeEnds ==
  ASSUME IInv, NEW s \in IoStatus, NEW x \in Exchange, NEW rr,
         RunExchangeReturns(s, x, rr)
  PROVE  /\ opened' = opened
         /\ \/ ResetFails
            \/ ResetCompletes /\ s = "OK" /\ ~x.adsc_stalled
            \/ CommandEnds /\ (rr => recovery_required')
            \/ SenseBegins /\ s = "OK" /\ recovery_required' = rr
  <1> USE DEF ResetFails, ResetCompletes, CommandEnds, SenseBegins
  <1> DEFINE Ended == /\ opened' = opened /\ job' = job /\ pc' = "idle"
                      /\ result'.call = "execute" /\ (rr => recovery_required')
  <1>0. /\ x.transferred \in Size /\ x.sense \in Sense
        /\ exchange["command"].transferred \in Size
        /\ map_io_status(s) \in TransportStatus
    BY MapIoStatus DEF IInv, TypeOK, Exchange, Jobs
  <1>1. \A r \in Result : \A q :
          r.call = "execute" /\ Return(r, q) /\ (rr => q) => Ended
    BY DEF Return
  <1>2. CASE ResetExchanged(s, x, rr)
    BY <1>2 DEF ResetExchanged
  <1>3. CASE RequestSenseExchanged(s, x, rr)
    <2> DEFINE b == Bare("execute", map_io_status(s))
               r == [b EXCEPT !.transferred = x.transferred]
               q == [r EXCEPT !.transport_status = "PROTOCOL"]
               g == [r EXCEPT !.sense = x.sense]
    <2>1. b \in Result /\ b.call = "execute"
      BY <1>0, BareType
    <2> HIDE DEF b
    <2>2. r \in Result /\ r.call = "execute"
      BY <2>1, <1>0, WithTransferred
    <2> HIDE DEF r
    <2>3. /\ q \in Result /\ q.call = "execute"
          /\ g \in Result /\ g.call = "execute"
      BY <2>2, <1>0, WithStatus, WithSense DEF TransportStatus
    <2> HIDE DEF q, g
    <2>4. Return(r, rr) \/ Return(g, rr) \/ Return(q, TRUE)
      BY <1>3 DEF RequestSenseExchanged, b, r, q, g
    <2>5. Ended
      BY <1>1, <2>2, <2>3, <2>4
    <2> QED
      BY <1>3, <2>5 DEF RequestSenseExchanged
  <1>4. CASE CommandExchanged(s, x, rr) /\ s # "OK"
    <2> DEFINE b == Bare("execute", map_io_status(s))
               r == [b EXCEPT !.transferred = x.transferred]
    <2>1. b \in Result /\ b.call = "execute"
      BY <1>0, BareType
    <2> HIDE DEF b
    <2>2. r \in Result /\ r.call = "execute"
      BY <2>1, <1>0, WithTransferred
    <2> HIDE DEF r
    <2>3. Return(r, rr)
      BY <1>4 DEF CommandExchanged, b, r
    <2>4. Ended
      BY <1>1, <2>2, <2>3
    <2> QED
      BY <1>4, <2>4 DEF CommandExchanged
  <1>5. CASE CommandExchanged(s, x, rr) /\ s = "OK"
    BY <1>5 DEF CommandExchanged, EnterExchange
  <1>6. CASE SenseExchanged(s, x, rr)
    <2> DEFINE c == exchange["command"]
               z == ZeroResult("execute")
               r == [z EXCEPT !.transferred = c.transferred]
               f == [r EXCEPT !.transport_status = map_io_status(s)]
               q == [r EXCEPT !.transport_status = "PROTOCOL"]
               d == [r EXCEPT !.sense = x.sense]
               e == [d EXCEPT !.transport_status = "PROTOCOL"]
               g == [r EXCEPT !.sense = x.sense,
                              !.scsi_status = scsi_status(c, x.sense)]
    <2>1. z \in Result /\ z.call = "execute"
      BY BareType DEF TransportStatus
    <2> HIDE DEF z
    <2>2. r \in Result /\ r.call = "execute"
      BY <2>1, <1>0, WithTransferred
    <2> HIDE DEF r
    <2>3. scsi_status(c, x.sense) \in {"GOOD", "CHECK_CONDITION"}
      BY DEF scsi_status
    <2>a. f \in Result /\ f.call = "execute"
      BY <2>2, <1>0, WithStatus
    <2>4. q \in Result /\ q.call = "execute"
      BY <2>2, WithStatus DEF TransportStatus
    <2>5. d \in Result /\ d.call = "execute"
      BY <2>2, <1>0, WithSense
    <2>6. g \in Result /\ g.call = "execute"
      BY <2>2, <2>3, <1>0, WithVerdict
    <2> HIDE DEF d
    <2>7. e \in Result /\ e.call = "execute"
      BY <2>5, WithStatus DEF TransportStatus
    <2> HIDE DEF f, q, e, g
    <2>8. \/ Return(f, rr) \/ Return(g, rr)
          \/ Return(q, TRUE) \/ Return(e, TRUE)
      BY <1>6 DEF SenseExchanged, z, r, f, q, d, e, g
    <2>9. Ended
      BY <1>1, <2>a, <2>4, <2>6, <2>7, <2>8
    <2> QED
      BY <1>6, <2>9 DEF SenseExchanged
  <1> QED
    BY <1>2, <1>3, <1>4, <1>5, <1>6 DEF RunExchangeReturns

\* What an adapter status does to the exchange in progress: it goes on to
\* another phase, or it ends; a completed exchange has had its interrupt, but
\* for a command block that was stalled.
LEMMA PhaseEnds ==
  ASSUME IInv, NEW s \in IoStatus, NEW n \in Size, NEW d \in Sense,
         NEW e \in BOOLEAN, NEW k \in Codes,
         \/ AdscReturns(s) \/ BulkReturns(s, n, d) \/ ClearStallReturns(s)
         \/ InterruptReturns(s, e, k)
  PROVE  /\ pc \in PhasePc
         /\ opened' = opened
         /\ \/ ResetFails
            \/ ResetCompletes /\ pc = "interrupt" /\ s = "OK"
            \/ /\ CommandEnds
               /\ io_status_loses_phase(s) => recovery_required'
               /\ s = "OK" => pc = "interrupt" \/ recovery_required'
               /\ s = "STALL" => pc # "data"
            \/ /\ SenseBegins /\ recovery_required' = recovery_required
               /\ \/ pc = "adsc" /\ s = "STALL"
                  \/ pc = "interrupt" /\ s = "OK"
            \/ /\ job' = job /\ recovery_required' = recovery_required
               /\ pc' \in {"data", "clear_stall", "interrupt"}
               /\ \/ pc = "adsc" /\ s = "OK"
                  \/ pc = "data" /\ s \in {"OK", "STALL"}
                  \/ pc = "clear_stall" /\ s = "OK"
  <1>1. /\ exchange[job] \in Exchange /\ recovery_required \in BOOLEAN
        /\ (recovery_required \/ io_status_loses_phase(s)) \in BOOLEAN
        /\ "OK" \in IoStatus /\ "PROTOCOL" \in IoStatus
    BY ExchangeFields DEF IInv, TypeOK, IoStatus, io_status_loses_phase
  <1>2. \A x \in Exchange : s # "OK" /\ PhaseIoFailure(s, x) =>
          /\ opened' = opened
          /\ \/ ResetFails
             \/ CommandEnds /\ (io_status_loses_phase(s) => recovery_required')
    BY <1>1, ExchangeEnds DEF PhaseIoFailure
  <1>3. \A x \in Exchange : RunExchangeReturns("PROTOCOL", x, TRUE) =>
          opened' = opened /\ (ResetFails \/ CommandEnds) /\ recovery_required'
    BY <1>1, ExchangeEnds, CallersKeepDebt
  <1>4. \A x \in Exchange : RunExchangeReturns("OK", x, recovery_required) =>
          /\ opened' = opened
          /\ \/ ResetFails
             \/ ResetCompletes /\ ~x.adsc_stalled
             \/ CommandEnds
             \/ SenseBegins /\ recovery_required' = recovery_required
    BY <1>1, ExchangeEnds
  <1>5. \A p, x : NextPhase(p, x) =>
          /\ pc' = p /\ job' = job /\ opened' = opened
          /\ recovery_required' = recovery_required
    BY DEF NextPhase
  <1>6. CASE AdscReturns(s)
    <2> DEFINE x == exchange[job]
               y == [x EXCEPT !.adsc_stalled = TRUE]
    <2>1. y \in Exchange /\ y.adsc_stalled
      BY <1>1 DEF Exchange
    <2> HIDE DEF y
    <2>2. CASE s = "STALL" /\ RunExchangeReturns("OK", y, recovery_required)
      BY <1>4, <1>6, <2>1, <2>2
         DEF AdscReturns, PhasePc, io_status_loses_phase
    <2>3. CASE s \notin {"OK", "STALL"} /\ PhaseIoFailure(s, x)
      BY <1>1, <1>2, <1>6, <2>3 DEF AdscReturns, PhasePc
    <2>4. CASE /\ s = "OK"
               /\ NextPhase(IF direction = "NONE" THEN "interrupt" ELSE "data",
                            x)
      BY <1>5, <1>6, <2>4 DEF AdscReturns, PhasePc
    <2> QED
      BY <1>6, <2>2, <2>3, <2>4 DEF AdscReturns, y
  <1>7. CASE BulkReturns(s, n, d)
    <2> DEFINE x == [exchange[job] EXCEPT !.transferred = n, !.sense = d]
               y == [x EXCEPT !.data_stalled = TRUE]
    <2>1. x \in Exchange /\ pc = "data"
      BY <1>7, ExchangeFields DEF BulkReturns
    <2> HIDE DEF x
    <2>2. CASE s = "STALL" /\ NextPhase("clear_stall", y)
      BY <1>5, <2>1, <2>2 DEF PhasePc
    <2>3. CASE s \notin {"OK", "STALL"} /\ PhaseIoFailure(s, x)
      BY <1>2, <2>1, <2>3 DEF PhasePc
    <2>4. CASE s = "OK" /\ RunExchangeReturns("PROTOCOL", x, TRUE)
      BY <1>3, <2>1, <2>4 DEF PhasePc
    <2>5. CASE s = "OK" /\ NextPhase("interrupt", x)
      BY <1>5, <2>1, <2>5 DEF PhasePc
    <2> QED
      BY <1>7, <2>2, <2>3, <2>4, <2>5 DEF BulkReturns, x
  <1>8. CASE ClearStallReturns(s)
    BY <1>1, <1>2, <1>5, <1>8 DEF ClearStallReturns, PhasePc
  <1>9. CASE InterruptReturns(s, e, k)
    <2> DEFINE x == [exchange[job] EXCEPT !.completion = k]
    <2>1. x \in Exchange /\ pc = "interrupt"
      BY <1>9, ExchangeFields DEF InterruptReturns
    <2> HIDE DEF x
    <2>2. CASE s # "OK" /\ PhaseIoFailure(s, exchange[job])
      BY <1>1, <1>2, <2>1, <2>2 DEF PhasePc
    <2>3. CASE s = "OK" /\ RunExchangeReturns("PROTOCOL", x, TRUE)
      BY <1>3, <2>1, <2>3 DEF PhasePc
    <2>4. CASE s = "OK" /\ RunExchangeReturns("OK", x, recovery_required)
      BY <1>4, <2>1, <2>4 DEF PhasePc, io_status_loses_phase
    <2> QED
      BY <1>9, <2>2, <2>3, <2>4 DEF InterruptReturns, x
  <1> QED
    BY <1>6, <1>7, <1>8, <1>9
-----------------------------------------------------------------------------
(* The transport contract. *)

\* The engine's place in the contract: a call that has returned shows its
\* answer, one that runs shows none.
LEMMA Mapped ==
  ASSUME IInv'
  PROVE  /\ pc' = "idle" =>
              /\ CallOf' = "none"
              /\ ReplyOf' = Contract!Answer(result'.call,
                                            result'.transport_status, Good')
              /\ result'.transport_status \in Contract!Status
         /\ pc' # "idle" => ReplyOf' = Contract!NoReply
         /\ pc' \in ActivePc => CallOf' = "execute"
         /\ Good' \in BOOLEAN
         /\ Good' => result'.transport_status = "OK"
         /\ result'.call # "execute" => Good' = FALSE
  <1>1. result'.transport_status \in Contract!Status
    BY DEF IInv, TypeOK, Result, TransportStatus, Contract!Status
  <1>2. pc' = "idle" => /\ CallOf' = "none"
                        /\ ReplyOf' = Contract!Answer(result'.call,
                                        result'.transport_status, Good')
    BY DEF CallOf, ReplyOf, Contract!Answer
  <1>3. pc' # "idle" => ReplyOf' = Contract!NoReply
    BY DEF ReplyOf, Contract!NoReply, Contract!Answer
  <1>4. pc' \in ActivePc => CallOf' = "execute"
    BY DEF CallOf, ActivePc, PhasePc
  <1>5. /\ Good' \in BOOLEAN
        /\ Good' => result'.transport_status = "OK"
        /\ result'.call # "execute" => Good' = FALSE
    BY DEF Good
  <1> QED
    BY <1>1, <1>2, <1>3, <1>4, <1>5

\* A step inside execute is invisible, or it is the end of the operation.
LEMMA ExecuteMapped ==
  ASSUME IInv', pc \in ActivePc, opened' = opened,
         pc' \in ActivePc \/ (pc' = "idle" /\ result'.call = "execute")
  PROVE  Contract!Next \/ UNCHANGED Contract!vars
  <1>0. /\ CallOf = "execute" /\ ReplyOf = Contract!NoReply
        /\ "idle" \notin ActivePc
    BY DEF CallOf, ReplyOf, ActivePc, PhasePc, Contract!NoReply,
         Contract!Answer
  <1>1. CASE pc' \in ActivePc
    BY <1>0, <1>1, Mapped DEF Contract!vars
  <1>2. CASE pc' = "idle" /\ result'.call = "execute"
    <2>1. Contract!Ends("execute", result'.transport_status, Good', opened)
      BY <1>0, <1>2, Mapped DEF Contract!Ends
    <2> QED
      BY <1>2, <2>1, Mapped
         DEF Contract!Next, Contract!Ending, Contract!ExecuteEnds
  <1> QED
    BY <1>1, <1>2

\* The adapter calls of execute.
LEMMA ExecuteStep ==
  ASSUME IInv, IInv', NEW s \in IoStatus, NEW n \in Size, NEW d \in Sense,
         NEW e \in BOOLEAN, NEW k \in Codes,
         \/ AdscReturns(s) \/ BulkReturns(s, n, d) \/ ClearStallReturns(s)
         \/ InterruptReturns(s, e, k) \/ PrepareReturns(s)
         \/ ClearInReturns(s) \/ ClearOutReturns(s) \/ FinishReturns(s)
  PROVE  Contract!Next \/ UNCHANGED Contract!vars
  <1>1. CASE \/ AdscReturns(s) \/ BulkReturns(s, n, d) \/ ClearStallReturns(s)
             \/ InterruptReturns(s, e, k)
    <2>1. /\ pc \in PhasePc /\ opened' = opened
          /\ \/ pc' \in PhasePc \cup {"finish", "clear_in"}
             \/ pc' = "idle" /\ result'.call = "execute"
      BY <1>1, PhaseEnds
         DEF ResetFails, ResetCompletes, CommandEnds, SenseBegins, PhasePc
    <2> QED
      BY <2>1, ExecuteMapped DEF ActivePc
  <1>2. \A t \in IoStatus : \A rr :
          Return(Bare("execute", map_io_status(t)), rr)
            => opened' = opened /\ pc' = "idle" /\ result'.call = "execute"
    BY MapIoStatus, BareType DEF Return
  <1>3. \A j, xs : EnterExchange(j, xs) => opened' = opened /\ pc' = "adsc"
    BY DEF EnterExchange
  <1>4. CASE PrepareReturns(s)
    <2>1. /\ pc = "prepare" /\ opened' = opened
          /\ pc' = "adsc" \/ (pc' = "idle" /\ result'.call = "execute")
      BY <1>2, <1>3, <1>4 DEF PrepareReturns
    <2> QED
      BY <2>1, ExecuteMapped DEF ActivePc, PhasePc
  <1>5. CASE ClearInReturns(s) \/ ClearOutReturns(s)
    <2>1. /\ pc \in {"clear_in", "clear_out"} /\ opened' = opened
          /\ pc' \in {"clear_out", "finish"}
      BY <1>5 DEF ClearInReturns, ClearOutReturns
    <2> QED
      BY <2>1, ExecuteMapped DEF ActivePc
  <1>6. CASE FinishReturns(s)
    <2>1. first_failure \in IoStatus
      BY DEF IInv, TypeOK
    <2>2. /\ pc = "finish" /\ opened' = opened
          /\ pc' = "adsc" \/ (pc' = "idle" /\ result'.call = "execute")
      BY <1>2, <1>3, <1>6, <2>1 DEF FinishReturns
    <2> QED
      BY <2>2, ExecuteMapped DEF ActivePc, PhasePc
  <1> QED
    BY <1>1, <1>4, <1>5, <1>6

\* Acquire, release and destroy, from the adapter's answer.
LEMMA OpenCloseMapped ==
  ASSUME IInv, IInv', NEW s \in IoStatus,
         OpenReturns(s) \/ CloseReturns(s) \/ DestroyCloseReturns
  PROVE  Contract!Next
  <1>0. map_io_status(s) \in TransportStatus
        /\ (map_io_status(s) = "OK" <=> s = "OK")
    BY MapIoStatus DEF map_io_status
  <1>1. CASE OpenReturns(s)
    <2>1. /\ CallOf = "acquire" /\ pc' = "idle" /\ result'.call = "acquire"
          /\ result'.transport_status = map_io_status(s)
          /\ opened' = (map_io_status(s) = "OK")
      BY <1>0, <1>1, BareType DEF OpenReturns, CallOf
    <2>2. Contract!Ends("acquire", map_io_status(s), FALSE,
                        map_io_status(s) = "OK")
      BY <2>1, Mapped DEF Contract!Ends
    <2> QED
      BY <2>1, <2>2, Mapped
         DEF Contract!Next, Contract!Ending, Contract!AcquireEnds
  <1>2. CASE CloseReturns(s)
    <2>1. /\ CallOf = "release" /\ pc' = "idle" /\ result'.call = "release"
          /\ result'.transport_status = map_io_status(s)
          /\ opened' \in BOOLEAN
          /\ map_io_status(s) = "OK" => ~opened'
      BY <1>0, <1>2, BareType DEF CloseReturns, CallOf
    <2>2. Contract!Ends("release", map_io_status(s), FALSE, opened')
      BY <2>1, Mapped DEF Contract!Ends
    <2> QED
      BY <2>1, <2>2, Mapped
         DEF Contract!Next, Contract!Ending, Contract!ReleaseEnds
  <1>3. CASE DestroyCloseReturns
    <2>1. pc = "destroy_close" /\ pc' = "destroyed" /\ opened' = FALSE
      BY <1>3 DEF DestroyCloseReturns
    <2>2. CallOf = "destroy" /\ CallOf' = "gone" /\ UNCHANGED ReplyOf
      BY <2>1 DEF CallOf, ReplyOf
    <2> QED
      BY <2>1, <2>2 DEF Contract!Next, Contract!Ending, Contract!DestroyEnds
  <1> QED
    BY <1>1, <1>2, <1>3

\* The calls of the workflow.
LEMMA CallsMapped ==
  ASSUME IInv, IInv', Calls
  PROVE  Contract!Next
  <1>0. pc = "idle" /\ CallOf = "none" /\ opened \in BOOLEAN
    BY DEF Calls, AcquireCall, ReleaseCall, ExecuteCall, DestroyCall, CallOf,
         IInv, TypeOK
  <1>1. "OK" \in TransportStatus /\ "PROTOCOL" \in TransportStatus
    BY DEF TransportStatus
  <1>2. ASSUME NEW o \in {"acquire", "release", "execute"},
               NEW ts \in TransportStatus, o = "execute" => ts # "OK",
               pc' = "idle", result' = Bare(o, ts), opened' = opened
        PROVE  Contract!AnswersAtOnce(o, ts)
    <2>1. result'.call = o /\ result'.transport_status = ts
      BY <1>2, BareType
    <2>2. Good' = FALSE
      BY <1>2, <2>1 DEF Good
    <2> QED
      BY <1>0, <1>2, <2>1, <2>2, Mapped DEF Contract!AnswersAtOnce
  <1>3. CASE AcquireCall
    <2>1. CASE opened
      <3>1. pc' = "idle" /\ result' = Bare("acquire", "OK")
            /\ opened' = opened
        BY <1>3, <2>1 DEF AcquireCall, Return
      <3> QED
        BY <1>1, <1>2, <2>1, <3>1 DEF Contract!Next, Contract!Acquire
    <2>2. CASE ~opened
      <3>1. pc' = "open_seize" /\ CallOf' = "acquire" /\ opened' = opened
        BY <1>3, <2>2 DEF AcquireCall, CallOf
      <3> QED
        BY <1>0, <2>2, <3>1, Mapped
           DEF Contract!Next, Contract!Acquire, Contract!Begins
    <2> QED
      BY <2>1, <2>2
  <1>4. CASE ReleaseCall
    <2>1. CASE ~opened
      <3>1. pc' = "idle" /\ result' = Bare("release", "OK")
            /\ opened' = opened
        BY <1>4, <2>1 DEF ReleaseCall, Return
      <3> QED
        BY <1>1, <1>2, <2>1, <3>1 DEF Contract!Next, Contract!Release
    <2>2. CASE opened
      <3>1. pc' = "close" /\ CallOf' = "release" /\ opened' = opened
        BY <1>4, <2>2 DEF ReleaseCall, CallOf
      <3> QED
        BY <1>0, <2>2, <3>1, Mapped
           DEF Contract!Next, Contract!Release, Contract!Begins
    <2> QED
      BY <2>1, <2>2
  <1>5. CASE \E c \in Commands : ExecuteCall(c)
    <2>1. PICK c \in Commands : ExecuteCall(c)
      BY <1>5
    <2>2. CASE Refused(c)
      <3>1. pc' = "idle" /\ result' = Bare("execute", "PROTOCOL")
            /\ opened' = opened
        BY <2>1, <2>2 DEF ExecuteCall
      <3> QED
        BY <1>1, <1>2, <3>1 DEF Contract!Next, Contract!Refuse
    <2>3. CASE ~Refused(c)
      <3>1. pc' \in {"prepare", "adsc"} /\ opened' = opened /\ opened
        BY <2>1, <2>3 DEF ExecuteCall, Refused
      <3> QED
        BY <1>0, <3>1, Mapped DEF ActivePc, PhasePc, Contract!Next,
           Contract!Execute, Contract!Begins
    <2> QED
      BY <2>2, <2>3
  <1>6. CASE DestroyCall
    <2>1. /\ pc' = IF opened THEN "destroy_close" ELSE "destroyed"
          /\ opened' = opened
      BY <1>6 DEF DestroyCall
    <2>2. CallOf' = IF opened THEN "destroy" ELSE "gone"
      BY <2>1 DEF CallOf
    <2> QED
      BY <1>0, <2>1, <2>2, Mapped DEF Contract!Next, Contract!Destroy
  <1> QED
    BY <1>3, <1>4, <1>5, <1>6 DEF Calls

\* The safety part of ImplementsTransport: every adapter call is part of one
\* operation of the contract, the interface is driven only while it is held,
\* and GOOD is answered with status OK only.
THEOREM EngineRefinesTransport == Spec => Contract!Spec
  <1>1. Init => Contract!Init
    <2> SUFFICES ASSUME Init PROVE Contract!Init
      OBVIOUS
    <2>1. opened = FALSE /\ CallOf = "none"
      BY DEF Init, CallOf
    <2>2. ReplyOf = Contract!NoReply
      BY DEF Init, ReplyOf, Good, ZeroResult, Contract!NoReply,
           Contract!Answer
    <2> QED
      BY <2>1, <2>2 DEF Contract!Init
  <1>2. IInv /\ IInv' /\ [Next]_vars => [Contract!Next]_(Contract!vars)
    <2> SUFFICES ASSUME IInv, IInv', [Next]_vars
                 PROVE  Contract!Next \/ UNCHANGED Contract!vars
      OBVIOUS
    <2>1. CASE UNCHANGED vars
      BY <2>1 DEF vars, CallOf, ReplyOf, Good, Contract!vars
    <2>2. CASE Calls
      BY <2>2, CallsMapped
    <2>3. CASE IoReturns
      <3>1. SenseData \subseteq Sense
        BY NoSenseType DEF SenseData
      <3>2. CASE \/ \E s \in IoStatus : OpenReturns(s) \/ CloseReturns(s)
                 \/ DestroyCloseReturns
        BY <3>2, OpenCloseMapped DEF IoStatus
      <3>3. CASE \/ \E s \in IoStatus :
                      \/ AdscReturns(s) \/ ClearStallReturns(s)
                      \/ PrepareReturns(s) \/ ClearInReturns(s)
                      \/ ClearOutReturns(s) \/ FinishReturns(s)
        BY <3>3, ExecuteStep, NoSenseType, CodesAssumption DEF Size
      <3>4. CASE \E s \in IoStatus, n \in Size, d \in SenseData :
                   BulkReturns(s, n, d)
        BY <3>1, <3>4, ExecuteStep, CodesAssumption
      <3>5. CASE \E s \in IoStatus, e \in BOOLEAN, k \in Codes :
                   InterruptReturns(s, e, k)
        BY <3>5, ExecuteStep, NoSenseType DEF Size
      <3> QED
        BY <2>3, <3>2, <3>3, <3>4, <3>5 DEF IoReturns
    <2> QED
      BY <2>1, <2>2, <2>3 DEF Next
  <1> QED
    BY <1>1, <1>2, EngineInvariant, PTL DEF Spec, Contract!Spec
=============================================================================
