------------------------------ MODULE CbiEngine ------------------------------
(***************************************************************************)
(* The backend-neutral CBI engine of src/cbi.c.                            *)
(*                                                                         *)
(* The engine is sequential code that calls the platform adapter.  Between *)
(* two steps it waits for the adapter call named by pc; an action is the   *)
(* code from the return of one adapter call to the next one.  The actions  *)
(* take what the adapter returned as parameters, so that this module is an *)
(* open specification (Next lets the adapter return anything) and CbiStack *)
(* can conjoin the same actions with the macOS adapter's.                  *)
(***************************************************************************)
EXTENDS CbiTypes

CONSTANT Commands     \* the commands a caller may pass to execute

ASSUME CommandsAssumption == Commands \subseteq Command

\* m65_validate_command accepts MODE SELECT (10) with data-out only.
ASSUME ValidatorAssumption ==
  \A c \in Commands :
    c.allowed /\ c.op = "MODE_SELECT_10" => c.direction = "OUT"

VARIABLES
  opened,             \* CbiContext.opened
  recovery_required,  \* CbiContext.recovery_required
  pc,                 \* the adapter call the engine is in, or "idle"
  job,                \* whose run_exchange is active
  cmd,                \* the command of the current or last execute
  exchange,           \* one CbiExchange per caller of run_exchange
  first_failure,      \* recover_if_required's local
  result              \* what the last call returned to the workflow

vars == <<opened, recovery_required, pc, job, cmd, exchange, first_failure,
          result>>

Jobs == {"reset", "command", "sense"}

PhasePc == {"adsc", "data", "clear_stall", "interrupt"}

Pc == PhasePc \cup {"idle", "open_seize", "close", "prepare", "clear_in",
                    "clear_out", "finish", "destroy_close", "destroyed"}

Exchange == [adsc_stalled : BOOLEAN, data_stalled : BOOLEAN,
             transferred : Size, completion : Codes, sense : Sense]

ZeroExchange == [adsc_stalled |-> FALSE, data_stalled |-> FALSE,
                 transferred |-> "zero", completion |-> 0, sense |-> NoSense]

NoExchanges == [j \in Jobs |-> ZeroExchange]

Result == [call : {"none", "acquire", "execute", "release"},
           transport_status : TransportStatus,
           scsi_status : {"GOOD", "CHECK_CONDITION"},
           transferred : Size, sense : Sense]

ZeroResult(call) ==
  [call |-> call, transport_status |-> "OK", scsi_status |-> "GOOD",
   transferred |-> "zero", sense |-> NoSense]

\* A call that ends with nothing but a transport status.
Bare(call, ts) == [ZeroResult(call) EXCEPT !.transport_status = ts]

TypeOK ==
  /\ opened \in BOOLEAN
  /\ recovery_required \in BOOLEAN
  /\ pc \in Pc
  /\ job \in Jobs
  /\ cmd \in Command
  /\ exchange \in [Jobs -> Exchange]
  /\ first_failure \in IoStatus
  /\ result \in Result

\* m65_cbi_transport_create: a zeroed context over a complete adapter.
Init ==
  /\ opened = FALSE
  /\ recovery_required = FALSE
  /\ pc = "idle"
  /\ job = "command"
  /\ cmd \in Commands
  /\ exchange = NoExchanges
  /\ first_failure = "OK"
  /\ result = ZeroResult("none")
-----------------------------------------------------------------------------
(* Returning to the workflow, and entering run_exchange. *)

\* The call ends with result r and its locals go; rr is the recovery flag it
\* leaves behind.
Return(r, rr) ==
  /\ pc' = "idle"
  /\ result' = r
  /\ recovery_required' = rr
  /\ exchange' = NoExchanges
  /\ first_failure' = "OK"
  /\ UNCHANGED <<opened, job, cmd>>

\* run_exchange starts for caller j: a zeroed exchange, then the ADSC call.
EnterExchange(j, exchanges) ==
  /\ pc' = "adsc"
  /\ job' = j
  /\ exchange' = [exchanges EXCEPT ![j] = ZeroExchange]
  /\ UNCHANGED <<opened, cmd, result>>

\* The phases of the exchange in progress: REQUEST SENSE and the reset block
\* have a direction of their own.
direction ==
  CASE job = "reset" -> "NONE"
    [] job = "sense" -> "IN"
    [] OTHER -> cmd.direction
-----------------------------------------------------------------------------
(* What the callers of run_exchange do with its outcome: s is the status,  *)
(* x the exchange and rr the recovery flag that run_exchange left.         *)

\* recover_if_required, after the reset block's exchange.
ResetExchanged(s, x, rr) ==
  LET failure == CASE s # "OK" -> s
                   [] s = "OK" /\ (x.adsc_stalled \/ x.data_stalled
                                   \/ x.completion # 0) -> "PROTOCOL"
                   [] OTHER -> "OK"
  IN /\ job = "reset"
     /\ first_failure' = failure
     /\ pc' = IF failure = "OK" THEN "clear_in" ELSE "finish"
     /\ exchange' = [exchange EXCEPT !["reset"] = x]
     /\ recovery_required' = rr
     /\ UNCHANGED <<opened, job, cmd, result>>

\* execute_request_sense, after its exchange.
RequestSenseExchanged(s, x, rr) ==
  LET r == [Bare("execute", map_io_status(s)) EXCEPT
              !.transferred = x.transferred]
      usable == /\ ~x.adsc_stalled
                /\ ~x.data_stalled
                /\ x.transferred # "zero"
                /\ x.sense.valid
  IN /\ job = "command"
     /\ cmd.op = "REQUEST_SENSE"
     /\ \/ s # "OK" /\ Return(r, rr)
        \/ s = "OK" /\ usable /\ Return([r EXCEPT !.sense = x.sense], rr)
        \/ s = "OK" /\ ~usable
           /\ Return([r EXCEPT !.transport_status = "PROTOCOL"], TRUE)

\* cbi_execute, after the command's exchange: on success fetch_sense begins.
CommandExchanged(s, x, rr) ==
  /\ job = "command"
  /\ cmd.op # "REQUEST_SENSE"
  /\ \/ /\ s # "OK"
        /\ Return([Bare("execute", map_io_status(s)) EXCEPT
                     !.transferred = x.transferred], rr)
     \/ /\ s = "OK"
        /\ EnterExchange("sense", [exchange EXCEPT !["command"] = x])
        /\ recovery_required' = rr
        /\ UNCHANGED first_failure

\* fetch_sense's verdict on its own exchange.
SenseUsable(x) ==
  /\ ~x.adsc_stalled
  /\ ~x.data_stalled
  /\ x.transferred = "exact"
  /\ x.sense.valid

\* Mutant: completion and sense need not agree.
MutNoCompletionCheck(c, sense) ==
  \/ ~(cmd.direction = "OUT" \/ cmd.op = "READ_10")
  \/ c.adsc_stalled \/ c.data_stalled
  \/ c.transferred = "exact"

\* The rest of cbi_execute, given the command's exchange c and the sense.
\* DATA-OUT and READ (10) must have moved every byte unless a phase stalled.
Coherent(c, sense) ==
  /\ c.adsc_stalled \/ c.completion = sense.code
  /\ \/ ~(cmd.direction = "OUT" \/ cmd.op = "READ_10")
     \/ c.adsc_stalled \/ c.data_stalled
     \/ c.transferred = "exact"

scsi_status(c, sense) ==
  IF c.adsc_stalled \/ c.data_stalled \/ sense.key > 1
  THEN "CHECK_CONDITION" ELSE "GOOD"

SenseExchanged(s, x, rr) ==
  LET c == exchange["command"]
      r == [ZeroResult("execute") EXCEPT !.transferred = c.transferred]
      Protocol(q) == [q EXCEPT !.transport_status = "PROTOCOL"]
  IN /\ job = "sense"
     /\ \/ /\ s # "OK"
           /\ Return([r EXCEPT !.transport_status = map_io_status(s)], rr)
        \/ /\ s = "OK"
           /\ ~SenseUsable(x)
           /\ Return(Protocol(r), TRUE)
        \/ /\ s = "OK"
           /\ SenseUsable(x)
           /\ ~Coherent(c, x.sense)
           /\ Return(Protocol([r EXCEPT !.sense = x.sense]), TRUE)
        \/ /\ s = "OK"
           /\ SenseUsable(x)
           /\ Coherent(c, x.sense)
           /\ Return([r EXCEPT !.sense = x.sense,
                               !.scsi_status = scsi_status(c, x.sense)], rr)

RunExchangeReturns(s, x, rr) ==
  \/ ResetExchanged(s, x, rr)
  \/ RequestSenseExchanged(s, x, rr)
  \/ CommandExchanged(s, x, rr)
  \/ SenseExchanged(s, x, rr)

\* phase_io_failure: run_exchange fails with s, and require_recovery is
\* called for the statuses that lose the phase.
PhaseIoFailure(s, x) ==
  RunExchangeReturns(s, x, recovery_required \/ io_status_loses_phase(s))

\* run_exchange goes on to its next phase p with exchange x.
NextPhase(p, x) ==
  /\ pc' = p
  /\ exchange' = [exchange EXCEPT ![job] = x]
  /\ UNCHANGED <<opened, recovery_required, job, cmd, first_failure, result>>
-----------------------------------------------------------------------------
(* run_exchange, one action per adapter call that returns. *)

AdscReturns(s) ==
  LET x == exchange[job]
  IN /\ pc = "adsc"
     /\ \/ /\ s = "STALL"
           /\ RunExchangeReturns("OK", [x EXCEPT !.adsc_stalled = TRUE],
                                 recovery_required)
        \/ /\ s \notin {"OK", "STALL"}
           /\ PhaseIoFailure(s, x)
        \/ /\ s = "OK"
           /\ NextPhase(IF direction = "NONE" THEN "interrupt" ELSE "data", x)

\* bulk_in or bulk_out: n bytes moved; sense is what they decode to when the
\* exchange is a REQUEST SENSE.
BulkReturns(s, n, sense) ==
  LET x == [exchange[job] EXCEPT !.transferred = n, !.sense = sense]
  IN /\ pc = "data"
     /\ \/ /\ s = "STALL"
           /\ NextPhase("clear_stall", [x EXCEPT !.data_stalled = TRUE])
        \/ /\ s \notin {"OK", "STALL"}
           /\ PhaseIoFailure(s, x)
        \/ /\ s = "OK"
           /\ n = "over"
           /\ RunExchangeReturns("PROTOCOL", x, TRUE)
        \/ /\ s = "OK"
           /\ n # "over"
           /\ NextPhase("interrupt", x)

\* The stalled bulk pipe is cleared; the completion follows all the same.
ClearStallReturns(s) ==
  /\ pc = "clear_stall"
  /\ \/ s # "OK" /\ PhaseIoFailure(s, exchange[job])
     \/ s = "OK" /\ NextPhase("interrupt", exchange[job])

\* exact: the interrupt carried exactly M65_CBI_STATUS_LENGTH bytes.
InterruptReturns(s, exact, code) ==
  LET x == [exchange[job] EXCEPT !.completion = code]
  IN /\ pc = "interrupt"
     /\ \/ s # "OK" /\ PhaseIoFailure(s, exchange[job])
        \/ s = "OK" /\ ~exact /\ RunExchangeReturns("PROTOCOL", x, TRUE)
        \/ s = "OK" /\ exact /\ RunExchangeReturns("OK", x, recovery_required)
-----------------------------------------------------------------------------
(* recover_if_required: prepare, the reset exchange above, both clears,    *)
(* finish.                                                                 *)

PrepareReturns(s) ==
  /\ pc = "prepare"
  /\ \/ /\ s # "OK"
        /\ Return(Bare("execute", map_io_status(s)), recovery_required)
     \/ /\ s = "OK"
        /\ EnterExchange("reset", exchange)
        /\ first_failure' = "OK"
        /\ UNCHANGED recovery_required

ClearInReturns(s) ==
  /\ pc = "clear_in"
  /\ pc' = "clear_out"
  /\ first_failure' = s
  /\ UNCHANGED <<opened, recovery_required, job, cmd, exchange, result>>

ClearOutReturns(s) ==
  /\ pc = "clear_out"
  /\ pc' = "finish"
  /\ first_failure' = IF first_failure = "OK" THEN s ELSE first_failure
  /\ UNCHANGED <<opened, recovery_required, job, cmd, exchange, result>>

\* Mutant: only the adapter's finish decides.
MutAlwaysRecovered == TRUE

\* The value of the local recovered: reset_completed && no failure so far.
recovered == first_failure = "OK"

FinishReturns(s) ==
  LET failure == IF recovered THEN s ELSE first_failure
  IN /\ pc = "finish"
     /\ \/ /\ failure # "OK"
           /\ Return(Bare("execute", map_io_status(failure)),
                     recovery_required)
        \/ /\ failure = "OK"
           /\ EnterExchange("command", exchange)
           /\ recovery_required' = FALSE
           /\ UNCHANGED first_failure
-----------------------------------------------------------------------------
(* The transport operations the workflow calls. *)

\* cbi_acquire
AcquireCall ==
  /\ pc = "idle"
  /\ \/ /\ opened
        /\ Return(Bare("acquire", "OK"), recovery_required)
     \/ /\ ~opened
        /\ pc' = "open_seize"
        /\ result' = ZeroResult("none")
        /\ UNCHANGED <<opened, recovery_required, job, cmd, exchange,
                       first_failure>>

OpenReturns(s) ==
  /\ pc = "open_seize"
  /\ pc' = "idle"
  /\ opened' = (s = "OK")
  /\ recovery_required' = (recovery_required /\ s # "OK")
  /\ result' = Bare("acquire", map_io_status(s))
  /\ UNCHANGED <<job, cmd, exchange, first_failure>>

\* cbi_release
ReleaseCall ==
  /\ pc = "idle"
  /\ \/ /\ ~opened
        /\ Return(Bare("release", "OK"), recovery_required)
     \/ /\ opened
        /\ pc' = "close"
        /\ result' = ZeroResult("none")
        /\ UNCHANGED <<opened, recovery_required, job, cmd, exchange,
                       first_failure>>

CloseReturns(s) ==
  /\ pc = "close"
  /\ pc' = "idle"
  /\ opened' = (s \notin {"OK", "NO_DEVICE"})
  /\ result' = Bare("release", map_io_status(s))
  /\ UNCHANGED <<recovery_required, job, cmd, exchange, first_failure>>

\* Mutant: the opened flag is not looked at.
MutExecuteUnopened(c) ==
  \/ ~c.allowed
  \/ c.cdb_length > 12
  \/ c.direction = "OUT" /\ c.op # "MODE_SELECT_10"

\* The commands cbi_execute refuses before any I/O.
Refused(c) ==
  \/ ~opened
  \/ ~c.allowed
  \/ c.cdb_length > 12
  \/ c.direction = "OUT" /\ c.op # "MODE_SELECT_10"

\* Mutant: the debt is forgotten when the next command comes.
MutNoRecovery == FALSE

\* recover_if_required has something to do.
RecoveryNeeded == recovery_required

\* cbi_execute, up to its first adapter call.
ExecuteCall(c) ==
  /\ pc = "idle"
  /\ cmd' = c
  /\ \/ /\ Refused(c)
        /\ pc' = "idle"
        /\ result' = Bare("execute", "PROTOCOL")
        /\ UNCHANGED job
     \/ /\ ~Refused(c)
        /\ pc' = IF RecoveryNeeded THEN "prepare" ELSE "adsc"
        /\ job' = IF RecoveryNeeded THEN "reset" ELSE "command"
        /\ result' = ZeroResult("none")
  /\ UNCHANGED <<opened, recovery_required, exchange, first_failure>>

\* cbi_destroy: close if still opened, then free everything.
DestroyCall ==
  /\ pc = "idle"
  /\ pc' = IF opened THEN "destroy_close" ELSE "destroyed"
  /\ UNCHANGED <<opened, recovery_required, job, cmd, exchange,
                 first_failure, result>>

\* Whatever the adapter's close returned is ignored.
DestroyCloseReturns ==
  /\ pc = "destroy_close"
  /\ pc' = "destroyed"
  /\ opened' = FALSE
  /\ UNCHANGED <<recovery_required, job, cmd, exchange, first_failure, result>>
-----------------------------------------------------------------------------
\* What a bulk phase can have delivered: only REQUEST SENSE data is decoded.
SenseData ==
  IF job = "sense" \/ (job = "command" /\ cmd.op = "REQUEST_SENSE")
  THEN Sense ELSE {NoSense}

\* The adapter call in progress returns, with any outcome.
IoReturns ==
  \/ \E s \in IoStatus : OpenReturns(s)
  \/ \E s \in IoStatus : CloseReturns(s)
  \/ \E s \in IoStatus : PrepareReturns(s)
  \/ \E s \in IoStatus : AdscReturns(s)
  \/ \E s \in IoStatus, n \in Size, d \in SenseData : BulkReturns(s, n, d)
  \/ \E s \in IoStatus : ClearStallReturns(s)
  \/ \E s \in IoStatus, e \in BOOLEAN, k \in Codes : InterruptReturns(s, e, k)
  \/ \E s \in IoStatus : ClearInReturns(s)
  \/ \E s \in IoStatus : ClearOutReturns(s)
  \/ \E s \in IoStatus : FinishReturns(s)
  \/ DestroyCloseReturns

Calls ==
  \/ AcquireCall
  \/ ReleaseCall
  \/ \E c \in Commands : ExecuteCall(c)
  \/ DestroyCall

Next == IoReturns \/ Calls

Spec == Init /\ [][Next]_vars

\* Every adapter call is bounded by the command's timeout_ms, so it returns.
FairSpec == Spec /\ WF_vars(IoReturns)
-----------------------------------------------------------------------------
(* Properties *)

\* While the engine owes a Command Block Reset, the only exchange it runs is
\* the reset block itself (docs/architecture.md: "The next otherwise-valid UFI
\* command cannot run until the engine completes the CBI 1.1 Command Block
\* Reset sequence"); and it never runs a reset that is not owed.
RecoveryGatesCommands ==
  pc \in PhasePc => (recovery_required <=> job = "reset")

\* What execute reports agrees with the debt it leaves: a command that timed
\* out or failed with an I/O error leaves a recovery owed (or the failed
\* recovery still owed), and one that reports OK leaves none, so the next
\* command (the workflow's restoring MODE SELECT) starts from a known phase.
ReportMatchesDebt ==
  pc = "idle" /\ result.call = "execute" =>
    /\ result.transport_status \in {"TIMEOUT", "IO"} => recovery_required
    /\ result.transport_status = "OK" => ~recovery_required

\* Execute reports GOOD in this step for a command other than REQUEST SENSE.
ReportsGood ==
  /\ pc # "idle" /\ pc' = "idle"
  /\ result'.call = "execute"
  /\ result'.transport_status = "OK"
  /\ result'.scsi_status = "GOOD"
  /\ cmd.op # "REQUEST_SENSE"

\* The command's exchange and the sense's agree, and the data is complete.
Earned ==
  LET c == exchange["command"] IN
  /\ job = "sense"
  /\ ~c.adsc_stalled /\ ~c.data_stalled
  /\ result'.sense = exchange["sense"].sense
  /\ result'.sense.valid /\ result'.sense.key <= 1
  /\ result'.sense.code = c.completion
  /\ cmd.op \in {"READ_10", "MODE_SELECT_10"} => result'.transferred = "exact"

\* GOOD is earned by two exchanges that agree: neither phase of the command
\* stalled, the completion interrupt carried the same ASC/ASCQ as the REQUEST
\* SENSE that followed, its key is no failure, and a command whose data must
\* be complete moved all of it.
GoodIsEarned == [][ReportsGood => Earned]_vars

\* The debt is cleared by nothing but a whole reset (its exchange without a
\* stall, completion zero, both pipe clears and the adapter's finish OK) or
\* by seizing the interface anew.
DebtClearedOnlyByReset ==
  [][recovery_required /\ ~recovery_required' =>
       \/ pc = "open_seize" /\ opened'
       \/ /\ pc = "finish" /\ job' = "command" /\ pc' = "adsc"
          /\ exchange["reset"] = ZeroExchange
          /\ first_failure = "OK"]_vars
=============================================================================
