------------------------------ MODULE ScsiTask ------------------------------
(***************************************************************************)
(* The SCSITask transport of src/scsi_macos.c: the creation of a transport *)
(* by a walk up the I/O Registry, and its four operations.  Between two    *)
(* steps the code is in the IOKit call named by pc; an action is the code  *)
(* from the return of that call to the next one.  refs is the set of the   *)
(* objects the process holds a reference to.                               *)
(***************************************************************************)
EXTENDS Naturals

CONSTANT Depth      \* registry entries between the medium and the root

ASSUME DepthAssumption == Depth \in Nat \ {0}

VARIABLES
  pc,         \* the IOKit call in progress, "idle" or "gone"
  entry,      \* copy_task_interface's current: 0 is the medium
  last,       \* last_result of the walk
  refs,       \* objects referenced: entry, plugin, device, task
  exclusive,  \* MacScsiContext.exclusive
  granted,    \* the kernel's user client has exclusive access
  status,     \* *status of create
  result      \* what the last operation answered

vars == <<pc, entry, last, refs, exclusive, granted, status, result>>

\* IOReturn codes that map_io_return tells apart.
IOReturn == {"success", "not_privileged", "no_device", "timeout", "other"}

map_io_return(r) ==
  CASE r = "success" -> "OK"
    [] r = "not_privileged" -> "PERMISSION"
    [] r = "no_device" -> "NO_DEVICE"
    [] r = "timeout" -> "TIMEOUT"
    [] OTHER -> "IO"

\* The calls of mac_execute.
TaskPc == {"create_task", "set_cdb", "set_data", "set_timeout", "run_task"}

\* An answer; scsi_status is 0, GOOD, until the task has run.
Bare(op, s) ==
  [op |-> op, transport_status |-> s, scsi_status |-> "GOOD"]

\* m65_scsi_transport_create is entered; kIOReturnUnsupported is "other".
ScsiInit ==
  /\ pc = "match"
  /\ entry = 0
  /\ last = "other"
  /\ refs = {}
  /\ exclusive = FALSE
  /\ granted = FALSE
  /\ status = "IO"
  /\ result = Bare("none", "OK")
-----------------------------------------------------------------------------
(* m65_scsi_transport_create and copy_task_interface. *)

\* create returns NULL.
CreateFails(s) ==
  /\ pc' = "failed"
  /\ status' = s

\* The name is missing or cannot be matched, or its medium is gone; or the
\* walk starts at the medium, which is referenced.
MatchMedia ==
  /\ pc = "match"
  /\ \/ CreateFails("IO") /\ UNCHANGED refs
     \/ CreateFails("NO_DEVICE") /\ UNCHANGED refs
     \/ /\ pc' = "walk"
        /\ refs' = {"entry"}
        /\ UNCHANGED status
  /\ UNCHANGED <<entry, last, exclusive, granted, result>>

\* One entry of the walk: without the plug-in type the parent is next;
\* otherwise a plug-in is created, and may come with an error all the same.
TryEntry ==
  /\ pc = "walk"
  /\ \/ /\ pc' = "parent"
        /\ UNCHANGED <<last, refs>>
     \/ \E r \in IOReturn, made \in BOOLEAN :
          /\ last' = r
          /\ IF r = "success" /\ made
             THEN pc' = "query" /\ refs' = refs \cup {"plugin"}
             ELSE pc' = "parent" /\ UNCHANGED refs
  /\ UNCHANGED <<entry, exclusive, granted, status, result>>

\* QueryInterface; the plug-in is destroyed in either case.  A query that
\* fails hands out no interface, which is the rule of COM.
QueryInterface ==
  /\ pc = "query"
  /\ \/ /\ pc' = "parent"
        /\ refs' = refs \ {"plugin"}
     \/ /\ pc' = "alloc"
        /\ refs' = (refs \ {"plugin", "entry"}) \cup {"device"}
  /\ UNCHANGED <<entry, last, exclusive, granted, status, result>>

\* The status of a walk that found nothing: a success of the last plug-in
\* without an interface is an I/O error.
WalkStatus ==
  IF map_io_return(last) = "OK" THEN "IO" ELSE map_io_return(last)

\* IORegistryEntryGetParentEntry: the reference moves up, or the walk ends.
NextEntry ==
  /\ pc = "parent"
  /\ \/ /\ entry < Depth
        /\ pc' = "walk"
        /\ entry' = entry + 1
        /\ UNCHANGED <<refs, status>>
     \/ /\ refs' = refs \ {"entry"}
        /\ CreateFails(WalkStatus)
        /\ UNCHANGED entry
  /\ UNCHANGED <<last, exclusive, granted, result>>

\* Both callocs; when one fails the interface is released and the status
\* stays what it was on entry.
Allocate ==
  /\ pc = "alloc"
  /\ \/ /\ pc' = "idle"
        /\ status' = "OK"
        /\ UNCHANGED refs
     \/ /\ CreateFails(status)
        /\ refs' = refs \ {"device"}
  /\ UNCHANGED <<entry, last, exclusive, granted, result>>

Create == MatchMedia \/ TryEntry \/ QueryInterface \/ NextEntry \/ Allocate
-----------------------------------------------------------------------------
(* The operations. *)

Reply(r) ==
  /\ pc' = "idle"
  /\ result' = r
  /\ UNCHANGED <<entry, last, status>>

\* The IOKit call p begins.
Enter(p) ==
  /\ pc' = p
  /\ UNCHANGED <<entry, last, refs, exclusive, granted, status, result>>

\* mac_acquire
AcquireCall ==
  /\ pc = "idle"
  /\ \/ /\ exclusive
        /\ Reply(Bare("acquire", "OK"))
        /\ UNCHANGED <<refs, exclusive, granted>>
     \/ ~exclusive /\ Enter("obtain")

ObtainReturns(r) ==
  /\ pc = "obtain"
  /\ Reply(Bare("acquire", map_io_return(r)))
  /\ granted' = (r = "success")
  /\ exclusive' = (r = "success")
  /\ UNCHANGED refs

\* mac_release
ReleaseCall ==
  /\ pc = "idle"
  /\ \/ /\ ~exclusive
        /\ Reply(Bare("release", "OK"))
        /\ UNCHANGED <<refs, exclusive, granted>>
     \/ exclusive /\ Enter("give_back")

\* Mutant: a failed release is forgotten.
MutForgetFailedRelease(r) ==
  /\ pc = "give_back"
  /\ Reply(Bare("release", map_io_return(r)))
  /\ granted' = (granted /\ r # "success")
  /\ exclusive' = FALSE
  /\ UNCHANGED refs

\* ReleaseExclusiveAccess: the flag follows the kernel.
GiveBackReturns(r) ==
  /\ pc = "give_back"
  /\ Reply(Bare("release", map_io_return(r)))
  /\ granted' = (granted /\ r # "success")
  /\ exclusive' = (r # "success")
  /\ UNCHANGED refs

\* mac_execute, up to CreateSCSITask; allowed is m65_validate_command's
\* verdict.
ExecuteCall(allowed) ==
  /\ pc = "idle"
  /\ \/ /\ ~exclusive \/ ~allowed
        /\ Reply(Bare("execute", "PROTOCOL"))
        /\ UNCHANGED <<refs, exclusive, granted>>
     \/ exclusive /\ allowed /\ Enter("create_task")

CreateTaskReturns(made) ==
  /\ pc = "create_task"
  /\ \/ /\ ~made
        /\ Reply(Bare("execute", "IO"))
        /\ UNCHANGED <<refs, exclusive, granted>>
     \/ /\ made
        /\ pc' = "set_cdb"
        /\ refs' = refs \cup {"task"}
        /\ UNCHANGED <<entry, last, exclusive, granted, status, result>>

\* Mutant: the early exits return without the cleanup label.
MutEarlyReturn(r) ==
  /\ Reply(r)
  /\ refs' = IF pc = "run_task" THEN refs \ {"task"} ELSE refs
  /\ UNCHANGED <<exclusive, granted>>

\* The cleanup label: the task is released on every path.
Cleanup(r) ==
  /\ Reply(r)
  /\ refs' = refs \ {"task"}
  /\ UNCHANGED <<exclusive, granted>>

\* SetCommandDescriptorBlock, SetScatterGatherEntries, SetTimeoutDuration:
\* the first that fails ends the command.
SetReturns(r) ==
  LET next == [set_cdb |-> "set_data", set_data |-> "set_timeout",
               set_timeout |-> "run_task"]
  IN /\ pc \in DOMAIN next
     /\ \/ r = "success" /\ Enter(next[pc])
        \/ r # "success" /\ Cleanup(Bare("execute", map_io_return(r)))

\* ExecuteTaskSync.  The byte count fits size_t in a 64-bit build.
RunTaskReturns(r, s) ==
  /\ pc = "run_task"
  /\ Cleanup([Bare("execute", map_io_return(r)) EXCEPT !.scsi_status = s])

\* mac_destroy: exclusive access is given back first, its failure ignored;
\* the interface goes last and closes the user client.
DestroyCall ==
  /\ pc = "idle"
  /\ \/ exclusive /\ Enter("destroy")
     \/ /\ ~exclusive
        /\ pc' = "gone"
        /\ refs' = refs \ {"device"}
        /\ granted' = FALSE
        /\ UNCHANGED <<entry, last, exclusive, status, result>>

DestroyReturns ==
  /\ pc = "destroy"
  /\ pc' = "gone"
  /\ refs' = refs \ {"device"}
  /\ exclusive' = FALSE
  /\ granted' = FALSE
  /\ UNCHANGED <<entry, last, status, result>>

IoReturns ==
  \/ \E r \in IOReturn : ObtainReturns(r) \/ GiveBackReturns(r)
  \/ \E made \in BOOLEAN : CreateTaskReturns(made)
  \/ \E r \in IOReturn : SetReturns(r)
  \/ \E r \in IOReturn, s \in {"GOOD", "NOT_GOOD"} : RunTaskReturns(r, s)
  \/ DestroyReturns

Calls ==
  \/ AcquireCall
  \/ ReleaseCall
  \/ \E allowed \in BOOLEAN : ExecuteCall(allowed)
  \/ DestroyCall

ScsiNext == Create \/ IoReturns \/ Calls

\* IOKit calls return; ExecuteTaskSync is bounded by SetTimeoutDuration.
ScsiSpec == ScsiInit /\ [][ScsiNext]_vars /\ WF_vars(Create \/ IoReturns)
-----------------------------------------------------------------------------
(* Properties *)

\* Whatever fails on the way, a transport at rest holds exactly its device
\* interface, and nothing is left behind by a create that returned NULL or
\* by destroy: no registry entry, plug-in, task or exclusive access.  A NULL
\* never comes with status OK, which run_selected would report as success.
NothingLeaks ==
  /\ pc = "idle" => refs = {"device"}
  /\ pc \in {"failed", "gone"} => refs = {} /\ ~granted
  /\ pc = "failed" => status # "OK"

\* The operation of M65TransportOps that an IOKit call is made for; creating
\* the transport is no operation of it.
CallOf ==
  CASE pc \in TaskPc -> "execute"
    [] pc = "obtain" -> "acquire"
    [] pc = "give_back" -> "release"
    [] pc = "destroy" -> "destroy"
    [] pc = "gone" -> "gone"
    [] OTHER -> "none"

ReplyOf ==
  IF CallOf = "none"
  THEN [op |-> result.op, status |-> result.transport_status,
        good |-> /\ result.op = "execute"
                 /\ result.transport_status = "OK"
                 /\ result.scsi_status = "GOOD"]
  ELSE [op |-> "none", status |-> "OK", good |-> FALSE]

Contract == INSTANCE Transport WITH
  held <- granted, call <- CallOf, reply <- ReplyOf

\* This transport keeps the same promises as the CBI engine, with the
\* kernel's view of exclusive access (not the flag) as what is held: a
\* command runs only while the kernel grants it, a release that reports OK
\* has given it back, and every operation ends.
ScsiImplementsTransport == Contract!FairSpec
=============================================================================
