----------------------------- MODULE UsbCreate -----------------------------
(***************************************************************************)
(* The life of the USB transport outside its commands, from                *)
(* src/usb_cbi_macos.c: the walk from the medium up to its USB interface,  *)
(* the plug-in, the allocations, the seize with its check of the endpoints *)
(* and the destruction.  at names the call whose answer is awaited; refs   *)
(* is the set of what the process holds.                                   *)
(***************************************************************************)
EXTENDS Naturals

CONSTANTS
  Depth,         \* registry entries above the medium
  EndpointCount  \* endpoints of the interfaces that occur

ASSUME UsbAssumption ==
  Depth \in Nat /\ EndpointCount \subseteq Nat

\* What the code tells apart in IOReturn, in the adapter's codes
\* (map_io_return); "success" is kIOReturnSuccess.
IOFailure == {"PERMISSION", "NO_DEVICE", "TIMEOUT", "STALL", "ERROR",
              "PROTOCOL"}

\* Endpoint kinds: the interrupt endpoint has packets of two bytes or not.
Kind == {"bulk_in", "bulk_out", "interrupt_in", "long_interrupt", "other"}
Role == {"bulk_in", "bulk_out", "interrupt_in"}

VARIABLES
  at,          \* the call awaited, or "idle", "open", "failed", "gone"
  entry,       \* the registry entry the walk stands at
  refs,        \* objects held
  status,      \* *status of create
  answer,      \* what the last seize answered
  endpoints,   \* the endpoints of the interface
  pipe,        \* the pipe inspect_endpoints looks at
  pipes        \* the pipe found for each role, 0 for none

usbvars == <<at, entry, refs, status, answer, endpoints, pipe, pipes>>
setup == <<endpoints, pipe, pipes>>

NoPipes == [r \in Role |-> 0]

UsbInit ==
  /\ at = "match"
  /\ entry = 0
  /\ refs = {}
  /\ status = "IO"
  /\ answer = "none"
  /\ endpoints \in UNION {[1..n -> Kind] : n \in EndpointCount}
  /\ pipe = 0
  /\ pipes = NoPipes
-----------------------------------------------------------------------------
(* m65_usb_cbi_transport_create. *)

transport_status_for_cbi(s) ==
  CASE s \in {"PERMISSION", "NO_DEVICE", "TIMEOUT", "PROTOCOL"} -> s
    [] s \in {"STALL", "ERROR"} -> "IO"

\* create returns NULL.
ReturnNull(s) ==
  /\ at' = "failed"
  /\ status' = s

\* IOBSDNameMatching and IOServiceGetMatchingService.
MatchName ==
  /\ at = "match"
  /\ \/ ReturnNull("NO_DEVICE") /\ UNCHANGED refs
     \/ at' = "walk" /\ refs' = {"entry"} /\ UNCHANGED status
  /\ UNCHANGED <<entry, answer, setup>>

\* The parent takes the place of an entry that is not the interface; without
\* a parent there is no interface.
NextParent ==
  /\ at = "walk"
  /\ \/ entry < Depth /\ entry' = entry + 1 /\ UNCHANGED <<at, refs, status>>
     \/ ReturnNull("NO_DEVICE") /\ refs' = {} /\ UNCHANGED entry
  /\ UNCHANGED <<answer, setup>>

\* The entry is the interface: its class, IDs and plug-in type fit.
FoundInterface ==
  /\ at = "walk"
  /\ at' = "plugin"
  /\ UNCHANGED <<entry, refs, status, answer, setup>>

\* IOCreatePlugInInterfaceForService; the entry is released either way, and
\* a plug-in that comes with an error is destroyed.
PluginCreated ==
  /\ at = "plugin"
  /\ at' = "query"
  /\ refs' = {"plugin"}
  /\ UNCHANGED <<entry, status, answer, setup>>

PluginRefused ==
  /\ at = "plugin"
  /\ \/ ReturnNull("IO")                          \* success, but NULL
     \/ \E s \in IOFailure : ReturnNull(transport_status_for_cbi(s))
  /\ refs' = {}
  /\ UNCHANGED <<entry, answer, setup>>

\* IODestroyPlugInInterface comes before the answer is looked at.
PluginDestroyed(r) == r \ {"plugin"}

\* QueryInterface; an interface that comes with an error is released.
Queried ==
  /\ at = "query"
  /\ \/ /\ at' = "alloc"
        /\ refs' = PluginDestroyed(refs) \cup {"interface"}
        /\ UNCHANGED status
     \/ /\ ReturnNull("IO")
        /\ refs' = PluginDestroyed(refs)
  /\ UNCHANGED <<entry, answer, setup>>

\* The two callocs here, and those of m65_cbi_transport_create, after whose
\* failure mac_destroy_io cleans up.  The status is still IO.
Allocated ==
  /\ at = "alloc"
  /\ \/ /\ at' = "idle"
        /\ status' = "OK"
        /\ refs' = refs \cup {"io", "engine"}
     \/ ReturnNull(status) /\ refs' = refs \ {"interface"}
  /\ UNCHANGED <<entry, answer, setup>>
-----------------------------------------------------------------------------
(* mac_open_seize, with inspect_endpoints pipe by pipe. *)

Answered(s) ==
  /\ at' = "idle"
  /\ answer' = s
  /\ UNCHANGED <<entry, status>>

OpenSeize ==
  /\ at = "idle"
  /\ \/ /\ \E s \in IOFailure : Answered(s)
        /\ UNCHANGED <<refs, setup>>
     \/ /\ at' = "descriptors"
        /\ refs' = refs \cup {"open"}
        /\ UNCHANGED <<entry, status, answer, setup>>

\* Mutant: the interface stays open when the endpoints do not fit.
MutStaysOpen == UNCHANGED refs

\* USBInterfaceClose on the failing paths of mac_open_seize.
SeizeUndone == refs' = refs \ {"open", "source"}

\* The descriptors cannot be read, or the class or the number of endpoints
\* is wrong; otherwise the search starts over.
DescriptorsRead ==
  /\ at = "descriptors"
  /\ \/ /\ Answered("PROTOCOL")
        /\ SeizeUndone
        /\ UNCHANGED setup
     \/ /\ DOMAIN endpoints = 1..3
        /\ at' = "pipe"
        /\ pipe' = 1
        /\ pipes' = NoPipes
        /\ UNCHANGED <<entry, refs, status, answer, endpoints>>

\* The endpoint has a role, by type, direction and packet size, that is not
\* filled yet.
Fills(k) == k \in Role /\ pipes[k] = 0

\* GetPipeProperties of the next pipe.
PipeRead ==
  /\ at = "pipe" /\ pipe <= 3
  /\ \/ /\ Fills(endpoints[pipe])
        /\ pipes' = [pipes EXCEPT ![endpoints[pipe]] = pipe]
        /\ pipe' = pipe + 1
        /\ UNCHANGED <<at, entry, refs, status, answer, endpoints>>
     \/ /\ ~Fills(endpoints[pipe])
        /\ Answered("PROTOCOL")
        /\ SeizeUndone
        /\ UNCHANGED setup

PipeUnreadable ==
  /\ at = "pipe" /\ pipe <= 3
  /\ Answered("PROTOCOL")
  /\ SeizeUndone
  /\ UNCHANGED setup

PipesComplete ==
  /\ at = "pipe" /\ pipe = 4
  /\ \/ /\ \A r \in Role : pipes[r] # 0
        /\ at' = "source"
        /\ UNCHANGED <<entry, refs, status, answer, setup>>
     \/ /\ \E r \in Role : pipes[r] = 0
        /\ Answered("PROTOCOL")
        /\ SeizeUndone
        /\ UNCHANGED setup

\* CreateInterfaceAsyncEventSource, which may also return NULL.
SourceCreated ==
  /\ at = "source"
  /\ \/ /\ at' = "open"
        /\ answer' = "OK"
        /\ refs' = refs \cup {"source"}
        /\ UNCHANGED <<entry, status>>
     \/ /\ \E s \in IOFailure : Answered(s)
        /\ SeizeUndone
  /\ UNCHANGED setup

\* mac_close of an open adapter without a pending request.
CloseInterface ==
  /\ at = "open"
  /\ \E s \in IOFailure \cup {"OK"} : Answered(s)
  /\ refs' = refs \ {"open", "source"}
  /\ UNCHANGED setup

\* cbi_destroy and mac_destroy_io, which closes first.
DestroyIo ==
  /\ at \in {"idle", "open"}
  /\ at' = "gone"
  /\ refs' = {}
  /\ UNCHANGED <<entry, status, answer, setup>>

Creation ==
  \/ MatchName \/ NextParent \/ FoundInterface
  \/ PluginCreated \/ PluginRefused \/ Queried \/ Allocated

Seizing ==
  \/ OpenSeize \/ DescriptorsRead \/ PipeRead \/ PipeUnreadable
  \/ PipesComplete \/ SourceCreated

UsbNext == Creation \/ Seizing \/ CloseInterface \/ DestroyIo

UsbSpec == UsbInit /\ [][UsbNext]_usbvars
-----------------------------------------------------------------------------
(* Properties. *)

\* What the process holds is what its state promises, after every failing
\* call as well: a seize that failed has closed the interface again, a create
\* that returned NULL has a reason, and it and a destruction leave nothing
\* behind.  Commands run only over an interface with exactly one bulk-in, one
\* bulk-out and one two-byte interrupt endpoint, in any order, and through
\* the pipes of those, so that data never goes to the wrong end.
HoldsWhatItNeeds ==
  /\ at \in {"failed", "gone"} => refs = {}
  /\ at = "failed" => status # "OK"
  /\ at \in {"idle", "open"} => status = "OK"
  /\ at = "idle" => refs = {"interface", "io", "engine"}
  /\ at = "open" =>
       /\ refs = {"interface", "io", "engine", "open", "source"}
       /\ DOMAIN endpoints = 1..3
       /\ {endpoints[p] : p \in 1..3} = Role
       /\ \A r \in Role : pipes[r] \in 1..3 /\ endpoints[pipes[r]] = r
=============================================================================
