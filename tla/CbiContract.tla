---------------------------- MODULE CbiContract ----------------------------
(***************************************************************************)
(* The CBI engine implements the transport contract: every adapter call is *)
(* part of the operation that pc belongs to, and the answer is what result *)
(* holds once the engine is idle again.                                    *)
(***************************************************************************)
EXTENDS CbiEngine

\* The operation of M65TransportOps that an adapter call is made for.
CallOf ==
  CASE pc = "idle" -> "none"
    [] pc = "open_seize" -> "acquire"
    [] pc = "close" -> "release"
    [] pc = "destroy_close" -> "destroy"
    [] pc = "destroyed" -> "gone"
    [] OTHER -> "execute"

\* command_good in src/probe.c, on what execute returned.
Good ==
  /\ result.call = "execute"
  /\ result.transport_status = "OK"
  /\ result.scsi_status = "GOOD"

ReplyOf ==
  IF pc = "idle"
  THEN [op |-> result.call, status |-> result.transport_status, good |-> Good]
  ELSE [op |-> "none", status |-> "OK", good |-> FALSE]

Contract == INSTANCE Transport WITH
  held <- opened, call <- CallOf, reply <- ReplyOf

\* The engine keeps the promises of a transport: it drives the interface
\* only between a successful acquire and the release, refuses everything
\* else without I/O, never reports GOOD for a failed call, keeps the
\* interface when closing failed, and every operation ends.
ImplementsTransport == Contract!FairSpec
=============================================================================
