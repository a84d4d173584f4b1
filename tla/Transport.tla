----------------------------- MODULE Transport -----------------------------
(***************************************************************************)
(* What a transport promises the probe workflow, whatever lies under it:   *)
(* the four operations of M65TransportOps (include/m65/transport.h) as     *)
(* src/probe.c relies on them.  The caller is sequential.  A call either   *)
(* answers at once, without touching the device, or stays in progress      *)
(* until the device has been dealt with.                                   *)
(***************************************************************************)

\* M65TransportStatus
Status == {"OK", "PERMISSION", "NO_DEVICE", "TIMEOUT", "IO", "PROTOCOL"}

VARIABLES
  held,    \* the transport has exclusive access to the device
  call,    \* the operation in progress, "none", or "gone" once destroyed
  reply    \* what the last operation answered; NoReply while one runs

vars == <<held, call, reply>>

Answer(op, s, good) == [op |-> op, status |-> s, good |-> good]

\* Nothing answered yet.
NoReply == Answer("none", "OK", FALSE)

Init ==
  /\ held = FALSE
  /\ call = "none"
  /\ reply = NoReply

\* An operation that has nothing to ask the device answers at once.
AnswersAtOnce(op, s) ==
  /\ call = "none"
  /\ reply' = Answer(op, s, FALSE)
  /\ UNCHANGED <<held, call>>

\* An operation that needs the device begins.
Begins(op) ==
  /\ call = "none"
  /\ call' = op
  /\ reply' = NoReply
  /\ UNCHANGED held

\* It ends with status s and leaves the device held or not.
Ends(op, s, good, h) ==
  /\ call = op
  /\ call' = "none"
  /\ reply' = Answer(op, s, good)
  /\ held' = h

\* Exclusive access is asked for once; success is the only way to hold it.
Acquire == IF held THEN AnswersAtOnce("acquire", "OK") ELSE Begins("acquire")
AcquireEnds == \E s \in Status : Ends("acquire", s, FALSE, s = "OK")

\* A command that is not allowed, or comes without exclusive access, is
\* refused without touching the device.
Refuse == AnswersAtOnce("execute", "PROTOCOL")
Execute == held /\ Begins("execute")

\* GOOD is an answer of the device, so it comes with status OK only.
ExecuteEnds ==
  \E s \in Status, good \in BOOLEAN :
    (good => s = "OK") /\ Ends("execute", s, good, held)

\* A release that reports OK has given the device back.  After a failure the
\* transport may still hold it, and destroying it gives it back.
Release == IF held THEN Begins("release") ELSE AnswersAtOnce("release", "OK")
ReleaseEnds ==
  \E s \in Status, h \in BOOLEAN :
    (s = "OK" => ~h) /\ Ends("release", s, FALSE, h)

\* Destroy has no answer; afterwards nothing is held and no call is possible.
Destroy ==
  /\ call = "none"
  /\ call' = IF held THEN "destroy" ELSE "gone"
  /\ reply' = NoReply
  /\ UNCHANGED held

DestroyEnds ==
  /\ call = "destroy"
  /\ call' = "gone"
  /\ held' = FALSE
  /\ UNCHANGED reply

Ending == AcquireEnds \/ ExecuteEnds \/ ReleaseEnds \/ DestroyEnds

Next ==
  \/ Acquire \/ Refuse \/ Execute \/ Release \/ Destroy
  \/ Ending

Spec == Init /\ [][Next]_vars

\* Every operation ends: the device calls under it are bounded.
FairSpec == Spec /\ WF_vars(Ending)
=============================================================================
