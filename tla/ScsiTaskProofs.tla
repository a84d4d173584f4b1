--------------------------- MODULE ScsiTaskProofs ---------------------------
(***************************************************************************)
(* Proofs about the SCSITask transport for a registry of any depth.        *)
(***************************************************************************)
EXTENDS ScsiTask, TLAPS

\* The IOKit calls of m65_scsi_transport_create.
CreatePc == {"match", "walk", "query", "parent", "alloc"}

ResultType ==
  [op : {"none", "acquire", "execute", "release"},
   transport_status : Contract!Status, scsi_status : {"GOOD", "NOT_GOOD"}]

ScsiTypeOK ==
  /\ pc \in CreatePc \cup TaskPc
            \cup {"idle", "obtain", "give_back", "destroy", "failed", "gone"}
  /\ last \in IOReturn
  /\ exclusive \in BOOLEAN
  /\ status \in Contract!Status
  /\ result \in ResultType

\* Which references the code holds in each IOKit call.
RefsOf ==
  CASE pc \in {"match", "failed", "gone"} -> {}
    [] pc \in {"walk", "parent"} -> {"entry"}
    [] pc = "query" -> {"entry", "plugin"}
    [] pc \in TaskPc \ {"create_task"} -> {"device", "task"}
    [] OTHER -> {"device"}

\* The flag says what the kernel grants; access is held in every call that
\* needs it and in none that asks for it.
AccessKnown ==
  /\ granted = exclusive
  /\ pc \in TaskPc \cup {"give_back", "destroy"} => exclusive
  /\ pc \in CreatePc \cup {"obtain", "failed", "gone"} => ~exclusive

\* Until it succeeds, create has a status that is no success.
StatusPending == pc \in CreatePc \cup {"failed"} => status # "OK"

ScsiInv ==
  /\ ScsiTypeOK
  /\ refs = RefsOf
  /\ AccessKnown
  /\ StatusPending
-----------------------------------------------------------------------------
\* map_io_return is total and answers OK for a success only.
LEMMA MapIoReturn ==
  ASSUME NEW r \in IOReturn
  PROVE  /\ map_io_return(r) \in Contract!Status
         /\ map_io_return(r) = "OK" <=> r = "success"
  BY DEF map_io_return, IOReturn, Contract!Status

\* The answers are typed.
LEMMA BareType ==
  ASSUME NEW o \in {"none", "acquire", "execute", "release"},
         NEW s \in Contract!Status
  PROVE  /\ Bare(o, s) \in ResultType
         /\ Bare(o, s).op = o
         /\ Bare(o, s).transport_status = s
  BY DEF Bare, ResultType

\* create is entered.
LEMMA ScsiInitInv == ScsiInit => ScsiInv
  <1> SUFFICES ASSUME ScsiInit PROVE ScsiInv
    OBVIOUS
  <1>1. ScsiTypeOK
    BY BareType DEF ScsiInit, ScsiTypeOK, CreatePc, IOReturn, Contract!Status
  <1>2. refs = RefsOf /\ AccessKnown /\ StatusPending
    BY DEF ScsiInit, RefsOf, AccessKnown, StatusPending, CreatePc, TaskPc
  <1> QED
    BY <1>1, <1>2 DEF ScsiInv

\* The steps of create.
LEMMA CreateInv ==
  ASSUME ScsiInv, Create
  PROVE  ScsiInv'
  <1> USE DEF ScsiInv, Create
  <1>1. UNCHANGED <<exclusive, granted, result>>
    BY DEF MatchMedia, TryEntry, QueryInterface, NextEntry, Allocate
  <1>2. /\ pc \in CreatePc
        /\ \/ pc' \in CreatePc /\ status' = status
           \/ pc' = "failed" /\ status' \in Contract!Status /\ status' # "OK"
           \/ pc' = "idle" /\ status' = "OK"
    <2>1. WalkStatus \in Contract!Status /\ WalkStatus # "OK"
      BY MapIoReturn DEF WalkStatus, ScsiTypeOK, Contract!Status
    <2> QED
      BY <2>1 DEF MatchMedia, TryEntry, QueryInterface, NextEntry, Allocate,
           CreateFails, CreatePc, ScsiTypeOK, StatusPending, Contract!Status
  <1>3. last' \in IOReturn
    BY DEF MatchMedia, TryEntry, QueryInterface, NextEntry, Allocate,
         ScsiTypeOK
  <1>4. ScsiTypeOK'
    BY <1>1, <1>2, <1>3 DEF ScsiTypeOK, Contract!Status
  <1>5. refs' = RefsOf'
    BY DEF MatchMedia, TryEntry, QueryInterface, NextEntry, Allocate,
         CreateFails, RefsOf, TaskPc
  <1>6. AccessKnown'
    BY <1>1, <1>2 DEF AccessKnown, CreatePc, TaskPc
  <1>7. StatusPending'
    BY <1>2 DEF StatusPending, CreatePc
  <1> QED
    BY <1>4, <1>5, <1>6, <1>7

\* An operation that answers leaves a transport at rest, when it dropped the
\* task and the flag follows the kernel.
LEMMA ReplyInv ==
  ASSUME ScsiInv, NEW r \in ResultType, Reply(r), refs' = {"device"},
         exclusive' \in BOOLEAN, granted' = exclusive'
  PROVE  ScsiInv'
  <1>1. ScsiTypeOK'
    BY DEF Reply, ScsiInv, ScsiTypeOK
  <1>2. refs' = RefsOf'
    BY DEF Reply, RefsOf, TaskPc
  <1>3. AccessKnown' /\ StatusPending'
    BY DEF Reply, AccessKnown, StatusPending, CreatePc, TaskPc
  <1> QED
    BY <1>1, <1>2, <1>3 DEF ScsiInv

\* A call of IOKit begins that needs the same references and access.
LEMMA EnterInv ==
  ASSUME ScsiInv, NEW p \in TaskPc \cup {"obtain", "give_back", "destroy"},
         Enter(p),
         exclusive <=> p # "obtain",
         refs = IF p \in TaskPc \ {"create_task"} THEN {"device", "task"}
                ELSE {"device"}
  PROVE  ScsiInv'
  <1>1. ScsiTypeOK'
    BY DEF Enter, ScsiInv, ScsiTypeOK
  <1>2. refs' = RefsOf'
    BY DEF Enter, RefsOf, TaskPc
  <1>3. AccessKnown' /\ StatusPending'
    BY DEF Enter, ScsiInv, AccessKnown, StatusPending, CreatePc, TaskPc
  <1> QED
    BY <1>1, <1>2, <1>3 DEF ScsiInv

\* The operations as the workflow calls them.
LEMMA CallsInv ==
  ASSUME ScsiInv, Calls
  PROVE  ScsiInv'
  <1>0. "OK" \in Contract!Status /\ "PROTOCOL" \in Contract!Status
    BY DEF Contract!Status
  <1>1. pc = "idle" /\ refs = {"device"}
    BY DEF Calls, AcquireCall, ReleaseCall, ExecuteCall, DestroyCall, ScsiInv,
         RefsOf, TaskPc
  <1>2. exclusive \in BOOLEAN /\ granted = exclusive
    BY DEF ScsiInv, ScsiTypeOK, AccessKnown
  <1>3. CASE AcquireCall \/ ReleaseCall
    BY <1>0, <1>1, <1>2, <1>3, BareType, ReplyInv, EnterInv
       DEF AcquireCall, ReleaseCall, TaskPc
  <1>4. CASE \E allowed \in BOOLEAN : ExecuteCall(allowed)
    BY <1>0, <1>1, <1>2, <1>4, BareType, ReplyInv, EnterInv
       DEF ExecuteCall, TaskPc
  <1>5. CASE DestroyCall
    <2>1. CASE exclusive /\ Enter("destroy")
      BY <1>1, <1>2, <2>1, EnterInv DEF TaskPc
    <2>2. CASE ~exclusive
      <3>1. /\ pc' = "gone" /\ refs' = {} /\ granted' = FALSE
            /\ UNCHANGED <<last, exclusive, status, result>>
        BY <1>1, <1>5, <2>2 DEF DestroyCall, Enter
      <3>2. ScsiTypeOK'
        BY <3>1 DEF ScsiInv, ScsiTypeOK
      <3>3. refs' = RefsOf' /\ StatusPending'
        BY <3>1 DEF RefsOf, StatusPending, CreatePc, TaskPc
      <3>4. AccessKnown'
        BY <1>2, <2>2, <3>1 DEF AccessKnown, CreatePc, TaskPc
      <3> QED
        BY <3>2, <3>3, <3>4 DEF ScsiInv
    <2> QED
      BY <1>5, <2>1, <2>2 DEF DestroyCall
  <1> QED
    BY <1>3, <1>4, <1>5 DEF Calls

\* The IOKit calls of the operations return.
LEMMA IoReturnsInv ==
  ASSUME ScsiInv, IoReturns
  PROVE  ScsiInv'
  <1>0. "IO" \in Contract!Status
    BY DEF Contract!Status
  <1>1. /\ granted = exclusive /\ exclusive \in BOOLEAN
        /\ pc \in TaskPc \cup {"give_back", "destroy"} => exclusive
        /\ pc \in {"obtain", "give_back", "create_task", "destroy"}
             => refs = {"device"}
        /\ pc \in TaskPc \ {"create_task"} => refs = {"device", "task"}
    BY DEF ScsiInv, ScsiTypeOK, AccessKnown, RefsOf, TaskPc
  <1>2. CASE \E r \in IOReturn : ObtainReturns(r)
    BY <1>1, <1>2, MapIoReturn, BareType, ReplyInv DEF ObtainReturns
  <1>3. CASE \E r \in IOReturn : GiveBackReturns(r)
    <2>1. PICK r \in IOReturn : GiveBackReturns(r)
      BY <1>3
    <2>2. granted' = exclusive' /\ exclusive' \in BOOLEAN
      BY <1>1, <2>1 DEF GiveBackReturns
    <2> QED
      BY <1>1, <2>1, <2>2, MapIoReturn, BareType, ReplyInv
         DEF GiveBackReturns
  <1>4. CASE \E made \in BOOLEAN : CreateTaskReturns(made)
    <2>1. CASE pc' = "set_cdb"
      <3>1. /\ pc = "create_task" /\ refs' = {"device", "task"}
            /\ UNCHANGED <<last, exclusive, granted, status, result>>
        BY <1>1, <1>4, <2>1 DEF CreateTaskReturns, Reply
      <3>2. ScsiTypeOK'
        BY <2>1, <3>1 DEF ScsiInv, ScsiTypeOK, TaskPc
      <3>3. refs' = RefsOf' /\ StatusPending'
        BY <2>1, <3>1 DEF RefsOf, StatusPending, CreatePc, TaskPc
      <3>4. AccessKnown'
        BY <1>1, <2>1, <3>1 DEF AccessKnown, CreatePc, TaskPc
      <3> QED
        BY <3>2, <3>3, <3>4 DEF ScsiInv
    <2>2. CASE pc' # "set_cdb"
      BY <1>0, <1>1, <1>4, <2>2, BareType, ReplyInv DEF CreateTaskReturns
    <2> QED
      BY <2>1, <2>2
  <1>5. \A r \in ResultType :
          pc \in TaskPc \ {"create_task"} /\ Cleanup(r) => ScsiInv'
    BY <1>1, ReplyInv DEF Cleanup
  <1>6. CASE \E r \in IOReturn : SetReturns(r)
    <2> DEFINE next == [set_cdb |-> "set_data", set_data |-> "set_timeout",
                        set_timeout |-> "run_task"]
    <2>1. PICK r \in IOReturn : SetReturns(r)
      BY <1>6
    <2>2. /\ pc \in {"set_cdb", "set_data", "set_timeout"}
          /\ next[pc] \in TaskPc \ {"create_task"}
      BY <2>1 DEF SetReturns, TaskPc
    <2>3. \/ Enter(next[pc])
          \/ Cleanup(Bare("execute", map_io_return(r)))
      BY <2>1 DEF SetReturns
    <2> HIDE DEF next
    <2> QED
      BY <1>1, <1>5, <2>2, <2>3, MapIoReturn, BareType, EnterInv DEF TaskPc
  <1>7. CASE \E r \in IOReturn, s \in {"GOOD", "NOT_GOOD"} :
               RunTaskReturns(r, s)
    <2>1. PICK r \in IOReturn, s \in {"GOOD", "NOT_GOOD"} :
            RunTaskReturns(r, s)
      BY <1>7
    <2> DEFINE b == Bare("execute", map_io_return(r))
    <2>2. b \in ResultType
      BY MapIoReturn, BareType
    <2> HIDE DEF b
    <2>3. [b EXCEPT !.scsi_status = s] \in ResultType
      BY <2>2 DEF ResultType
    <2> QED
      BY <1>5, <2>1, <2>3 DEF RunTaskReturns, TaskPc, b
  <1>8. CASE DestroyReturns
    <2>1. /\ pc' = "gone" /\ refs' = {} /\ granted' = FALSE
          /\ exclusive' = FALSE /\ UNCHANGED <<last, status, result>>
      BY <1>1, <1>8 DEF DestroyReturns
    <2>2. ScsiTypeOK'
      BY <2>1 DEF ScsiInv, ScsiTypeOK
    <2>3. refs' = RefsOf' /\ StatusPending'
      BY <2>1 DEF RefsOf, StatusPending, CreatePc, TaskPc
    <2>4. AccessKnown'
      BY <2>1 DEF AccessKnown, CreatePc, TaskPc
    <2> QED
      BY <2>2, <2>3, <2>4 DEF ScsiInv
  <1> QED
    BY <1>2, <1>3, <1>4, <1>6, <1>7, <1>8 DEF IoReturns

\* Every step keeps the invariant.
LEMMA ScsiNextInv == ScsiInv /\ [ScsiNext]_vars => ScsiInv'
  <1> SUFFICES ASSUME ScsiInv, [ScsiNext]_vars PROVE ScsiInv'
    OBVIOUS
  <1>1. CASE UNCHANGED vars
    BY <1>1 DEF vars, ScsiInv, ScsiTypeOK, RefsOf, AccessKnown, StatusPending
  <1> QED
    BY <1>1, CreateInv, IoReturnsInv, CallsInv DEF ScsiNext

\* The inductive invariant of the transport.
THEOREM ScsiInvariant == ScsiSpec => []ScsiInv
  <1>1. ScsiSpec => ScsiInit /\ [][ScsiNext]_vars
    BY PTL DEF ScsiSpec
  <1> QED
    BY <1>1, ScsiInitInv, ScsiNextInv, PTL

\* No path through create, the operations and destroy leaves a reference or
\* exclusive access behind, and a NULL transport never comes with OK.
THEOREM NoLeak == ScsiSpec => []NothingLeaks
  <1>1. ScsiInv => NothingLeaks
    BY DEF ScsiInv, NothingLeaks, RefsOf, AccessKnown, StatusPending, TaskPc
  <1> QED
    BY <1>1, ScsiInvariant, PTL
-----------------------------------------------------------------------------
(* The transport contract. *)

\* command_good of src/probe.c, on an answer r.
GoodAnswer(r) ==
  /\ r.op = "execute"
  /\ r.transport_status = "OK"
  /\ r.scsi_status = "GOOD"

\* An operation that answers r answers it in the contract.
LEMMA AnswerMapped ==
  ASSUME NEW r, Reply(r)
  PROVE  /\ CallOf' = "none"
         /\ ReplyOf' = Contract!Answer(r.op, r.transport_status, GoodAnswer(r))
  BY DEF Reply, CallOf, ReplyOf, TaskPc, Contract!Answer, GoodAnswer

\* A step in which an operation o that was in progress answers r.
LEMMA EndMapped ==
  ASSUME NEW r \in ResultType, Reply(r), CallOf = r.op,
         \/ r.op = "acquire" /\ granted' = (r.transport_status = "OK")
         \/ r.op = "execute" /\ granted' = granted
         \/ /\ r.op = "release" /\ granted' \in BOOLEAN
            /\ r.transport_status = "OK" => ~granted'
  PROVE  Contract!Next
  <1>0. /\ r.transport_status \in Contract!Status
        /\ GoodAnswer(r) \in BOOLEAN
    BY DEF ResultType, GoodAnswer
  <1>1. \A h : granted' = h =>
          Contract!Ends(r.op, r.transport_status, GoodAnswer(r), h)
    BY AnswerMapped DEF Contract!Ends
  <1>2. CASE r.op = "acquire"
    <2>1. GoodAnswer(r) = FALSE
      BY <1>2 DEF GoodAnswer
    <2>2. Contract!Ends("acquire", r.transport_status, FALSE,
                        r.transport_status = "OK")
      BY <1>1, <1>2, <2>1
    <2> QED
      BY <1>0, <2>2 DEF Contract!Next, Contract!Ending, Contract!AcquireEnds
  <1>3. CASE r.op = "execute"
    <2>1. Contract!Ends("execute", r.transport_status, GoodAnswer(r), granted)
      BY <1>1, <1>3
    <2>2. GoodAnswer(r) => r.transport_status = "OK"
      BY DEF GoodAnswer
    <2> QED
      BY <1>0, <2>1, <2>2
         DEF Contract!Next, Contract!Ending, Contract!ExecuteEnds
  <1>4. CASE r.op = "release"
    <2>1. GoodAnswer(r) = FALSE
      BY <1>4 DEF GoodAnswer
    <2>2. Contract!Ends("release", r.transport_status, FALSE, granted')
      BY <1>1, <1>4, <2>1
    <2> QED
      BY <1>0, <1>4, <2>2 DEF Contract!Next, Contract!Ending,
         Contract!ReleaseEnds
  <1> QED
    BY <1>2, <1>3, <1>4

\* Creating the transport is invisible to its user.
LEMMA CreateMapped ==
  ASSUME ScsiInv, Create
  PROVE  UNCHANGED Contract!vars
  <1>1. /\ pc \in CreatePc /\ pc' \in CreatePc \cup {"failed", "idle"}
        /\ UNCHANGED <<granted, result>>
    BY DEF Create, MatchMedia, TryEntry, QueryInterface, NextEntry, Allocate,
         CreateFails, CreatePc
  <1>2. CallOf = "none" /\ CallOf' = "none"
    BY <1>1 DEF CallOf, CreatePc, TaskPc
  <1> QED
    BY <1>1, <1>2 DEF ReplyOf, Contract!vars

\* A call that reaches IOKit begins the operation it belongs to; one that does
\* not answers at once.
LEMMA CallsMapped ==
  ASSUME ScsiInv, Calls
  PROVE  Contract!Next
  <1>0. /\ pc = "idle" /\ CallOf = "none" /\ granted = exclusive
        /\ exclusive \in BOOLEAN
    BY DEF Calls, AcquireCall, ReleaseCall, ExecuteCall, DestroyCall, CallOf,
         TaskPc, ScsiInv, ScsiTypeOK, AccessKnown
  <1>1. \A p : Enter(p) /\ p \in TaskPc \cup {"obtain", "give_back", "destroy"}
          => ReplyOf' = Contract!NoReply /\ granted' = granted
    BY DEF Enter, ReplyOf, CallOf, TaskPc, Contract!NoReply, Contract!Answer
  <1>2. \A p : Enter(p) =>
          /\ p = "create_task" => CallOf' = "execute"
          /\ p = "obtain" => CallOf' = "acquire"
          /\ p = "give_back" => CallOf' = "release"
          /\ p = "destroy" => CallOf' = "destroy"
    BY DEF Enter, CallOf, TaskPc
  <1>3. ASSUME NEW o \in {"acquire", "release", "execute"},
               NEW s \in Contract!Status, Reply(Bare(o, s)),
               UNCHANGED granted, o = "execute" => s # "OK"
        PROVE  Contract!AnswersAtOnce(o, s)
    <2>1. /\ Bare(o, s).op = o /\ Bare(o, s).transport_status = s
          /\ GoodAnswer(Bare(o, s)) = FALSE
      BY <1>3, BareType DEF GoodAnswer
    <2>2. /\ CallOf' = "none"
          /\ ReplyOf' = Contract!Answer(o, s, FALSE)
      BY <1>3, <2>1, AnswerMapped
    <2> QED
      BY <1>0, <1>3, <2>2 DEF Contract!AnswersAtOnce
  <1>4. "OK" \in Contract!Status /\ "PROTOCOL" \in Contract!Status
    BY DEF Contract!Status
  <1>5. CASE AcquireCall
    <2>1. CASE exclusive
      BY <1>0, <1>3, <1>4, <1>5, <2>1
         DEF AcquireCall, Enter, Contract!Next, Contract!Acquire
    <2>2. CASE ~exclusive
      BY <1>0, <1>1, <1>2, <1>5, <2>2
         DEF AcquireCall, Reply, Contract!Next, Contract!Acquire,
             Contract!Begins
    <2> QED
      BY <2>1, <2>2
  <1>6. CASE ReleaseCall
    <2>1. CASE ~exclusive
      BY <1>0, <1>3, <1>4, <1>6, <2>1
         DEF ReleaseCall, Enter, Contract!Next, Contract!Release
    <2>2. CASE exclusive
      BY <1>0, <1>1, <1>2, <1>6, <2>2
         DEF ReleaseCall, Reply, Contract!Next, Contract!Release,
             Contract!Begins
    <2> QED
      BY <2>1, <2>2
  <1>7. CASE \E allowed \in BOOLEAN : ExecuteCall(allowed)
    <2>1. CASE exclusive /\ Enter("create_task")
      BY <1>0, <1>1, <1>2, <2>1
         DEF TaskPc, Contract!Next, Contract!Execute, Contract!Begins
    <2>2. CASE Reply(Bare("execute", "PROTOCOL")) /\ UNCHANGED granted
      BY <1>3, <1>4, <2>2 DEF Contract!Next, Contract!Refuse
    <2> QED
      BY <1>7, <2>1, <2>2 DEF ExecuteCall
  <1>8. CASE DestroyCall
    <2>1. CASE exclusive
      BY <1>0, <1>1, <1>2, <1>8, <2>1
         DEF DestroyCall, Contract!Next, Contract!Destroy
    <2>2. CASE ~exclusive
      <3>1. pc' = "gone" /\ granted' = granted
        BY <1>0, <1>8, <2>2 DEF DestroyCall
      <3>2. CallOf' = "gone" /\ ReplyOf' = Contract!NoReply
        BY <3>1 DEF CallOf, ReplyOf, TaskPc, Contract!NoReply,
             Contract!Answer
      <3> QED
        BY <1>0, <2>2, <3>1, <3>2 DEF Contract!Next, Contract!Destroy
    <2> QED
      BY <2>1, <2>2
  <1> QED
    BY <1>5, <1>6, <1>7, <1>8 DEF Calls

\* The return of an IOKit call ends the operation, or is invisible while the
\* task is being set up.
LEMMA IoReturnsMapped ==
  ASSUME ScsiInv, IoReturns
  PROVE  Contract!Next \/ UNCHANGED Contract!vars
  <1>0. /\ granted = exclusive /\ exclusive \in BOOLEAN
        /\ pc \in TaskPc \cup {"give_back"} => exclusive
    BY DEF ScsiInv, ScsiTypeOK, AccessKnown
  <1>1. /\ pc \in TaskPc => CallOf = "execute"
        /\ pc = "obtain" => CallOf = "acquire"
        /\ pc = "give_back" => CallOf = "release"
        /\ pc = "destroy" => CallOf = "destroy"
    BY DEF CallOf, TaskPc
  <1>2. CASE \E r \in IOReturn : ObtainReturns(r)
    <2>1. PICK r \in IOReturn : ObtainReturns(r)
      BY <1>2
    <2>2. /\ Bare("acquire", map_io_return(r)) \in ResultType
          /\ Bare("acquire", map_io_return(r)).op = "acquire"
          /\ Bare("acquire", map_io_return(r)).transport_status
               = map_io_return(r)
      BY MapIoReturn, BareType
    <2>3. granted' = (map_io_return(r) = "OK")
      BY <2>1, MapIoReturn DEF ObtainReturns
    <2> QED
      BY <1>1, <2>1, <2>2, <2>3, EndMapped DEF ObtainReturns
  <1>3. CASE \E r \in IOReturn : GiveBackReturns(r)
    <2>1. PICK r \in IOReturn : GiveBackReturns(r)
      BY <1>3
    <2>2. /\ Bare("release", map_io_return(r)) \in ResultType
          /\ Bare("release", map_io_return(r)).op = "release"
          /\ Bare("release", map_io_return(r)).transport_status
               = map_io_return(r)
      BY MapIoReturn, BareType
    <2>3. granted' \in BOOLEAN /\ (map_io_return(r) = "OK" => ~granted')
      BY <1>0, <2>1, MapIoReturn DEF GiveBackReturns
    <2> QED
      BY <1>1, <2>1, <2>2, <2>3, EndMapped DEF GiveBackReturns
  <1>4. \A r \in ResultType :
          pc \in TaskPc /\ r.op = "execute" /\ Reply(r) /\ granted' = granted
            => Contract!Next
    BY <1>1, EndMapped
  <1>5. pc \in TaskPc /\ pc' \in TaskPc /\ granted' = granted
          => UNCHANGED Contract!vars
    BY DEF CallOf, ReplyOf, TaskPc, Contract!vars
  <1>6. CASE \E made \in BOOLEAN : CreateTaskReturns(made)
    <2>1. /\ "IO" \in Contract!Status
          /\ Bare("execute", "IO") \in ResultType
          /\ Bare("execute", "IO").op = "execute"
      BY BareType DEF Contract!Status
    <2> QED
      BY <1>4, <1>5, <1>6, <2>1 DEF CreateTaskReturns, TaskPc
  <1>7. CASE \E r \in IOReturn : SetReturns(r)
    <2> DEFINE next == [set_cdb |-> "set_data", set_data |-> "set_timeout",
                        set_timeout |-> "run_task"]
    <2>1. PICK r \in IOReturn : SetReturns(r)
      BY <1>7
    <2>2. pc \in TaskPc /\ next[pc] \in TaskPc
      BY <2>1 DEF SetReturns, TaskPc
    <2>3. \/ Enter(next[pc])
          \/ Cleanup(Bare("execute", map_io_return(r)))
      BY <2>1 DEF SetReturns
    <2> HIDE DEF next
    <2>4. CASE Enter(next[pc])
      BY <1>5, <2>2, <2>4 DEF Enter
    <2>5. CASE Cleanup(Bare("execute", map_io_return(r)))
      BY <1>4, <2>2, <2>5, MapIoReturn, BareType DEF Cleanup
    <2> QED
      BY <2>3, <2>4, <2>5
  <1>8. CASE \E r \in IOReturn, s \in {"GOOD", "NOT_GOOD"} :
               RunTaskReturns(r, s)
    <2>1. PICK r \in IOReturn, s \in {"GOOD", "NOT_GOOD"} :
            RunTaskReturns(r, s)
      BY <1>8
    <2> DEFINE b == Bare("execute", map_io_return(r))
    <2>2. b \in ResultType /\ b.op = "execute"
      BY MapIoReturn, BareType
    <2> HIDE DEF b
    <2>3. /\ [b EXCEPT !.scsi_status = s] \in ResultType
          /\ [b EXCEPT !.scsi_status = s].op = "execute"
      BY <2>2 DEF ResultType
    <2> QED
      BY <1>4, <2>1, <2>3 DEF RunTaskReturns, Cleanup, TaskPc, b
  <1>9. CASE DestroyReturns
    <2>1. pc = "destroy" /\ pc' = "gone" /\ granted' = FALSE
      BY <1>9 DEF DestroyReturns
    <2>2. CallOf' = "gone" /\ UNCHANGED ReplyOf
      BY <2>1 DEF CallOf, ReplyOf, TaskPc
    <2> QED
      BY <1>1, <2>1, <2>2 DEF Contract!Next, Contract!Ending,
         Contract!DestroyEnds
  <1> QED
    BY <1>2, <1>3, <1>6, <1>7, <1>8, <1>9 DEF IoReturns

\* The safety part of ScsiImplementsTransport: with the kernel's view of
\* exclusive access as what is held, every step of the SCSITask transport is
\* a step of the contract or invisible to the workflow.
THEOREM ScsiRefinesTransport == ScsiSpec => Contract!Spec
  <1>1. ScsiSpec => ScsiInit /\ [][ScsiNext]_vars
    BY PTL DEF ScsiSpec
  <1>2. ScsiInit => Contract!Init
    <2> SUFFICES ASSUME ScsiInit PROVE Contract!Init
      OBVIOUS
    <2>1. granted = FALSE /\ CallOf = "none"
      BY DEF ScsiInit, CallOf, TaskPc
    <2>2. ReplyOf = Contract!NoReply
      BY <2>1 DEF ScsiInit, ReplyOf, Bare, Contract!NoReply, Contract!Answer
    <2> QED
      BY <2>1, <2>2 DEF Contract!Init
  <1>3. ScsiInv /\ [ScsiNext]_vars => [Contract!Next]_(Contract!vars)
    <2> SUFFICES ASSUME ScsiInv, [ScsiNext]_vars
                 PROVE  Contract!Next \/ UNCHANGED Contract!vars
      OBVIOUS
    <2>1. CASE UNCHANGED vars
      BY <2>1 DEF vars, CallOf, ReplyOf, Contract!vars
    <2> QED
      BY <2>1, CreateMapped, CallsMapped, IoReturnsMapped DEF ScsiNext
  <1> QED
    BY <1>1, <1>2, <1>3, ScsiInvariant, PTL DEF Contract!Spec
=============================================================================
