------------------------------ MODULE Reports ------------------------------
(***************************************************************************)
(* The JSON reports of src/output.c: every emitter as the sequence of      *)
(* writer calls it makes, run on the writer of src/json.c.  Values are     *)
(* reduced to their kind; the names of the members are kept, and so are    *)
(* the branches on the report's contents.  The emitters ignore what the    *)
(* writer returns, except for json_top.                                    *)
(***************************************************************************)
EXTENDS JsonDocument

CONSTANT MaxItems   \* candidates, format descriptors, changeable fields

ASSUME ItemsAssumption == MaxItems \in Nat

\* M65_JSON_MAX_DEPTH is 16; the deepest report needs six levels.
ASSUME DepthAssumption == MaxDepth >= 6

\* The names of members are tokens.  They are those of output.c with a
\* hyphen for every underscore, which the provers cannot read in a string.
MemberNames ==
  {"bsd-name", "usb", "vid", "pid", "device-revision", "permissions",
   "changeable-fields", "errors", "sense", "command", "media", "device",
   "candidates", "inquiry", "capacity", "format-capacities",
   "flexible-disk", "original-flexible-disk", "requested-flexible-disk",
   "accepted-flexible-disk", "ufi", "result", "output", "numeric", "hex",
   "name", "manufacturer", "product", "product-revision",
   "known-controller", "present", "external", "removable", "whole",
   "mounted", "capacity-bytes", "block-size", "raw-path", "readable",
   "errno", "valid", "sense-key", "asc", "ascq", "transfer-rate-kbit-s",
   "heads", "sectors-per-track", "bytes-per-sector", "cylinders",
   "medium-rotation-rate-rpm", "message", "schema-version",
   "candidate-count", "blocks", "descriptor-code", "vendor", "firmware",
   "test-unit-ready", "bytes", "status", "reason",
   "acknowledgement-supplied", "original-parameters-saved",
   "controller-restored", "boundary-lba-9-read", "boundary-lba-1599-read",
   "repeated-reads-match"}

ASSUME NamesAssumption == MemberNames \subseteq Token

VARIABLES
  report,       \* what is being reported
  section,      \* the part of the document being written, "none" when no
                \* emitter uses the writer
  script,       \* the writer calls that part has still to make
  stdout        \* the JSON texts that reached stdout

rvars == <<writer, report, section, script, stdout>>

\* What the branches of the emitters look at.  error is NULL, empty or a
\* text; items stands for the candidates of list, and for the descriptors
\* and the changeable fields of the other reports.
Report ==
  [command : {"list", "error", "inspect", "test-1581"},
   device : BOOLEAN,                  \* the device pointer is not NULL
   named : BOOLEAN,                   \* bsd_name is not empty
   error : {"null", "empty", "text"},
   sense_valid : BOOLEAN,
   output : BOOLEAN,                  \* an output path was given
   items : 0..MaxItems]

\* What the callers in main.c pass: list and the error report come without
\* sense data, the two workflows with a device; a report whose code is OK
\* has no error.  An error text is empty when discovery gave none.  Every
\* device that was discovered has a name.
Possible(r) ==
  /\ r.command \in {"list", "error"} => ~r.sense_valid
  /\ r.command = "error" => r.error # "null" /\ r.items = 0
  /\ r.error = "empty" => r.command = "error"
  /\ r.command # "error" => r.device
  /\ r.command = "list" => r.error = (IF r.items = 0 THEN "text" ELSE "null")
  /\ r.output => r.command = "test-1581"
  /\ r.named = r.device
-----------------------------------------------------------------------------
(* Sequences of writer calls. *)

Key(name) == <<[op |-> "key", arg |-> name]>>
Value(token) == <<[op |-> "value", arg |-> token]>>
Open(token) == <<[op |-> "open", arg |-> token]>>
Close(token) == <<[op |-> "close", arg |-> token]>>

Object(members) == Open("begin-object") \o members \o Close("end-object")
Array(elements) == Open("begin-array") \o elements \o Close("end-array")
Member(name, value) == Key(name) \o value

ScriptCall == [op : {"key", "value", "open", "close"}, arg : Token]

\* The scripts of the sequence parts, one after the other.
Concatenation == [x \in Seq(ScriptCall) \X Seq(ScriptCall) |-> x[1] \o x[2]]
Joined(parts) == Scan(Concatenation, << >>, parts)

Times(n, s) == Joined([i \in 1..n |-> s])

\* Members with scalar values, one for each name.
Scalars(names, token) ==
  Joined([i \in 1..Len(names) |-> Member(names[i], Value(token))])

\* One writer call.
Apply(w, c) ==
  CASE c.op = "key" -> json_key(w, FALSE, c.arg)
    [] c.op = "value" -> json_value(w, FALSE, c.arg)
    [] c.op = "open" -> IF c.arg = "begin-object" THEN begin_object(w)
                        ELSE begin_array(w)
    [] c.op = "close" -> end_container(w, c.arg)
-----------------------------------------------------------------------------
(* The emitters. *)

json_identifier == Object(Scalars(<<"numeric", "hex">>, "str"))

json_device_fields(named) ==
  Member("bsd-name", Value(IF named THEN "str" ELSE "num"))
  \o Scalars(<<"name">>, "str")
  \o Member("usb", Object(
       Member("vid", json_identifier)
       \o Member("pid", json_identifier)
       \o Member("device-revision", json_identifier)
       \o Scalars(<<"manufacturer", "product", "product-revision",
                    "known-controller">>, "str")))

\* Mutant: the permissions object is left open.
MutPermissionsOpen ==
  Scalars(<<"present", "external", "removable", "whole", "mounted",
            "capacity-bytes", "block-size">>, "num")
  \o Member("permissions",
            Open("begin-object")
            \o Scalars(<<"raw-path", "readable", "errno">>, "str"))

json_media_fields ==
  Scalars(<<"present", "external", "removable", "whole", "mounted",
            "capacity-bytes", "block-size">>, "num")
  \o Member("permissions",
            Object(Scalars(<<"raw-path", "readable", "errno">>, "str")))

json_sense ==
  Object(Scalars(<<"valid", "sense-key", "asc", "ascq">>, "num"))

json_flexible(include_changeable) ==
  Object(
    Scalars(<<"transfer-rate-kbit-s", "heads", "sectors-per-track",
              "bytes-per-sector", "cylinders",
              "medium-rotation-rate-rpm">>, "num")
    \o IF include_changeable
       THEN Member("changeable-fields",
                   Array(Times(report.items, Value("str"))))
       ELSE << >>)

json_errors ==
  Member("errors",
    Array(IF report.error # "text" THEN << >>
          ELSE Object(
                 Scalars(<<"message">>, "str")
                 \o IF report.sense_valid THEN Member("sense", json_sense)
                    ELSE << >>)))

\* json_top, without the closing of the document.
json_top ==
  Open("begin-object") \o Scalars(<<"schema-version">>, "num")
  \o Member("command", Object(Scalars(<<"name">>, "str")))

candidate ==
  Object(json_device_fields(TRUE)
         \o Member("media", Object(json_media_fields)))

\* The "device" and "media" members; list has the candidates instead.
device_and_media ==
  IF report.command = "list"
  THEN Member("device",
         Object(Member("candidates", Array(Times(report.items, candidate)))))
       \o Member("media", Object(Scalars(<<"candidate-count">>, "num")))
  ELSE Member("device", Object(json_device_fields(report.named)))
       \o Member("media", Object(json_media_fields))

descriptor ==
  Object(Scalars(<<"blocks", "block-size", "descriptor-code">>, "num"))

inspect_fields ==
  Member("inquiry",
         Object(Scalars(<<"vendor", "product", "firmware">>, "str")))
  \o Scalars(<<"test-unit-ready">>, "num")
  \o Member("capacity",
            Object(Scalars(<<"blocks", "block-size", "bytes">>, "num")))
  \o Member("format-capacities", Array(Times(report.items, descriptor)))
  \o Member("flexible-disk", json_flexible(TRUE))
  \o Member("sense", json_sense)

test_1581_fields ==
  Member("original-flexible-disk", json_flexible(TRUE))
  \o Member("requested-flexible-disk", json_flexible(FALSE))
  \o Member("accepted-flexible-disk", json_flexible(FALSE))
  \o Member("sense", json_sense)

ufi ==
  Member("ufi", Object(
    CASE report.command = "inspect" -> inspect_fields
      [] report.command = "test-1581" -> test_1581_fields
      [] OTHER -> << >>))

\* Mutant: the output path is a second member called reason.
MutReasonTwice ==
  Member("result", Object(
    Scalars(<<"status", "reason">>, "str")
    \o IF report.command = "test-1581" THEN Scalars(<<"reason">>, "str")
       ELSE << >>))

result ==
  Member("result", Object(
    Scalars(<<"status", "reason">>, "str")
    \o IF report.command # "test-1581" THEN << >>
       ELSE Scalars(<<"acknowledgement-supplied",
                      "original-parameters-saved", "controller-restored",
                      "boundary-lba-9-read", "boundary-lba-1599-read",
                      "repeated-reads-match">>, "num")
            \o Member("output",
                 Value(IF report.output /\ report.error = "null"
                       THEN "str" ELSE "num"))))
-----------------------------------------------------------------------------
ReportsInit ==
  /\ report \in {r \in Report : Possible(r)}
  /\ \E room \in Rooms : writer = json_init(room)
  /\ section = "top"
  /\ script = json_top
  /\ stdout = << >>

\* json_top goes on while the writer accepts its calls.
TopAccepted(w) == w.ok

\* The next call of the section, its result ignored; json_top alone looks at
\* it: the writer is destroyed and the emitter returns without a word.
WriterCall ==
  /\ script # << >>
  /\ section = "top" => TopAccepted(writer)
  /\ writer' = Apply(writer, Head(script))
  /\ script' = Tail(script)
  /\ UNCHANGED <<report, section, stdout>>

GiveUp ==
  /\ section = "top"
  /\ ~TopAccepted(writer)
  /\ section' = "silent"
  /\ script' = << >>
  /\ UNCHANGED <<writer, report, stdout>>

\* The parts of a document, and the calls of each.
Sections ==
  [top |-> "device", device |-> "ufi", ufi |-> "result", result |-> "errors",
   errors |-> "emit"]

Calls(s) ==
  CASE s = "device" -> device_and_media
    [] s = "ufi" -> ufi
    [] s = "result" -> result
    [] s = "errors" -> json_errors \o Close("end-object")
    [] OTHER -> << >>

NextSection ==
  /\ script = << >>
  /\ section \in DOMAIN Sections
  /\ section = "top" => TopAccepted(writer)
  /\ section' = Sections[section]
  /\ script' = Calls(section')
  /\ UNCHANGED <<writer, report, stdout>>

\* json_emit: the text, or a line on stderr.
EmitDocument ==
  /\ section = "emit"
  /\ \/ /\ json_finish(writer)
        /\ stdout' = Append(stdout, writer.text)
        /\ section' = "written"
     \/ /\ ~json_finish(writer)
        /\ section' = "complained"
        /\ UNCHANGED stdout
  /\ UNCHANGED <<writer, report, script>>

ReportsNext ==
  WriterCall \/ GiveUp \/ NextSection \/ EmitDocument

ReportsSpec == ReportsInit /\ [][ReportsNext]_rvars
-----------------------------------------------------------------------------
(* Properties *)

\* Every writer call of every emitter is accepted unless memory runs out:
\* no value without a key, no container closed twice or left open, nothing
\* nested too deep, whatever the report contains.  The emitters ignore what
\* the calls return, so a refused one would be a member silently missing.
NothingDropped == section # "none" /\ writer.room > 0 => writer.ok

\* The members of the top level, in order (README: "Every document has
\* schema_version: 1 and stable command, device, media, ufi, result, and
\* errors top-level members").
TopMembers ==
  <<"schema-version", "command", "device", "media", "ufi", "result",
    "errors">>

\* What reaches stdout is one well-formed document with the stable top-level
\* members and without duplicate names, even when memory ran out on the way.
WrittenIsReport ==
  \A i \in DOMAIN stdout :
    /\ Len(stdout) = 1
    /\ IsDocument(stdout[i])
    /\ Reading(stdout[i]).root = TopMembers
    /\ Reading(stdout[i]).unique
=============================================================================
