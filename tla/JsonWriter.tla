----------------------------- MODULE JsonWriter -----------------------------
(***************************************************************************)
(* The JSON writer of src/json.c.  The text is a sequence of tokens: the   *)
(* punctuation, and one token for every string, number or literal.  Each   *)
(* operator returns the writer after the call; its field ok is the value   *)
(* the C function returned.  room is the number of appends for which       *)
(* memory can still be had: reserve fails for good when it is used up.     *)
(***************************************************************************)
EXTENDS Naturals, Sequences

CONSTANT MaxDepth       \* M65_JSON_MAX_DEPTH

ASSUME MaxDepthAssumption == MaxDepth \in Nat \ {0}

\* One open container: its closing token, whether it has an element yet, and
\* whether a key waits for its value.
Container(close) == [close |-> close, some |-> FALSE, expecting |-> FALSE]

depth(w) == Len(w.stack)
Top(w) == w.stack[depth(w)]
InObject(w) == Top(w).close = "end-object"

\* The writer with the innermost container changed.
WithTop(w, c) == [w EXCEPT !.stack[depth(w)] = c]

Returns(w, b) == [w EXCEPT !.ok = b]

\* json->failed is set, and stays set.
Fail(w) == [w EXCEPT !.failed = TRUE, !.ok = FALSE]

\* m65_json_init: the first allocation may fail.
json_init(room) ==
  [text |-> << >>, stack |-> << >>, root_written |-> FALSE,
   failed |-> room = 0, room |-> room, ok |-> room > 0]

\* append_bytes on top of reserve.
append(w, token) ==
  IF w.failed \/ w.room = 0 THEN Fail(w)
  ELSE [w EXCEPT !.text = Append(@, token), !.room = @ - 1, !.ok = TRUE]

\* A comma before all but the first element of the container.
append_comma(w) ==
  IF Top(w).some THEN append(w, "value-separator") ELSE Returns(w, TRUE)

\* Mutant: the comma of an array is forgotten.
MutNoComma(w) ==
  IF depth(w) = 0
  THEN IF w.root_written THEN Fail(w)
       ELSE [w EXCEPT !.root_written = TRUE, !.ok = TRUE]
  ELSE IF InObject(w) /\ ~Top(w).expecting THEN Fail(w)
  ELSE Returns(WithTop(w, [Top(w) EXCEPT !.some = TRUE,
                                         !.expecting = FALSE]), TRUE)

\* before_value: one root; a value of an object follows a key; an array
\* separates its elements.
before_value(w) ==
  IF w.failed THEN Returns(w, FALSE)
  ELSE IF depth(w) = 0
  THEN IF w.root_written THEN Fail(w)
       ELSE [w EXCEPT !.root_written = TRUE, !.ok = TRUE]
  ELSE IF InObject(w)
  THEN IF ~Top(w).expecting THEN Fail(w)
       ELSE Returns(WithTop(w, [Top(w) EXCEPT !.some = TRUE,
                                              !.expecting = FALSE]), TRUE)
  ELSE LET v == append_comma(w)
       IN IF v.ok THEN WithTop(v, [Top(v) EXCEPT !.some = TRUE]) ELSE v

\* begin_container: every failure is latched.
begin_container(w, open, close) ==
  IF depth(w) >= MaxDepth THEN Fail(w)
  ELSE LET v == before_value(w)
           u == append(v, open)
       IN IF ~v.ok THEN Fail(v)
          ELSE IF ~u.ok THEN Fail(u)
          ELSE [u EXCEPT !.stack = Append(@, Container(close))]

begin_object(w) == begin_container(w, "begin-object", "end-object")
begin_array(w) == begin_container(w, "begin-array", "end-array")

\* end_container: with nothing open the call is refused and not latched.
end_container(w, close) ==
  IF depth(w) = 0 THEN Returns(w, FALSE)
  ELSE IF Top(w).close # close \/ Top(w).expecting THEN Fail(w)
  ELSE append([w EXCEPT !.stack = SubSeq(@, 1, depth(w) - 1)], close)

\* m65_json_key; a null name or the top level is refused and not latched.
json_key(w, null, name) ==
  IF null \/ depth(w) = 0 THEN Returns(w, FALSE)
  ELSE IF ~InObject(w) \/ Top(w).expecting THEN Fail(w)
  ELSE LET v == append_comma(w)
           u == append(v, name)
           t == append(u, "name-separator")
       IN IF ~v.ok THEN v
          ELSE IF ~u.ok THEN u
          ELSE IF ~t.ok THEN t
          ELSE WithTop(t, [Top(t) EXCEPT !.expecting = TRUE])

\* m65_json_string, _uint, _int, _bool, _null; only a string can be null,
\* and then nothing happens.
json_value(w, null, token) ==
  IF null THEN Returns(w, FALSE)
  ELSE LET v == before_value(w) IN IF v.ok THEN append(v, token) ELSE v

\* m65_json_finish
json_finish(w) == ~w.failed /\ w.root_written /\ depth(w) = 0
-----------------------------------------------------------------------------
(* A caller that makes any calls in any order. *)

CONSTANTS
  MaxCalls,   \* calls one caller makes
  Rooms       \* how many appends memory is had for

ASSUME RoomsAssumption == Rooms \subseteq Nat

VARIABLES
  writer,
  calls       \* calls made so far

wvars == <<writer, calls>>

WriterInit ==
  /\ \E room \in Rooms : writer = json_init(room)
  /\ calls = 0

Call(w) ==
  /\ calls < MaxCalls
  /\ calls' = calls + 1
  /\ writer' = w

BeginObject == Call(begin_object(writer))
BeginArray == Call(begin_array(writer))
EndObject == Call(end_container(writer, "end-object"))
EndArray == Call(end_container(writer, "end-array"))
KeyCall == \E null \in BOOLEAN : Call(json_key(writer, null, "str"))
StringCall == \E null \in BOOLEAN : Call(json_value(writer, null, "str"))
ScalarCall == Call(json_value(writer, FALSE, "num"))

WriterNext ==
  \/ BeginObject \/ BeginArray \/ EndObject \/ EndArray
  \/ KeyCall \/ StringCall \/ ScalarCall

WriterSpec == WriterInit /\ [][WriterNext]_wvars
=============================================================================
