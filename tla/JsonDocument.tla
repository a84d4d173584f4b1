---------------------------- MODULE JsonDocument ----------------------------
(***************************************************************************)
(* The writer's books against the grammar: what the text of JsonWriter is  *)
(* worth as JSON.                                                          *)
(***************************************************************************)
EXTENDS JsonWriter, JsonReader

\* The closing tokens of what is still open, innermost first.
Closers(w) == [i \in DOMAIN w.stack |-> w.stack[depth(w) + 1 - i].close]

\* Until a failure is latched, the text written so far can be completed to
\* one JSON document by supplying the value a key waits for and closing what
\* the stack says is open, whatever calls were refused on the way: the stack
\* of json.c never disagrees with the text, never outgrows its arrays, and
\* what m65_json_finish lets through to stdout is exactly one document.
Completable ==
  /\ depth(writer) <= MaxDepth
  /\ ~writer.failed /\ writer.root_written =>
       LET value == IF depth(writer) > 0 /\ Top(writer).expecting
                    THEN <<"num">> ELSE << >>
       IN IsDocument(writer.text \o value \o Closers(writer))
  /\ json_finish(writer) => IsDocument(writer.text)
=============================================================================
