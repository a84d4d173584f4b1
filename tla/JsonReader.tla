----------------------------- MODULE JsonReader -----------------------------
(***************************************************************************)
(* A reader of RFC 8259 texts over the tokens of JsonWriter, as whoever    *)
(* consumes the program's stdout might have one.  It knows which tokens    *)
(* the grammar allows next, which containers are open, and which names     *)
(* their members have; it knows nothing of how the writer keeps its books. *)
(***************************************************************************)
EXTENDS Scan

CONSTANT Token     \* the strings that may be tokens

\* The structural characters, by their names in the RFC.
Punctuation ==
  {"begin-object", "end-object", "begin-array", "end-array",
   "value-separator", "name-separator"}

ASSUME TokenAssumption == Punctuation \cup {"str", "num"} \subseteq Token

\* An open container: what closes it, and the names met in it.
Level == [close : {"end-object", "end-array"}, names : SUBSET Token]

\* What the grammar allows next: a value; right after an opening bracket the
\* first element or member, or the end; after a comma a name; after a name
\* its colon; after a value the comma or the end; after an error nothing.
Expected ==
  {"value", "element", "member", "name", "colon", "more", "nothing"}

\* root has the names of the outermost object in their order; unique says
\* that no object has had two members of one name.
ReaderState ==
  [levels : Seq(Level), expects : Expected, root : Seq(Token),
   unique : BOOLEAN]

Unread ==
  [levels |-> << >>, expects |-> "value", root |-> << >>, unique |-> TRUE]

Innermost(q) == q.levels[Len(q.levels)]
WantsValue(q) == q.expects \in {"value", "element"}
Expecting(q, what) == [q EXCEPT !.expects = what]

Enter(q, close, first) ==
  [q EXCEPT !.levels = Append(@, [close |-> close, names |-> {}]),
            !.expects = first]

Leave(q) ==
  [q EXCEPT !.levels = SubSeq(@, 1, Len(@) - 1), !.expects = "more"]

\* A closing bracket comes after an element or at once, not after a comma.
MayLeave(q, token) ==
  /\ q.levels # << >>
  /\ Innermost(q).close = token
  /\ \/ q.expects = "more"
     \/ q.expects = "member" /\ token = "end-object"
     \/ q.expects = "element" /\ token = "end-array"

ReadName(q, name) ==
  LET n == Len(q.levels)
      met == Innermost(q).names
      level == [q.levels[n] EXCEPT !.names = met \cup {name}]
  IN  [levels |-> [q.levels EXCEPT ![n] = level],
       expects |-> "colon",
       root |-> IF n = 1 THEN Append(q.root, name) ELSE q.root,
       unique |-> q.unique /\ name \notin met]

\* A name is a string.
ReadToken(q, token) ==
  CASE token = "begin-object" /\ WantsValue(q) ->
         Enter(q, "end-object", "member")
    [] token = "begin-array" /\ WantsValue(q) ->
         Enter(q, "end-array", "element")
    [] token \in {"end-object", "end-array"} /\ MayLeave(q, token) -> Leave(q)
    [] token = "value-separator" /\ q.expects = "more" /\ q.levels # << >> ->
         Expecting(q, IF Innermost(q).close = "end-object" THEN "name"
                      ELSE "value")
    [] token = "name-separator" /\ q.expects = "colon" -> Expecting(q, "value")
    [] token \notin Punctuation /\ WantsValue(q) -> Expecting(q, "more")
    [] token \notin Punctuation \cup {"num"}
         /\ q.expects \in {"member", "name"} /\ q.levels # << >> ->
         ReadName(q, token)
    [] OTHER -> Expecting(q, "nothing")

ReaderStep == [x \in ReaderState \X Token |-> ReadToken(x[1], x[2])]

\* What a reader knows after the tokens t.
Reading(t) == Scan(ReaderStep, Unread, t)

\* Exactly one JSON text and nothing after it.
IsDocument(t) ==
  LET q == Reading(t) IN q.expects = "more" /\ q.levels = << >>
=============================================================================
