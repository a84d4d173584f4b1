---------------------------- MODULE JsonGrammar ----------------------------
(***************************************************************************)
(* The grammar of RFC 8259 over the tokens of JsonWriter, rule by rule, to *)
(* check the reader of JsonReader against.  ValueEnd(t, i) is the index    *)
(* after the value that starts at t[i], or 0 when no value does.           *)
(***************************************************************************)
EXTENDS JsonReader

At(t, i, token) == i <= Len(t) /\ t[i] = token

RECURSIVE ValueEnd(_, _), MembersEnd(_, _), ElementsEnd(_, _)

ValueEnd(t, i) ==
  CASE i > Len(t) -> 0
    [] At(t, i, "begin-object") -> IF At(t, i + 1, "end-object") THEN i + 2
                        ELSE MembersEnd(t, i + 1)
    [] At(t, i, "begin-array") -> IF At(t, i + 1, "end-array") THEN i + 2
                        ELSE ElementsEnd(t, i + 1)
    [] OTHER -> IF t[i] \in Punctuation THEN 0 ELSE i + 1

ElementsEnd(t, i) ==
  LET e == ValueEnd(t, i)
  IN CASE e = 0 -> 0
       [] At(t, e, "end-array") -> e + 1
       [] At(t, e, "value-separator") -> ElementsEnd(t, e + 1)
       [] OTHER -> 0

\* A name is a string.
MembersEnd(t, i) ==
  IF \/ ~At(t, i + 1, "name-separator")
     \/ t[i] \in Punctuation \cup {"num"}
  THEN 0
  ELSE LET e == ValueEnd(t, i + 2)
       IN CASE e = 0 -> 0
            [] At(t, e, "end-object") -> e + 1
            [] At(t, e, "value-separator") -> MembersEnd(t, e + 1)
            [] OTHER -> 0

\* Exactly one JSON text and nothing after it.
IsJsonText(t) == ValueEnd(t, 1) = Len(t) + 1

\* The names of the object that starts at t[i] (which must be one), in the
\* order of its members.
RECURSIVE NamesFrom(_, _)
NamesFrom(t, i) ==
  IF At(t, i, "end-object") THEN << >>
  ELSE LET e == ValueEnd(t, i + 2)
           next == IF At(t, e, "value-separator") THEN e + 1 ELSE e
       IN <<t[i]>> \o NamesFrom(t, next)

Names(t, i) == NamesFrom(t, i + 1)

\* No object of the document has two members of the same name.
NoDuplicateNames(t) ==
  \A i \in DOMAIN t : t[i] = "begin-object" =>
    LET names == Names(t, i)
    IN \A j, k \in DOMAIN names : names[j] = names[k] => j = k

\* The reader of JsonReader says the same of the tokens t.
ReaderAgrees(t) ==
  /\ IsDocument(t) <=> IsJsonText(t)
  /\ IsDocument(t) => (Reading(t).unique <=> NoDuplicateNames(t))
  /\ IsDocument(t) /\ Head(t) = "begin-object" => Reading(t).root = Names(t, 1)
=============================================================================
