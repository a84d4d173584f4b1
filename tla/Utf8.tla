-------------------------------- MODULE Utf8 --------------------------------
(***************************************************************************)
(* UTF-8, the encoding that RFC 8259 (8.1) asks of a JSON text: a decoder  *)
(* that reads it byte by byte and, to hold the decoder against, the        *)
(* grammar of RFC 3629.                                                    *)
(***************************************************************************)
EXTENDS Integers, Scan

\* A decoder between two characters or within one: text is what it has read,
\* as code points; of the character in hand, left bytes are to come, value is
\* what its bits are so far, and least the least value that needs its length.
Utf8State ==
  [mode : {"between", "within", "malformed"}, left : 0..3, value : Nat,
   least : Nat, text : Seq(Nat)]

Between(text) ==
  [mode |-> "between", left |-> 0, value |-> 0, least |-> 0, text |-> text]
Within(left, value, least, text) ==
  [mode |-> "within", left |-> left, value |-> value, least |-> least,
   text |-> text]
Malformed == [Between(<< >>) EXCEPT !.mode = "malformed"]

\* Unicode without the surrogates.
IsScalarValue(n) == n <= 1114111 /\ n \notin 55296..57343

\* A byte where a character begins.
Begins(q, byte) ==
  CASE byte \in 0..127 -> Between(Append(q.text, byte))
    [] byte \in 192..223 -> Within(1, byte - 192, 128, q.text)
    [] byte \in 224..239 -> Within(2, byte - 224, 2048, q.text)
    [] byte \in 240..247 -> Within(3, byte - 240, 65536, q.text)
    [] OTHER -> Malformed

\* One more byte of a character brings it to value; a character that ends is
\* in its shortest form, or it is none.
Continues(q, value) ==
  IF q.left > 1 THEN Within(q.left - 1, value, q.least, q.text)
  ELSE IF value >= q.least /\ IsScalarValue(value)
  THEN Between(Append(q.text, value))
  ELSE Malformed

Utf8Byte(q, byte) ==
  CASE q.mode = "between" -> Begins(q, byte)
    [] q.mode = "within" /\ byte \in 128..191 ->
         Continues(q, 64 * q.value + byte - 128)
    [] OTHER -> Malformed

Utf8Step == [x \in Utf8State \X (0..255) |-> Utf8Byte(x[1], x[2])]

\* What the decoder knows after the bytes s.
Utf8(s) == Scan(Utf8Step, Between(<< >>), s)

IsUtf8(s) == Utf8(s).mode = "between"

\* The characters of a text in UTF-8.
CodePoints(s) == Utf8(s).text
-----------------------------------------------------------------------------
(* The same by the rules UTF8-1 to UTF8-4 of RFC 3629.                     *)

Trail == 128..191

\* The bytes of one character, as the sets its bytes come from.
Forms ==
  {<<0..127>>, <<194..223, Trail>>,
   <<{224}, 160..191, Trail>>, <<225..236, Trail, Trail>>,
   <<{237}, 128..159, Trail>>, <<238..239, Trail, Trail>>,
   <<{240}, 144..191, Trail, Trail>>, <<241..243, Trail, Trail, Trail>>,
   <<{244}, 128..143, Trail, Trail>>}

IsCharacter(s) ==
  \E form \in Forms :
    Len(s) = Len(form) /\ \A i \in DOMAIN form : s[i] \in form[i]

\* A sequence of characters, by its prefixes.
IsUtf8Text(s) ==
  LET upTo[n \in 0..Len(s)] ==
        n = 0 \/ \E k \in 1..n : IsCharacter(SubSeq(s, k, n)) /\ upTo[k - 1]
  IN  upTo[Len(s)]

DecoderAgrees(s) == IsUtf8(s) <=> IsUtf8Text(s)
=============================================================================
