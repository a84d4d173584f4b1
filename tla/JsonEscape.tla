----------------------------- MODULE JsonEscape -----------------------------
(***************************************************************************)
(* The way of a text field of the INQUIRY response into the report:        *)
(* trim_copy of src/ufi.c makes a C string of it and append_escaped of     *)
(* src/json.c writes that as a JSON string.  Texts are sequences of bytes. *)
(***************************************************************************)
EXTENDS Utf8

CONSTANTS
  FieldBytes,  \* the bytes that occur in the response
  FieldSize    \* source_size; the destination has one byte more

ASSUME EscapeAssumption ==
  FieldBytes \subseteq 0..255 /\ FieldSize \in Nat \ {0}

NUL == 0
SPACE == 32
QUOTE == 34
BACKSLASH == 92

VARIABLES
  field,     \* the bytes of the response
  used,      \* the bytes of it that are kept
  copy,      \* the destination, with its terminator, once it is made
  cursor,    \* position in copy, from 1; 0 before the opening quote
  out        \* the bytes appended to the document

escvars == <<field, used, copy, cursor, out>>

EscapeInit ==
  /\ field \in [1..FieldSize -> FieldBytes]
  /\ used = FieldSize
  /\ copy = << >>
  /\ cursor = 0
  /\ out = << >>

Padding(byte) == byte \in {SPACE, NUL}

\* The loop of trim_copy.
Trim ==
  /\ copy = << >>
  /\ used > 0
  /\ Padding(field[used])
  /\ used' = used - 1
  /\ UNCHANGED <<field, copy, cursor, out>>

\* memcpy and the terminator; used is below the size of the destination.
CopyField ==
  /\ copy = << >>
  /\ used > 0 => ~Padding(field[used])
  /\ copy' = Append(SubSeq(field, 1, used), NUL)
  /\ UNCHANGED <<field, used, cursor, out>>

OpeningQuote ==
  /\ copy # << >> /\ cursor = 0
  /\ out' = <<QUOTE>>
  /\ cursor' = 1
  /\ UNCHANGED <<field, used, copy>>

\* The letter that stands for a byte after a backslash.
ShortEscape ==
  [byte \in {QUOTE, BACKSLASH, 8, 12, 10, 13, 9} |->
     CASE byte = 8 -> 98 [] byte = 12 -> 102 [] byte = 10 -> 110
       [] byte = 13 -> 114 [] byte = 9 -> 116 [] OTHER -> byte]

HexDigit(n) == IF n < 10 THEN 48 + n ELSE 87 + n

\* \u00xx
Unicode(byte) ==
  <<BACKSLASH, 117, 48, 48, HexDigit(byte \div 16), HexDigit(byte % 16)>>

\* Mutant: a backslash is written as it is.
MutBackslashRaw(byte) ==
  IF byte \in DOMAIN ShortEscape \ {BACKSLASH}
  THEN <<BACKSLASH, ShortEscape[byte]>>
  ELSE IF byte < 32 THEN Unicode(byte)
  ELSE <<byte>>

\* One turn of the switch: everything from 0x20 up goes out as it is.
Escaped(byte) ==
  IF byte \in DOMAIN ShortEscape THEN <<BACKSLASH, ShortEscape[byte]>>
  ELSE IF byte < 32 THEN Unicode(byte)
  ELSE <<byte>>

EscapeByte ==
  /\ cursor > 0
  /\ copy[cursor] # NUL
  /\ out' = out \o Escaped(copy[cursor])
  /\ cursor' = cursor + 1
  /\ UNCHANGED <<field, used, copy>>

ClosingQuote ==
  /\ cursor > 0
  /\ copy[cursor] = NUL
  /\ out' = Append(out, QUOTE)
  /\ cursor' = -1
  /\ UNCHANGED <<field, used, copy>>

EscapeNext ==
  Trim \/ CopyField \/ OpeningQuote \/ EscapeByte \/ ClosingQuote

EscapeSpec == EscapeInit /\ [][EscapeNext]_escvars
-----------------------------------------------------------------------------
(* Reading the document back, by the grammar of JSON strings.              *)

Inner == SubSeq(out, 2, Len(out) - 1)

\* What a letter after a backslash denotes.
Denoted ==
  [c \in {34, 47, 92, 98, 102, 110, 114, 116} |->
     CASE c = 98 -> 8 [] c = 102 -> 12 [] c = 110 -> 10 [] c = 114 -> 13
       [] c = 116 -> 9 [] OTHER -> c]

HexValue ==
  [c \in 48..57 \cup 65..70 \cup 97..102 |->
     IF c < 58 THEN c - 48 ELSE IF c < 71 THEN c - 55 ELSE c - 87]

\* A reader of the characters between the quotes, as code points: plain,
\* after a backslash, with hex digits of \u still to come, or stopped at what
\* no JSON string has.  text is what it has read, as code points.
StringState ==
  [mode : {"plain", "escape", "digits", "error"}, left : 0..4, value : Nat,
   text : Seq(Nat)]

Plain(text) == [mode |-> "plain", left |-> 0, value |-> 0, text |-> text]

\* Two \u escapes that are a surrogate pair are not joined: none is written.
ReadCharacter(q, c) ==
  CASE q.mode = "plain" /\ c = BACKSLASH -> [q EXCEPT !.mode = "escape"]
    [] q.mode = "plain" /\ c >= 32 /\ c \notin {QUOTE, BACKSLASH} ->
         Plain(Append(q.text, c))
    [] q.mode = "escape" /\ c \in DOMAIN Denoted ->
         Plain(Append(q.text, Denoted[c]))
    [] q.mode = "escape" /\ c = 117 ->
         [q EXCEPT !.mode = "digits", !.left = 4]
    [] q.mode = "digits" /\ q.left > 1 /\ c \in DOMAIN HexValue ->
         [q EXCEPT !.left = @ - 1, !.value = 16 * @ + HexValue[c]]
    [] q.mode = "digits" /\ q.left = 1 /\ c \in DOMAIN HexValue ->
         Plain(Append(q.text, 16 * q.value + HexValue[c]))
    [] OTHER -> [q EXCEPT !.mode = "error"]

StringStep == [x \in StringState \X Nat |-> ReadCharacter(x[1], x[2])]

\* What a reader knows after the characters s of a string.
Decode(s) == Scan(StringStep, Plain(<< >>), s)

\* The bytes between the quotes of a JSON string: UTF-8, and no character but
\* by the rules of strings.
IsJsonString(s) == IsUtf8(s) /\ Decode(CodePoints(s)).mode = "plain"

\* The characters a JSON string stands for.
StringText(s) == Decode(CodePoints(s)).text

\* The text of a field: its bytes up to the padding at the end, and no
\* further than a NUL.
IsTextOf(s, f) ==
  LET n == Len(s)
  IN  /\ n <= Len(f) /\ s = SubSeq(f, 1, n)
      /\ NUL \notin {s[i] : i \in 1..n}
      /\ \/ \A i \in n + 1..Len(f) : f[i] \in {SPACE, NUL}
         \/ f[n + 1] = NUL
      /\ (\A i \in n + 1..Len(f) : f[i] \in {SPACE, NUL}) =>
           n = 0 \/ f[n] # SPACE

\* Where the text of a field is well-formed UTF-8, the report holds a JSON
\* string that reads back as the same characters, whatever quotes, escapes
\* and control characters are among them and wherever NULs and spaces cut the
\* text short.  Of other text nothing is claimed here: see StringIsJson.
TextSurvives ==
  cursor = -1 =>
    /\ out = <<QUOTE>> \o Inner \o <<QUOTE>>
    /\ \E n \in 0..FieldSize :
         LET text == SubSeq(field, 1, n)
         IN  /\ IsTextOf(text, field)
             /\ IsUtf8(text) => /\ IsJsonString(Inner)
                                /\ StringText(Inner) = CodePoints(text)

\* README.md: "`--json` writes exactly one JSON document to stdout".  Whatever
\* bytes the drive sends in a text field, what the document holds for it is a
\* JSON string.
StringIsJson == cursor = -1 => IsJsonString(Inner)
=============================================================================
