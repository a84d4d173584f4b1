------------------------------- MODULE MCJson -------------------------------
(* TLC instance of the writer of src/json.c with its three kinds of use: a  *)
(* caller that makes any calls (JsonWriter), the emitters of src/output.c   *)
(* (Reports), and the text of a string (JsonEscape).  A behaviour is one of *)
(* the three, while the others rest.  All three are checked as a part of    *)
(* MCData, and strings that are no UTF-8 here (StringSpec).                 *)
EXTENDS Reports, JsonEscape, JsonGrammar

\* Memory that runs out at an early append, in any section, or never.
MCRooms == {0, 1, 2, 3, 5, 9, 17, 40, 90, 150, 999}

MCToken == STRING

\* A byte of every kind the code tells apart, the letters that an escape
\* could be confused with, and bytes that are UTF-8 in some orders and not in
\* others: characters of two and three bytes, a surrogate, bytes of none.
MCFieldBytes == {0, 8, 9, 10, 12, 13, 31, 32, 34, 65, 92, 98, 117, 127,
            128, 130, 160, 169, 172, 195, 226, 237, 255}

\* The decoder against the grammar of UTF-8, at the borders of all its forms,
\* and the values at the ends of each.
Leads == {0, 127, 128, 191, 192, 193, 194, 223, 224, 225, 236, 237, 238, 239,
          240, 241, 243, 244, 245, 247, 248, 255}
Follows == {127, 128, 143, 144, 159, 160, 191, 192}
Encodings ==
  UNION {{<<a, b, c, d>>, <<a, b, c>>, <<a, b>>, <<a>>, <<a, b, c, d, a>>} :
           a \in Leads, b \in Follows, c, d \in {127, 128, 191, 192}}

ASSUME DecoderAssumption ==
  /\ \A s \in Encodings : DecoderAgrees(s)
  /\ CodePoints(<<127, 194, 128>>) = <<127, 128>>
  /\ CodePoints(<<223, 191, 224, 160, 128>>) = <<2047, 2048>>
  /\ CodePoints(<<237, 159, 191, 238, 128, 128>>) = <<55295, 57344>>
  /\ CodePoints(<<239, 191, 191, 240, 144, 128, 128>>) = <<65535, 65536>>
  /\ CodePoints(<<244, 143, 191, 191>>) = <<1114111>>

\* The reader against the grammar, rule by rule: every sequence of up to
\* five tokens; containers of two values and, with any one token replaced,
\* what they become.
Tokens == Punctuation \cup {"str", "key", "num"}
Short(n) == UNION {[1..k -> Tokens] : k \in 0..n}
Small == {t \in Short(3) : IsJsonText(t)}
ArrayOf(v, w) ==
  <<"begin-array">> \o v \o <<"value-separator">> \o w \o <<"end-array">>
ObjectOf(n, v, m, w) ==
  <<"begin-object", n, "name-separator">> \o v
  \o <<"value-separator", m, "name-separator">> \o w \o <<"end-object">>
Pairs ==
  {ArrayOf(v, w) : v, w \in Small}
  \cup {ObjectOf(n, v, m, w) : n, m \in {"str", "key"}, v, w \in Small}
Nested ==
  Pairs
  \cup {ObjectOf(n, v, "key", <<"str">>) : n \in {"str", "key"}, v \in Pairs}
Spoiled(t) == {[t EXCEPT ![i] = token] : i \in DOMAIN t, token \in Tokens}

ASSUME ReaderAssumption ==
  /\ \A t \in Short(5) : ReaderAgrees(t)
  /\ \A t \in Nested : ReaderAgrees(t)
  /\ \A t \in Pairs : \A u \in Spoiled(t) : ReaderAgrees(u)

WriterRests == writer = json_init(0) /\ calls = MaxCalls
NoEmitter ==
  /\ report = [command |-> "list", device |-> TRUE, named |-> TRUE,
               error |-> "text", sense_valid |-> FALSE, output |-> FALSE,
               items |-> 0]
  /\ section = "none" /\ script = << >> /\ stdout = << >>
EscapeRests ==
  /\ field = [i \in 1..FieldSize |-> 0] /\ used = 0 /\ copy = <<0>>
  /\ cursor = -1 /\ out = <<34, 34>>

JsonRests == WriterRests /\ NoEmitter /\ EscapeRests

StringInit == WriterRests /\ NoEmitter /\ EscapeInit

JsonInit ==
  \/ WriterInit /\ NoEmitter /\ EscapeRests
  \/ ReportsInit /\ calls = MaxCalls /\ EscapeRests
  \/ StringInit

JsonNext ==
  \/ WriterNext /\ UNCHANGED <<report, section, script, stdout, escvars>>
  \/ ReportsNext /\ UNCHANGED <<calls, escvars>>
  \/ EscapeNext /\ UNCHANGED <<rvars, calls>>

jvars == <<rvars, calls, escvars>>

\* Strings alone.
StringSpec == StringInit /\ [][JsonNext]_jvars
=============================================================================
