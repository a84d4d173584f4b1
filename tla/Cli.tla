-------------------------------- MODULE Cli --------------------------------
(***************************************************************************)
(* m65_cli_parse of src/cli.c, word by word, against the usage lines it    *)
(* prints.  The words after the program's name are argv; a value may be    *)
(* any word, also one that looks like an option.                           *)
(***************************************************************************)
EXTENDS Naturals, Sequences

CONSTANTS
  Words,      \* the words that may follow the command
  MaxWords    \* words after the command

ASSUME MaxWordsAssumption == MaxWords \in Nat

Commands == {"list", "inspect", "test-1581"}
JSON == "--json"
ACK == "--ack-temporary-controller-change"
DEVICE == "--device"
OUTPUT == "--output"
NULL == "none"    \* a pointer that was not set

\* A word has an address.
ASSUME WordsAssumption == NULL \notin Words

VARIABLES
  argv,       \* the words given
  index,      \* the word the loop stands at
  options,    \* M65CliOptions
  verdict     \* "parsing", "accepted" or "refused"

clivars == <<argv, index, options, verdict>>

Argv ==
  {<< >>} \cup
  {<<command>> \o rest : command \in Commands \cup {"bogus"},
                         rest \in UNION {[1..n -> Words] : n \in 0..MaxWords}}

\* argv[1] decides the command; a missing or unknown one is refused.
CliInit ==
  /\ argv \in Argv
  /\ index = 2
  /\ options = [json |-> FALSE, acknowledgement |-> FALSE, device |-> NULL,
                output |-> NULL]
  /\ verdict = IF Len(argv) > 0 /\ argv[1] \in Commands THEN "parsing"
               ELSE "refused"

Parsing == verdict = "parsing" /\ index <= Len(argv)

Refuse ==
  /\ verdict' = "refused"
  /\ UNCHANGED <<argv, index, options>>

\* A flag that may come once.
Flag(word, field) ==
  /\ Parsing
  /\ argv[index] = word
  /\ \/ options[field] /\ Refuse
     \/ /\ ~options[field]
        /\ options' = [options EXCEPT ![field] = TRUE]
        /\ index' = index + 1
        /\ UNCHANGED <<argv, verdict>>

\* Mutant: the last value wins.
MutSetAgain(old) == TRUE

\* set_once: the destination is still NULL.
SetOnce(old) == old = NULL

\* An option that takes the next word, whatever it is.
Valued(word, field) ==
  /\ Parsing
  /\ argv[index] = word
  /\ \/ index + 1 > Len(argv) /\ Refuse
     \/ /\ index + 1 <= Len(argv)
        /\ \/ ~SetOnce(options[field]) /\ Refuse
           \/ /\ SetOnce(options[field])
              /\ options' = [options EXCEPT ![field] = argv[index + 1]]
              /\ index' = index + 2
              /\ UNCHANGED <<argv, verdict>>

JsonFlag == Flag(JSON, "json")
AckFlag == Flag(ACK, "acknowledgement")
DeviceOption == Valued(DEVICE, "device")
OutputOption == Valued(OUTPUT, "output")

UnknownOption ==
  /\ Parsing
  /\ argv[index] \notin {JSON, ACK, DEVICE, OUTPUT}
  /\ Refuse

\* What each command requires and what it does not take.
Complete(c, o) ==
  CASE c = "list" -> o.device = NULL /\ o.output = NULL /\ ~o.acknowledgement
    [] c = "inspect" -> /\ o.device # NULL
                        /\ o.output = NULL /\ ~o.acknowledgement
    [] c = "test-1581" -> o.device # NULL /\ o.acknowledgement

EndOfWords ==
  /\ verdict = "parsing"
  /\ index > Len(argv)
  /\ verdict' = IF Complete(argv[1], options) THEN "accepted" ELSE "refused"
  /\ UNCHANGED <<argv, index, options>>

CliNext ==
  \/ JsonFlag \/ AckFlag \/ DeviceOption \/ OutputOption \/ UnknownOption
  \/ EndOfWords

CliSpec == CliInit /\ [][CliNext]_clivars
-----------------------------------------------------------------------------
(* The usage lines of m65_cli_usage: each command with its options in any  *)
(* order.                                                                  *)

Orders == {p \in [1..4 -> 1..4] : \A i, j \in 1..4 : p[i] = p[j] => i = j}

\* The groups of words of a line with options o; one that is absent is empty.
Groups(o) ==
  <<IF o.json THEN <<JSON>> ELSE << >>,
    IF o.acknowledgement THEN <<ACK>> ELSE << >>,
    IF o.device # NULL THEN <<DEVICE, o.device>> ELSE << >>,
    IF o.output # NULL THEN <<OUTPUT, o.output>> ELSE << >>>>

\* The line of command c with the groups of o in the order p.
Line(c, o, p) ==
  LET g == Groups(o) IN <<c>> \o g[p[1]] \o g[p[2]] \o g[p[3]] \o g[p[4]]

Lines(c, o) == {Line(c, o, p) : p \in Orders}

\* The options of a usage line of command c; list [--json], inspect --device
\* d [--json], test-1581 --device d --ack... [--json] [--output f].
UsageOptions(c) ==
  [json : BOOLEAN,
   acknowledgement : {c = "test-1581"},
   device : IF c = "list" THEN {NULL} ELSE Words,
   output : IF c = "test-1581" THEN {NULL} \cup Words ELSE {NULL}]

UsageLines ==
  [c \in Commands |-> UNION {Lines(c, o) : o \in UsageOptions(c)}]

\* The parser accepts exactly the usage lines and reads the options off them:
\* what it accepted is a line with those options (each given once, values
\* taken from the word after the option even if that looks like an option),
\* and what it refused is no usage line at all.
AcceptsUsage ==
  /\ verdict = "accepted" =>
       /\ options \in UsageOptions(argv[1])
       /\ argv \in Lines(argv[1], options)
  /\ verdict = "refused" /\ Len(argv) > 0 /\ argv[1] \in Commands =>
       argv \notin UsageLines[argv[1]]
=============================================================================
