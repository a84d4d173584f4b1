--------------------------- MODULE JsonProofs ---------------------------
(***************************************************************************)
(* Proofs about the JSON writer (JsonDocument), the documents that         *)
(* output.c writes with it (Reports) and the text of their strings         *)
(* (JsonEscape), for every limit of depth and memory, every sequence of    *)
(* calls and every report.                                                 *)
(***************************************************************************)
EXTENDS Reports, JsonEscape, FiniteSetTheorems, SequenceTheorems, TLAPS
-----------------------------------------------------------------------------
(* Scans of a sequence                                                     *)

\* Every set of numbers that is not empty has a least member.
LEMMA LeastNumber ==
  ASSUME NEW X \in SUBSET Nat, X # {}
  PROVE  \E m \in X : \A k \in X : m <= k
  <1> DEFINE T == {0..n : n \in X}
  <1>0. \A n \in X : 0..n \in SUBSET Nat /\ IsFiniteSet(0..n)
    BY FS_Interval
  <1>1. T \subseteq FiniteSubsetsOf(Nat) /\ T # {}
    BY <1>0 DEF FiniteSubsetsOf
  <1>2. IsWellFoundedOn(StrictSubsetOrdering(Nat), FiniteSubsetsOf(Nat))
    BY FS_StrictSubsetOrderingWellFounded
  <1>3. PICK s \in T : \A y \in T : ~ (<<y, s>> \in StrictSubsetOrdering(Nat))
    BY <1>1, <1>2, WFMin
  <1>4. PICK m \in X : s = 0..m
    BY <1>3
  <1>5. ASSUME NEW k \in X, ~ (m <= k) PROVE FALSE
    <2>1. 0..k \subseteq 0..m /\ 0..k # 0..m /\ 0..k \in T
      BY <1>5
    <2>2. <<0..k, 0..m>> \in StrictSubsetOrdering(Nat)
      BY <2>1, <1>1, <1>4, <1>3 DEF StrictSubsetOrdering, FiniteSubsetsOf
    <2> QED
      BY <2>1, <2>2, <1>3, <1>4
  <1> QED
    BY <1>5

\* A set of numbers with 0 and every successor of its members is Nat.
LEMMA Induction ==
  ASSUME NEW X, 0 \in X, \A n \in Nat : n \in X => n + 1 \in X
  PROVE  Nat \subseteq X
  <1> SUFFICES ASSUME Nat \ X # {} PROVE FALSE
    OBVIOUS
  <1>1. PICK m \in Nat \ X : \A k \in Nat \ X : m <= k
    BY LeastNumber
  <1>2. m - 1 \in Nat /\ m - 1 \notin Nat \ X
    BY <1>1
  <1> QED
    BY <1>1, <1>2

\* One more element at the end.
LEMMA AppendOne ==
  ASSUME NEW S, NEW s \in Seq(S), NEW x \in S
  PROVE  /\ Append(s, x) \in Seq(S)
         /\ Len(Append(s, x)) = Len(s) + 1
         /\ Append(s, x)[Len(s) + 1] = x
         /\ \A i \in 1..Len(s) : Append(s, x)[i] = s[i]
  OBVIOUS

\* Another last element.
LEMMA LastChanged ==
  ASSUME NEW S, NEW s \in Seq(S), s # << >>, NEW x \in S
  PROVE  /\ [s EXCEPT ![Len(s)] = x] \in Seq(S)
         /\ Len([s EXCEPT ![Len(s)] = x]) = Len(s)
         /\ [s EXCEPT ![Len(s)] = x][Len(s)] = x
         /\ \A i \in 1..Len(s) - 1 : [s EXCEPT ![Len(s)] = x][i] = s[i]
         /\ [s EXCEPT ![Len(s)] = x] # << >>
  <1> DEFINE n == Len(s)
             t == [s EXCEPT ![n] = x]
  <1>1. n \in Nat \ {0} /\ n \in 1..Len(s)
    BY EmptySeq
  <1>2. /\ t \in Seq(S) /\ Len(t) = Len(s)
        /\ \A i \in 1..Len(s) : t[i] = IF i = n THEN x ELSE s[i]
    <2> HIDE DEF n
    <2> QED
      BY <1>1, ExceptSeq
  <1> HIDE DEF t
  <1>3. t[n] = x /\ \A i \in 1..n - 1 : t[i] = s[i]
    BY <1>1, <1>2
  <1>4. t # << >>
    BY <1>1, <1>2
  <1> QED
    BY <1>2, <1>3, <1>4 DEF t

\* f has the states in which a reader stands after 0, 1, ... m elements of s.
IsSteps(f, step, start, s, m) ==
  f = [n \in 0..m |-> IF n = 0 THEN start ELSE After(step, f[n - 1], s[n])]

\* A reader has states after any number of elements.
LEMMA StepsExist ==
  ASSUME NEW step, NEW start, NEW s
  PROVE  \A m \in Nat : \E f : IsSteps(f, step, start, s, m)
  <1> DEFINE X == {m \in Nat : \E f : IsSteps(f, step, start, s, m)}
  <1>1. 0 \in X
    <2> DEFINE f == [n \in 0..0 |-> start]
    <2>1. IsSteps(f, step, start, s, 0)
      BY DEF IsSteps
    <2> QED
      BY <2>1
  <1>2. ASSUME NEW m \in Nat, m \in X PROVE m + 1 \in X
    <2>1. PICK f : IsSteps(f, step, start, s, m)
      BY <1>2
    <2> DEFINE g == [n \in 0..(m + 1) |->
                       IF n = m + 1 THEN After(step, f[m], s[m + 1]) ELSE f[n]]
    <2>2. \A n \in 0..m : g[n] = f[n]
      BY <1>2
    <2>3. \A n \in 0..(m + 1) :
            g[n] = IF n = 0 THEN start ELSE After(step, g[n - 1], s[n])
      <3> SUFFICES ASSUME NEW n \in 0..(m + 1)
                   PROVE  g[n] = IF n = 0 THEN start
                                 ELSE After(step, g[n - 1], s[n])
        OBVIOUS
      <3>1. CASE n = 0
        <4>1. 0 \in 0..m
          BY <1>2
        <4>2. g[0] = f[0]
          BY <4>1, <2>2
        <4>3. f[0] = start
          BY <4>1, <2>1 DEF IsSteps
        <4> HIDE DEF g
        <4> QED
          BY <4>2, <4>3, <3>1
      <3>2. CASE n \in 1..m
        <4>1. n - 1 \in 0..m /\ n \in 0..m
          BY <3>2, <1>2
        <4>2. g[n] = f[n] /\ g[n - 1] = f[n - 1]
          BY <4>1, <2>2
        <4>3. f[n] = After(step, f[n - 1], s[n])
          BY <4>1, <3>2, <1>2, <2>1 DEF IsSteps
        <4> QED
          <5> HIDE DEF g
          <5> QED
            BY <4>2, <4>3, <3>2
      <3>3. CASE n = m + 1
        <4>1. g[m] = f[m] /\ g[m + 1] = After(step, f[m], s[m + 1])
          BY <1>2
        <4>2. m + 1 # 0 /\ (m + 1) - 1 = m
          BY <1>2
        <4> HIDE DEF g
        <4> QED
          BY <4>1, <4>2, <3>3
      <3>4. n = 0 \/ n \in 1..m \/ n = m + 1
        BY <1>2
      <3> HIDE DEF g
      <3> QED
        BY <3>1, <3>2, <3>3, <3>4
    <2>4. IsSteps(g, step, start, s, m + 1)
      <3> HIDE DEF g
      <3>1. g = [n \in 0..(m + 1) |-> g[n]]
        BY DEF g
      <3> QED
        BY <3>1, <2>3 DEF IsSteps
    <2>5. \E h : IsSteps(h, step, start, s, m + 1)
      BY <2>4
    <2> HIDE DEF g
    <2> QED
      BY <2>5
  <1>3. Nat \subseteq X
    <2> HIDE DEF X
    <2> QED
      BY <1>1, <1>2, Induction
  <1> QED
    BY <1>3

\* Two such lists agree as long as the elements do.
LEMMA StepsAgree ==
  ASSUME NEW step, NEW start, NEW s, NEW t, NEW f, NEW g,
         NEW k \in Nat, NEW m \in Nat, NEW n \in Nat, n <= k, n <= m,
         IsSteps(f, step, start, s, k), IsSteps(g, step, start, t, m),
         \A i \in 1..n : s[i] = t[i]
  PROVE  f[n] = g[n]
  <1> DEFINE X == {i \in Nat : i <= n => f[i] = g[i]}
  <1>1. 0 \in X
    <2>1. f[0] = start /\ g[0] = start
      BY DEF IsSteps
    <2> QED
      BY <2>1
  <1>2. ASSUME NEW i \in Nat, i \in X PROVE i + 1 \in X
    <2> SUFFICES ASSUME i + 1 <= n PROVE f[i + 1] = g[i + 1]
      OBVIOUS
    <2>1. f[i] = g[i] /\ s[i + 1] = t[i + 1] /\ i + 1 # 0 /\ (i + 1) - 1 = i
      BY <1>2
    <2>2. i + 1 \in 0..k /\ i + 1 \in 0..m
      BY <1>2
    <2>3. f[i + 1] = After(step, f[i], s[i + 1])
      BY <2>1, <2>2 DEF IsSteps
    <2>4. g[i + 1] = After(step, g[i], t[i + 1])
      BY <2>1, <2>2 DEF IsSteps
    <2> QED
      BY <2>1, <2>3, <2>4
  <1>3. Nat \subseteq X
    <2> HIDE DEF X
    <2> QED
      BY <1>1, <1>2, Induction
  <1> QED
    BY <1>3

\* What Scan returns is the last state of such a list.
LEMMA ScanSteps ==
  ASSUME NEW step, NEW start, NEW s, Len(s) \in Nat
  PROVE  \E f : /\ IsSteps(f, step, start, s, Len(s))
                /\ Scan(step, start, s) = f[Len(s)]
  <1> DEFINE at == CHOOSE f : IsSteps(f, step, start, s, Len(s))
  <1>1. IsSteps(at, step, start, s, Len(s))
    BY StepsExist
  <1>2. Scan(step, start, s) = at[Len(s)]
    BY DEF Scan, IsSteps
  <1> QED
    BY <1>1, <1>2

\* Nothing read leaves a reader where it was.
LEMMA ScanEmpty ==
  ASSUME NEW step, NEW start
  PROVE  Scan(step, start, << >>) = start
  <1>1. PICK f : /\ IsSteps(f, step, start, << >>, 0)
                 /\ Scan(step, start, << >>) = f[0]
    BY ScanSteps
  <1> QED
    BY <1>1 DEF IsSteps

\* The last element is read last.
LEMMA ScanAppend ==
  ASSUME NEW step, NEW start, NEW S, NEW s \in Seq(S), NEW x \in S
  PROVE  Scan(step, start, Append(s, x)) = After(step, Scan(step, start, s), x)
  <1> DEFINE t == Append(s, x)
             n == Len(s)
  <1>1. n \in Nat /\ Len(t) = n + 1 /\ t[n + 1] = x
        /\ \A i \in 1..n : s[i] = t[i]
    OBVIOUS
  <1>2. PICK f : IsSteps(f, step, start, s, n) /\ Scan(step, start, s) = f[n]
    BY <1>1, ScanSteps
  <1>3. PICK g : /\ IsSteps(g, step, start, t, n + 1)
                 /\ Scan(step, start, t) = g[n + 1]
    <2>1. Len(t) \in Nat
      BY <1>1
    <2> HIDE DEF t
    <2> QED
      BY <1>1, <2>1, ScanSteps
  <1>4. f[n] = g[n]
    <2> HIDE DEF t, n
    <2> QED
      BY <1>1, <1>2, <1>3, StepsAgree
  <1>5. g[n + 1] = After(step, g[n], t[n + 1])
    <2>1. n + 1 \in 0..(n + 1) /\ n + 1 # 0 /\ (n + 1) - 1 = n
      BY <1>1
    <2> HIDE DEF t, n
    <2> QED
      BY <2>1, <1>3 DEF IsSteps
  <1> QED
    BY <1>1, <1>2, <1>3, <1>4, <1>5

\* A sequence can be read in two parts.
LEMMA ScanConcat ==
  ASSUME NEW step, NEW start, NEW S, NEW s \in Seq(S), NEW t \in Seq(S)
  PROVE  Scan(step, start, s \o t) = Scan(step, Scan(step, start, s), t)
  <1> DEFINE Agree(u) ==
        Scan(step, start, s \o u) = Scan(step, Scan(step, start, s), u)
      X == {n \in Nat : \A u \in Seq(S) : Len(u) = n => Agree(u)}
  <1>1. 0 \in X
    <2> SUFFICES ASSUME NEW u \in Seq(S), Len(u) = 0 PROVE Agree(u)
      OBVIOUS
    <2>1. u = << >> /\ s \o u = s
      BY EmptySeq, ConcatEmptySeq
    <2> QED
      BY <2>1, ScanEmpty
  <1>2. ASSUME NEW n \in Nat, n \in X PROVE n + 1 \in X
    <2> SUFFICES ASSUME NEW u \in Seq(S), Len(u) = n + 1 PROVE Agree(u)
      OBVIOUS
    <2> DEFINE v == SubSeq(u, 1, n)
               x == u[n + 1]
    <2>1. v \in Seq(S) /\ x \in S /\ Len(v) = n /\ u = Append(v, x)
      OBVIOUS
    <2>2. s \o v \in Seq(S) /\ s \o u = Append(s \o v, x)
      BY <2>1
    <2>3. Agree(v)
      BY <1>2, <2>1
    <2>4. Scan(step, start, s \o u) = After(step, Scan(step, start, s \o v), x)
      <3> DEFINE w == s \o v
      <3>1. w \in Seq(S) /\ x \in S /\ s \o u = Append(w, x)
        BY <2>1, <2>2
      <3> HIDE DEF v, w, x
      <3>2. Scan(step, start, Append(w, x))
              = After(step, Scan(step, start, w), x)
        BY <3>1, ScanAppend
      <3> QED
        BY <3>1, <3>2 DEF w
    <2>5. Scan(step, Scan(step, start, s), u)
            = After(step, Scan(step, Scan(step, start, s), v), x)
      <3> HIDE DEF v, x
      <3> QED
        BY <2>1, ScanAppend
    <2> QED
      BY <2>3, <2>4, <2>5
  <1>3. Nat \subseteq X
    <2> HIDE DEF X
    <2> QED
      BY <1>1, <1>2, Induction
  <1> QED
    BY <1>3

\* The first element is read first.
LEMMA ScanOne ==
  ASSUME NEW step, NEW start, NEW x
  PROVE  Scan(step, start, <<x>>) = After(step, start, x)
  <1> DEFINE e == << >>
  <1>1. <<x>> = Append(e, x) /\ e \in Seq({x}) /\ x \in {x}
    OBVIOUS
  <1>2. Scan(step, start, e) = start
    BY ScanEmpty
  <1> HIDE DEF e
  <1>3. Scan(step, start, Append(e, x)) = After(step, Scan(step, start, e), x)
    BY <1>1, ScanAppend
  <1> QED
    BY <1>1, <1>2, <1>3

\* A reader whose steps keep to Q stays in Q.
LEMMA ScanType ==
  ASSUME NEW step, NEW Q, NEW S, NEW start \in Q, NEW s \in Seq(S),
         \A q \in Q : \A x \in S : After(step, q, x) \in Q
  PROVE  Scan(step, start, s) \in Q
  <1> DEFINE X == {n \in Nat : \A u \in Seq(S) :
                     Len(u) = n => Scan(step, start, u) \in Q}
  <1>1. 0 \in X
    <2> SUFFICES ASSUME NEW u \in Seq(S), Len(u) = 0
                 PROVE  Scan(step, start, u) \in Q
      OBVIOUS
    <2>1. u = << >>
      BY EmptySeq
    <2> QED
      BY <2>1, ScanEmpty
  <1>2. ASSUME NEW n \in Nat, n \in X PROVE n + 1 \in X
    <2> SUFFICES ASSUME NEW u \in Seq(S), Len(u) = n + 1
                 PROVE  Scan(step, start, u) \in Q
      OBVIOUS
    <2> DEFINE v == SubSeq(u, 1, n)
               x == u[n + 1]
    <2>1. v \in Seq(S) /\ x \in S /\ Len(v) = n /\ u = Append(v, x)
      OBVIOUS
    <2>2. Scan(step, start, v) \in Q
      BY <1>2, <2>1
    <2>3. Scan(step, start, u) = After(step, Scan(step, start, v), x)
      <3> HIDE DEF v, x
      <3> QED
        BY <2>1, ScanAppend
    <2> QED
      BY <2>1, <2>2, <2>3
  <1>3. Nat \subseteq X
    <2> HIDE DEF X
    <2> QED
      BY <1>1, <1>2, Induction
  <1> QED
    BY <1>3

\* A sequence that has one element more than another.
LEMMA AppendIs ==
  ASSUME NEW S, NEW s \in Seq(S), NEW t \in Seq(S), NEW x \in S,
         Len(t) = Len(s) + 1, t[Len(s) + 1] = x,
         \A i \in 1..Len(s) : t[i] = s[i]
  PROVE  Append(s, x) = t
  <1> DEFINE u == Append(s, x)
  <1>1. /\ u \in Seq(S) /\ Len(u) = Len(s) + 1 /\ u[Len(s) + 1] = x
        /\ \A i \in 1..Len(s) : u[i] = s[i]
    BY AppendOne
  <1> HIDE DEF u
  <1>2. \A i \in 1..Len(u) : u[i] = t[i]
    BY <1>1
  <1>3. u = t
    BY <1>1, <1>2, SeqEqual
  <1> QED
    BY <1>3 DEF u
-----------------------------------------------------------------------------
(* The reader, and the books of the writer                                 *)

\* The names and brackets of the tokens are different strings, and a reader
\* goes from state to state.
LEMMA NameRead ==
  ASSUME NEW q \in ReaderState, q.levels # << >>, NEW name \in Token
  PROVE  ReadName(q, name) \in ReaderState
  <1> DEFINE n == Len(q.levels)
             level == [q.levels[n] EXCEPT !.names = @ \cup {name}]
             levels == [q.levels EXCEPT ![n] = level]
             root == IF n = 1 THEN Append(q.root, name) ELSE q.root
             unique == q.unique /\ name \notin q.levels[n].names
  <1>1. q.levels \in Seq(Level) /\ q.root \in Seq(Token)
    BY DEF ReaderState
  <1>2. levels \in Seq(Level)
    <2>1. n \in 1..Len(q.levels) /\ q.levels[n] \in Level
      BY <1>1, EmptySeq
    <2>2. level \in Level
      BY <2>1 DEF Level
    <2> HIDE DEF n, level
    <2> QED
      BY <1>1, <2>1, <2>2, ExceptSeq
  <1>3. root \in Seq(Token)
    BY <1>1
  <1>4. unique \in BOOLEAN
    BY DEF ReaderState
  <1>5. ReadName(q, name)
          = [levels |-> levels, expects |-> "colon", root |-> root,
             unique |-> unique]
    BY DEF ReadName, Innermost
  <1> HIDE DEF levels, root, unique
  <1> QED
    BY <1>2, <1>3, <1>4, <1>5 DEF ReaderState, Expected

\* Every token leads a reader from state to state.
LEMMA TokenRead ==
  ASSUME NEW q \in ReaderState, NEW token \in Token
  PROVE  /\ ReadToken(q, token) \in ReaderState
         /\ After(ReaderStep, q, token) = ReadToken(q, token)
  <1>1. \A what \in Expected : Expecting(q, what) \in ReaderState
    BY DEF Expecting, ReaderState
  <1>2. \A close \in {"end-object", "end-array"}, first \in Expected :
          Enter(q, close, first) \in ReaderState
    <2> SUFFICES ASSUME NEW close \in {"end-object", "end-array"},
                        NEW first \in Expected
                 PROVE  Enter(q, close, first) \in ReaderState
      OBVIOUS
    <2> DEFINE level == [close |-> close, names |-> {}]
    <2>1. level \in Level
      BY DEF Level
    <2>2. Enter(q, close, first)
            = [q EXCEPT !.levels = Append(q.levels, level), !.expects = first]
      BY DEF Enter
    <2>3. q.levels \in Seq(Level)
      BY DEF ReaderState
    <2> HIDE DEF level
    <2>4. Append(q.levels, level) \in Seq(Level)
      BY <2>1, <2>3, AppendOne
    <2> QED
      BY <2>2, <2>4 DEF ReaderState
  <1>3. Leave(q) \in ReaderState
    <2>1. SubSeq(q.levels, 1, Len(q.levels) - 1) \in Seq(Level)
      BY DEF ReaderState
    <2> QED
      BY <2>1 DEF Leave, ReaderState, Expected
  <1>4. ReadToken(q, token) \in ReaderState
    <2>1. {"value", "element", "member", "name", "colon", "more", "nothing"}
            = Expected
      BY DEF Expected
    <2> QED
      BY <1>1, <1>2, <1>3, <2>1, NameRead DEF ReadToken
  <1> QED
    BY <1>4 DEF After, ReaderStep

\* A reader has a state after any tokens, and reads the last one last.
LEMMA ReadingType ==
  ASSUME NEW t \in Seq(Token)
  PROVE  Reading(t) \in ReaderState
  <1>1. Unread \in ReaderState
    BY DEF Unread, ReaderState, Expected
  <1>2. \A q \in ReaderState : \A x \in Token :
          After(ReaderStep, q, x) \in ReaderState
    BY TokenRead
  <1> QED
    BY <1>1, <1>2, ScanType DEF Reading

\* The last token is read last.
LEMMA ReadingAppend ==
  ASSUME NEW t \in Seq(Token), NEW token \in Token
  PROVE  Reading(Append(t, token)) = ReadToken(Reading(t), token)
  <1>1. Reading(Append(t, token)) = After(ReaderStep, Reading(t), token)
    BY ScanAppend DEF Reading
  <1> QED
    BY <1>1, ReadingType, TokenRead

\* What the writer knows of an open container, and of the document.
ContainerState ==
  [close : {"end-object", "end-array"}, some : BOOLEAN, expecting : BOOLEAN]
WriterState ==
  [text : Seq(Token), stack : Seq(ContainerState), root_written : BOOLEAN,
   failed : BOOLEAN, room : Nat, ok : BOOLEAN]

\* What the writer's flags make of the text.
Awaits(w) ==
  IF w.stack = << >> THEN IF w.root_written THEN "more" ELSE "value"
  ELSE IF Top(w).expecting THEN "value"
  ELSE IF Top(w).some THEN "more"
  ELSE IF InObject(w) THEN "member"
  ELSE "element"

\* The writer's books and a reader of its text agree: the same containers
\* are open, those around the innermost wait for a comma or their end, and
\* the innermost for what the flags say.
Agree(w, q) ==
  /\ Len(q.levels) = Len(w.stack)
  /\ \A i \in 1..Len(w.stack) : q.levels[i].close = w.stack[i].close
  /\ \A i \in 1..Len(w.stack) - 1 : w.stack[i].some /\ ~w.stack[i].expecting
  /\ w.stack # << >> =>
       /\ w.root_written
       /\ Top(w).close = "end-array" => ~Top(w).expecting
  /\ q.expects = Awaits(w)

\* One append: memory runs out, or a reader has one token more.
LEMMA Appended ==
  ASSUME NEW w \in WriterState, NEW token \in Token
  PROVE  LET v == append(w, token)
         IN  /\ v \in WriterState
             /\ v.stack = w.stack /\ v.root_written = w.root_written
             /\ v.ok = ~v.failed
             /\ v.failed => w.failed \/ v.room = 0
             /\ ~v.failed =>
                  Reading(v.text) = ReadToken(Reading(w.text), token)
  <1>1. CASE w.failed \/ w.room = 0
    BY <1>1 DEF append, Fail, WriterState
  <1>2. CASE ~w.failed /\ w.room # 0
    <2>1. append(w, token)
            = [w EXCEPT !.text = Append(w.text, token),
                        !.room = w.room - 1, !.ok = TRUE]
      BY <1>2 DEF append
    <2>2. w.text \in Seq(Token) /\ w.room - 1 \in Nat
      BY <1>2 DEF WriterState
    <2>3. Append(w.text, token) \in Seq(Token)
      BY <2>2, AppendOne
    <2>4. Reading(Append(w.text, token)) = ReadToken(Reading(w.text), token)
      BY <2>2, ReadingAppend
    <2> QED
      BY <1>2, <2>1, <2>2, <2>3, <2>4 DEF WriterState
  <1> QED
    BY <1>1, <1>2

\* The innermost container is changed and no other.
LEMMA TopChanged ==
  ASSUME NEW w \in WriterState, w.stack # << >>, NEW c \in ContainerState
  PROVE  LET v == WithTop(w, c)
         IN  /\ v \in WriterState
             /\ Len(v.stack) = Len(w.stack) /\ v.stack # << >>
             /\ Top(v) = c
             /\ \A i \in 1..Len(w.stack) - 1 : v.stack[i] = w.stack[i]
             /\ v.text = w.text /\ v.root_written = w.root_written
             /\ v.failed = w.failed /\ v.room = w.room /\ v.ok = w.ok
  <1> DEFINE n == Len(w.stack)
             stack == [w.stack EXCEPT ![n] = c]
  <1>1. w.stack \in Seq(ContainerState)
    BY DEF WriterState
  <1>2. /\ stack \in Seq(ContainerState) /\ Len(stack) = n
        /\ stack[n] = c /\ \A i \in 1..n - 1 : stack[i] = w.stack[i]
        /\ stack # << >>
    BY <1>1, LastChanged
  <1>4. WithTop(w, c) = [w EXCEPT !.stack = stack]
    BY DEF WithTop, depth, WriterState
  <1> HIDE DEF stack
  <1> QED
    BY <1>1, <1>2, <1>4 DEF WriterState, Top, depth

\* There is an innermost container unless none is open.
LEMMA TopType ==
  ASSUME NEW w \in WriterState, w.stack # << >>
  PROVE  /\ Top(w) \in ContainerState
         /\ Len(w.stack) \in Nat \ {0}
         /\ Len(w.stack) \in 1..Len(w.stack)
  BY EmptySeq, ElementOfSeq DEF WriterState, Top, depth

\* Where a value may come next: after the comma of an array, too.
MayPut(q) ==
  \/ WantsValue(q)
  \/ q.expects = "more" /\ q.levels # << >> /\ Innermost(q).close = "end-array"

\* The calls the writer takes where a reader stands in q.
Fits(q, c) ==
  \/ /\ c.op = "key"
     /\ q.levels # << >> /\ Innermost(q).close = "end-object"
     /\ q.expects \in {"member", "more"}
  \/ c.op = "value" /\ MayPut(q)
  \/ c.op = "open" /\ MayPut(q) /\ Len(q.levels) < MaxDepth
  \/ c.op = "close" /\ MayLeave(q, c.arg)

\* Where such a call leads a reader.
Led(q, c) ==
  CASE c.op = "key" -> Expecting(ReadName(q, c.arg), "value")
    [] c.op = "value" -> Expecting(q, "more")
    [] c.op = "open" -> IF c.arg = "begin-object"
                        THEN Enter(q, "end-object", "member")
                        ELSE Enter(q, "end-array", "element")
    [] c.op = "close" -> Leave(q)

\* A call that does not fit leads where nothing more may come.
CallOn(q, c) == IF Fits(q, c) THEN Led(q, c) ELSE Expecting(q, "nothing")

\* The arguments that the callers give.
Sound(c) ==
  \/ c.op = "key" /\ c.arg \notin Punctuation \cup {"num"}
  \/ c.op = "value" /\ c.arg \notin Punctuation
  \/ c.op = "open" /\ c.arg \in {"begin-object", "begin-array"}
  \/ c.op = "close" /\ c.arg \in {"end-object", "end-array"}

\* Every open container waits for a comma or its end.
Settled(w, q) ==
  /\ Len(q.levels) = Len(w.stack)
  /\ \A i \in 1..Len(w.stack) :
       /\ q.levels[i].close = w.stack[i].close
       /\ w.stack[i].some /\ ~w.stack[i].expecting
  /\ w.root_written

\* Books that are settled agree with a reader.
LEMMA SettledAgrees ==
  ASSUME NEW w \in WriterState, NEW q \in ReaderState, Settled(w, q),
         q.expects = "more"
  PROVE  Agree(w, q)
  <1>1. CASE w.stack = << >>
    BY <1>1 DEF Settled, Agree, Awaits
  <1>2. CASE w.stack # << >>
    <2>1. /\ Len(w.stack) \in 1..Len(w.stack) /\ Len(w.stack) \in Nat
          /\ Top(w) = w.stack[Len(w.stack)]
      BY <1>2, TopType DEF Top, depth
    <2>2. Top(w).some /\ ~Top(w).expecting
      BY <2>1 DEF Settled
    <2>3. Awaits(w) = "more"
      BY <1>2, <2>2 DEF Awaits
    <2> QED
      BY <2>1, <2>2, <2>3, <1>2 DEF Settled, Agree
  <1> QED
    BY <1>1, <1>2

\* The innermost level of a reader and of the books.
LEMMA SameTop ==
  ASSUME NEW w \in WriterState, NEW q \in ReaderState,
         Len(q.levels) = Len(w.stack),
         \A i \in 1..Len(w.stack) : q.levels[i].close = w.stack[i].close
  PROVE  /\ (q.levels = << >>) = (w.stack = << >>)
         /\ w.stack # << >> => Innermost(q).close = Top(w).close
  <1>1. q.levels \in Seq(Level) /\ w.stack \in Seq(ContainerState)
    BY DEF ReaderState, WriterState
  <1>2. (q.levels = << >>) = (w.stack = << >>)
    BY <1>1, EmptySeq
  <1>3. w.stack # << >> => Innermost(q).close = Top(w).close
    BY TopType DEF Innermost, Top, depth
  <1> QED
    BY <1>2, <1>3

\* What a reader makes of the tokens where they fit.
LEMMA PunctuationRead ==
  ASSUME NEW q \in ReaderState
  PROVE  /\ WantsValue(q) =>
              /\ ReadToken(q, "begin-object") = Enter(q, "end-object", "member")
              /\ ReadToken(q, "begin-array") = Enter(q, "end-array", "element")
         /\ \A token \in {"end-object", "end-array"} :
              MayLeave(q, token) => ReadToken(q, token) = Leave(q)
         /\ q.expects = "more" /\ q.levels # << >> =>
              ReadToken(q, "value-separator") =
                Expecting(q, IF Innermost(q).close = "end-object" THEN "name"
                             ELSE "value")
         /\ q.expects = "colon" =>
              ReadToken(q, "name-separator") = Expecting(q, "value")
  BY DEF ReadToken, Punctuation

\* What a reader makes of values and names where they fit.
LEMMA WordRead ==
  ASSUME NEW q \in ReaderState, NEW token \in Token, token \notin Punctuation
  PROVE  /\ WantsValue(q) => ReadToken(q, token) = Expecting(q, "more")
         /\ /\ q.expects \in {"member", "name"} /\ q.levels # << >>
            /\ token # "num"
            => ReadToken(q, token) = ReadName(q, token)
  BY DEF ReadToken, Punctuation, WantsValue

\* The comma of append_comma is one that a reader takes.
LEMMA CommaRead ==
  ASSUME NEW w \in WriterState, ~w.failed, Agree(w, Reading(w.text)),
         w.stack # << >>, ~Top(w).expecting
  PROVE  LET v == append_comma(w)
             q == Reading(w.text)
         IN  /\ v \in WriterState
             /\ v.stack = w.stack /\ v.root_written = w.root_written
             /\ v.ok = ~v.failed
             /\ v.failed => v.room = 0
             /\ ~v.failed =>
                  Reading(v.text) =
                    IF Top(w).some
                    THEN Expecting(q, IF InObject(w) THEN "name" ELSE "value")
                    ELSE q
  <1> DEFINE q == Reading(w.text)
  <1>1. q \in ReaderState
    BY ReadingType DEF WriterState
  <1>2. q.levels # << >> /\ (Innermost(q).close = "end-object") = InObject(w)
    BY <1>1, SameTop DEF Agree, InObject
  <1>3. CASE Top(w).some
    <2>1. q.expects = "more"
      BY <1>3 DEF Agree, Awaits
    <2>2. ReadToken(q, "value-separator") =
            Expecting(q, IF InObject(w) THEN "name" ELSE "value")
      <3> HIDE DEF q
      <3> QED
        BY <1>1, <1>2, <2>1, PunctuationRead
    <2>3. "value-separator" \in Token
      BY TokenAssumption DEF Punctuation
    <2> QED
      BY <1>3, <2>2, <2>3, Appended DEF append_comma
  <1>4. CASE ~Top(w).some
    BY <1>4 DEF append_comma, Returns, WriterState
  <1> QED
    BY <1>3, <1>4

\* before_value: where a value may come, a reader now wants one; elsewhere
\* the failure is latched.
LEMMA BeforeValue ==
  ASSUME NEW w \in WriterState, ~w.failed, Agree(w, Reading(w.text))
  PROVE  LET v == before_value(w)
             q == Reading(w.text)
             r == Reading(v.text)
         IN  /\ v \in WriterState
             /\ v.ok = ~v.failed
             /\ v.failed => /\ v.room = 0 \/ ~MayPut(q)
                            /\ v.stack = w.stack
             /\ ~v.failed =>
                  /\ MayPut(q)
                  /\ WantsValue(r)
                  /\ \E what \in Expected : r = Expecting(q, what)
                  /\ Settled(v, q)
  <1> DEFINE v == before_value(w)
             q == Reading(w.text)
             r == Reading(v.text)
  <1>1. q \in ReaderState
    BY ReadingType DEF WriterState
  <1>2. /\ Len(q.levels) = Len(w.stack)
        /\ \A i \in 1..Len(w.stack) : q.levels[i].close = w.stack[i].close
        /\ \A i \in 1..Len(w.stack) - 1 :
             w.stack[i].some /\ ~w.stack[i].expecting
        /\ q.expects = Awaits(w)
    BY DEF Agree
  <1>3. /\ (q.levels = << >>) = (w.stack = << >>)
        /\ w.stack # << >> => Innermost(q).close = Top(w).close
    BY <1>1, <1>2, SameTop
  <1>4. (depth(w) = 0) = (w.stack = << >>)
    BY EmptySeq DEF depth, WriterState
  <1>5. q = Expecting(q, q.expects) /\ q.expects \in Expected
    BY <1>1 DEF Expecting, ReaderState
  <1>6. CASE w.stack = << >>
    <2>1. CASE w.root_written
      <3>1. ~MayPut(q)
        BY <1>2, <1>3, <1>6, <2>1 DEF Awaits, MayPut, WantsValue
      <3> QED
        BY <1>4, <1>6, <2>1, <3>1 DEF before_value, Fail, WriterState
    <2>2. CASE ~w.root_written
      <3>1. q.expects = "value"
        BY <1>2, <1>6, <2>2 DEF Awaits
      <3>2. v = [w EXCEPT !.root_written = TRUE, !.ok = TRUE]
        BY <1>4, <1>6, <2>2 DEF before_value
      <3>3. /\ v \in WriterState /\ v.ok /\ ~v.failed
            /\ v.text = w.text /\ v.stack = w.stack /\ v.root_written
        BY <3>2 DEF WriterState
      <3>4. Settled(v, q)
        BY <1>2, <1>6, <3>3 DEF Settled
      <3>5. r = q /\ WantsValue(q) /\ MayPut(q)
        BY <3>1, <3>3 DEF WantsValue, MayPut
      <3> HIDE DEF v, q, r
      <3> QED
        BY <1>5, <3>3, <3>4, <3>5 DEF v, q, r
    <2> QED
      BY <2>1, <2>2
  <1>7. ASSUME w.stack # << >>, NEW u \in WriterState,
               u.stack = w.stack, u.ok, ~u.failed,
               u.root_written = w.root_written,
               v = WithTop(u, [Top(u) EXCEPT !.some = TRUE,
                                             !.expecting = FALSE])
        PROVE  /\ v \in WriterState /\ v.text = u.text
               /\ v.ok /\ ~v.failed /\ Settled(v, q)
    <2> DEFINE c == [Top(u) EXCEPT !.some = TRUE, !.expecting = FALSE]
    <2>1. Top(u) = Top(w) /\ Top(w) \in ContainerState
      BY <1>7, TopType DEF Top, depth
    <2>2. /\ c \in ContainerState /\ c.some /\ ~c.expecting
          /\ c.close = Top(w).close
      BY <2>1 DEF ContainerState
    <2>3. v = WithTop(u, c)
      BY <1>7
    <2> HIDE DEF c, v
    <2>4. /\ v \in WriterState
          /\ Len(v.stack) = Len(w.stack) /\ v.stack # << >>
          /\ Top(v) = c
          /\ \A i \in 1..Len(w.stack) - 1 : v.stack[i] = w.stack[i]
          /\ v.text = u.text /\ v.root_written = w.root_written
          /\ v.failed = u.failed /\ v.ok = u.ok
      <3>1. u \in WriterState /\ u.stack # << >>
        BY <1>7
      <3>2. /\ v \in WriterState
            /\ Len(v.stack) = Len(u.stack) /\ v.stack # << >>
            /\ Top(v) = c
            /\ \A i \in 1..Len(u.stack) - 1 : v.stack[i] = u.stack[i]
            /\ v.text = u.text /\ v.root_written = u.root_written
            /\ v.failed = u.failed /\ v.ok = u.ok
        BY <2>2, <2>3, <3>1, TopChanged
      <3> QED
        BY <1>7, <3>2
    <2>5. w.root_written
      BY <1>7 DEF Agree
    <2>6. /\ Len(w.stack) \in Nat \ {0}
          /\ v.stack[Len(w.stack)] = c
          /\ Top(w) = w.stack[Len(w.stack)]
      BY <1>7, <2>4, TopType DEF Top, depth
    <2>7. \A i \in 1..Len(w.stack) :
            /\ q.levels[i].close = v.stack[i].close
            /\ v.stack[i].some /\ ~v.stack[i].expecting
      <3> SUFFICES ASSUME NEW i \in 1..Len(w.stack)
                   PROVE  /\ q.levels[i].close = v.stack[i].close
                          /\ v.stack[i].some /\ ~v.stack[i].expecting
        OBVIOUS
      <3>1. CASE i = Len(w.stack)
        BY <1>2, <2>2, <2>6, <3>1
      <3>2. CASE i \in 1..Len(w.stack) - 1
        BY <1>2, <2>4, <3>2
      <3> QED
        BY <2>6, <3>1, <3>2
    <2>8. Settled(v, q)
      BY <1>2, <2>4, <2>5, <2>7 DEF Settled
    <2> QED
      BY <1>7, <2>4, <2>8
  <1>8. CASE w.stack # << >> /\ InObject(w)
    <2>1. CASE ~Top(w).expecting
      <3>1. ~MayPut(q)
        BY <1>2, <1>3, <1>8, <2>1 DEF Awaits, MayPut, WantsValue, InObject
      <3> QED
        BY <1>4, <1>8, <2>1, <3>1 DEF before_value, Fail, WriterState
    <2>2. CASE Top(w).expecting
      <3> DEFINE u == [w EXCEPT !.ok = TRUE]
      <3>1. v = Returns(WithTop(w, [Top(w) EXCEPT !.some = TRUE,
                                                  !.expecting = FALSE]), TRUE)
        BY <1>4, <1>8, <2>2 DEF before_value
      <3>2. /\ u \in WriterState /\ u.stack = w.stack /\ u.ok /\ ~u.failed
            /\ u.root_written = w.root_written /\ u.text = w.text
        BY DEF WriterState
      <3>3. v = WithTop(u, [Top(u) EXCEPT !.some = TRUE, !.expecting = FALSE])
        BY <3>1 DEF Returns, WithTop, Top, depth, WriterState
      <3> HIDE DEF u, v
      <3>4. /\ v \in WriterState /\ v.text = w.text
            /\ v.ok /\ ~v.failed /\ Settled(v, q)
        BY <1>7, <1>8, <3>2, <3>3
      <3>5. q.expects = "value"
        BY <1>2, <1>8, <2>2 DEF Awaits
      <3>6. r = q /\ WantsValue(q) /\ MayPut(q)
        BY <3>4, <3>5 DEF WantsValue, MayPut
      <3> HIDE DEF q, r
      <3> QED
        BY <1>5, <3>4, <3>6 DEF v, q, r
    <2> QED
      BY <2>1, <2>2
  <1>9. CASE w.stack # << >> /\ ~InObject(w)
    <2> DEFINE u == append_comma(w)
    <2>1. /\ Top(w).close = "end-array" /\ ~Top(w).expecting
          /\ Top(w).some \in BOOLEAN
      BY <1>9, TopType DEF InObject, ContainerState, Agree
    <2>2. /\ u \in WriterState
          /\ u.stack = w.stack /\ u.root_written = w.root_written
          /\ u.ok = ~u.failed
          /\ u.failed => u.room = 0
          /\ ~u.failed =>
               Reading(u.text) =
                 IF Top(w).some THEN Expecting(q, "value") ELSE q
      BY <1>9, <2>1, CommaRead
    <2>3. v = IF u.ok THEN WithTop(u, [Top(u) EXCEPT !.some = TRUE]) ELSE u
      BY <1>4, <1>9 DEF before_value
    <2> HIDE DEF u
    <2>4. CASE u.failed
      BY <2>2, <2>3, <2>4
    <2>5. CASE ~u.failed
      <3>1. Top(u) = Top(w) /\ Top(u) \in ContainerState
        BY <1>9, <2>2, TopType DEF Top, depth
      <3>2. [Top(u) EXCEPT !.some = TRUE]
              = [Top(u) EXCEPT !.some = TRUE, !.expecting = FALSE]
        BY <2>1, <3>1 DEF ContainerState
      <3>3. v = WithTop(u, [Top(u) EXCEPT !.some = TRUE, !.expecting = FALSE])
        BY <2>2, <2>3, <2>5, <3>2
      <3> HIDE DEF v
      <3>4. /\ v \in WriterState /\ v.text = u.text
            /\ v.ok /\ ~v.failed /\ Settled(v, q)
        BY <1>7, <1>9, <2>2, <2>5, <3>3
      <3>5. r = IF Top(w).some THEN Expecting(q, "value") ELSE q
        BY <2>2, <2>5, <3>4
      <3>6. q.expects = IF Top(w).some THEN "more" ELSE "element"
        BY <1>2, <1>9, <2>1 DEF Awaits
      <3>7. MayPut(q)
        BY <1>3, <1>9, <2>1, <3>6 DEF MayPut, WantsValue
      <3>8. WantsValue(r) /\ \E what \in Expected : r = Expecting(q, what)
        <4> HIDE DEF q, r
        <4>1. CASE Top(w).some
          BY <1>1, <3>5, <4>1 DEF WantsValue, Expecting, Expected, ReaderState
        <4>2. CASE ~Top(w).some
          BY <1>5, <3>5, <3>6, <4>2 DEF WantsValue
        <4> QED
          BY <4>1, <4>2
      <3> HIDE DEF q, r
      <3> QED
        BY <3>4, <3>7, <3>8 DEF v, q, r
    <2> QED
      BY <2>4, <2>5
  <1> QED
    BY <1>6, <1>8, <1>9
-----------------------------------------------------------------------------
(* Every call of the writer, and Completable                               *)

\* What one call does to a writer w that has not failed: v fails for want of
\* memory or because the call does not fit, and otherwise its books agree
\* with a reader of what it wrote.
Obeys(w, v, c) ==
  LET q == Reading(w.text)
  IN  /\ v \in WriterState
      /\ Len(v.stack) <= MaxDepth
      /\ v.failed => v.room = 0 \/ ~Fits(q, c)
      /\ ~v.failed => Agree(v, Reading(v.text))
      /\ ~v.failed /\ Fits(q, c) => v.ok /\ Reading(v.text) = Led(q, c)

\* The call op with the argument arg.
IsCall(op, arg) == [op |-> op, arg |-> arg]

\* m65_json_string and the other scalars.
LEMMA ValueObeys ==
  ASSUME NEW w \in WriterState, ~w.failed, Agree(w, Reading(w.text)),
         Len(w.stack) <= MaxDepth,
         NEW token \in Token, token \notin Punctuation
  PROVE  Obeys(w, json_value(w, FALSE, token), IsCall("value", token))
  <1> DEFINE q == Reading(w.text)
             u == before_value(w)
             r == Reading(u.text)
             v == json_value(w, FALSE, token)
             c == IsCall("value", token)
  <1>1. q \in ReaderState
    BY ReadingType DEF WriterState
  <1>2. (Fits(q, c) <=> MayPut(q)) /\ Led(q, c) = Expecting(q, "more")
    BY DEF Fits, Led, IsCall
  <1>3. /\ u \in WriterState
        /\ u.ok = ~u.failed
        /\ u.failed => /\ u.room = 0 \/ ~MayPut(q)
                       /\ u.stack = w.stack
        /\ ~u.failed =>
             /\ MayPut(q)
             /\ WantsValue(r)
             /\ \E what \in Expected : r = Expecting(q, what)
             /\ Settled(u, q)
    BY BeforeValue
  <1>4. v = IF u.ok THEN append(u, token) ELSE u
    BY DEF json_value
  <1>5. CASE u.failed
    <2> HIDE DEF u, q, c
    <2> QED
      BY <1>2, <1>3, <1>4, <1>5 DEF Obeys, q, c, v
  <1>6. CASE ~u.failed
    <2>1. v = append(u, token)
      BY <1>3, <1>4, <1>6
    <2> HIDE DEF v, u, q, c
    <2>2. /\ v \in WriterState
          /\ v.stack = u.stack /\ v.root_written = u.root_written
          /\ v.ok = ~v.failed
          /\ v.failed => v.room = 0
          /\ ~v.failed => Reading(v.text) = ReadToken(r, token)
      BY <1>3, <1>6, <2>1, Appended
    <2>3. Settled(v, q)
      BY <1>3, <1>6, <2>2 DEF Settled
    <2>4. r \in ReaderState
      BY <1>3, ReadingType DEF WriterState
    <2>5. ReadToken(r, token) = Expecting(q, "more")
      <3>1. PICK what \in Expected : r = Expecting(q, what)
        BY <1>3, <1>6
      <3>2. ReadToken(r, token) = Expecting(r, "more")
        BY <1>3, <1>6, <2>4, WordRead
      <3>3. Expecting(Expecting(q, what), "more") = Expecting(q, "more")
        BY <1>1 DEF Expecting, ReaderState
      <3> QED
        BY <3>1, <3>2, <3>3
    <2>6. ~v.failed => Agree(v, Expecting(q, "more"))
      <3>1. Expecting(q, "more") \in ReaderState
        BY <1>1 DEF Expecting, ReaderState, Expected
      <3>2. /\ Expecting(q, "more").expects = "more"
            /\ Expecting(q, "more").levels = q.levels
        BY <1>1 DEF Expecting, ReaderState
      <3>3. Settled(v, Expecting(q, "more"))
        BY <2>3, <3>2 DEF Settled
      <3> QED
        BY <2>2, <3>1, <3>2, <3>3, SettledAgrees
    <2>7. Len(v.stack) <= MaxDepth
      BY <2>3 DEF Settled, q, Agree
    <2> QED
      BY <1>2, <2>2, <2>5, <2>6, <2>7 DEF Obeys, q, c, v
  <1> QED
    BY <1>3, <1>5, <1>6

\* begin_container with an opening token and its closing one.
LEMMA BeginObeys ==
  ASSUME NEW w \in WriterState, ~w.failed, Agree(w, Reading(w.text)),
         Len(w.stack) <= MaxDepth,
         NEW open \in {"begin-object", "begin-array"},
         NEW close \in {"end-object", "end-array"},
         open = "begin-object" <=> close = "end-object"
  PROVE  Obeys(w, begin_container(w, open, close), IsCall("open", open))
  <1> DEFINE q == Reading(w.text)
             u == before_value(w)
             r == Reading(u.text)
             x == append(u, open)
             v == begin_container(w, open, close)
             c == IsCall("open", open)
             first == IF open = "begin-object" THEN "member" ELSE "element"
  <1>1. q \in ReaderState
    BY ReadingType DEF WriterState
  <1>2. /\ Fits(q, c) <=> (MayPut(q) /\ Len(q.levels) < MaxDepth)
        /\ Led(q, c) = Enter(q, close, first)
    BY DEF Fits, Led, IsCall
  <1>3. /\ u \in WriterState
        /\ u.ok = ~u.failed
        /\ u.failed => /\ u.room = 0 \/ ~MayPut(q)
                       /\ u.stack = w.stack
        /\ ~u.failed =>
             /\ MayPut(q)
             /\ WantsValue(r)
             /\ \E what \in Expected : r = Expecting(q, what)
             /\ Settled(u, q)
    BY BeforeValue
  <1>4. Len(q.levels) = Len(w.stack) /\ Len(w.stack) \in Nat
        /\ MaxDepth \in Nat
    BY MaxDepthAssumption DEF Agree, WriterState
  <1>5. open \in Token
    BY TokenAssumption DEF Punctuation
  <1>6. CASE Len(w.stack) >= MaxDepth
    <2>1. v = Fail(w)
      BY <1>6 DEF begin_container, depth
    <2>2. ~Fits(q, c)
      BY <1>2, <1>4, <1>6
    <2> HIDE DEF v, q, c
    <2> QED
      BY <2>1, <2>2 DEF Fail, WriterState, Obeys, q, c, v
  <1>7. CASE Len(w.stack) < MaxDepth /\ u.failed
    <2>1. ~u.ok /\ ~(depth(w) >= MaxDepth)
      <3>1. ~(depth(w) >= MaxDepth)
        BY <1>4, <1>7 DEF depth
      <3> HIDE DEF u, q, r
      <3>2. ~u.ok
        BY <1>3, <1>7
      <3> QED
        BY <3>1, <3>2
    <2>2. v = Fail(u)
      BY <2>1 DEF begin_container
    <2> HIDE DEF u, v, q, c
    <2> QED
      BY <1>2, <1>3, <1>7, <2>2 DEF Obeys, Fail, WriterState, q, c, v
  <1>8. CASE Len(w.stack) < MaxDepth /\ ~u.failed
    <2>1. /\ x \in WriterState
          /\ x.stack = u.stack /\ x.root_written = u.root_written
          /\ x.ok = ~x.failed
          /\ x.failed => x.room = 0
          /\ ~x.failed => Reading(x.text) = ReadToken(r, open)
      <3> HIDE DEF u
      <3> QED
        BY <1>3, <1>5, <1>8, Appended
    <2>2. Len(u.stack) = Len(w.stack)
      BY <1>3, <1>4, <1>8 DEF Settled
    <2>3. CASE x.failed
      <3>1. u.ok /\ ~x.ok /\ ~(depth(w) >= MaxDepth)
        <4>1. ~(depth(w) >= MaxDepth)
          BY <1>4, <1>8 DEF depth
        <4> HIDE DEF u, q, r, x
        <4>2. u.ok /\ ~x.ok
          BY <1>3, <1>8, <2>1, <2>3
        <4> QED
          BY <4>1, <4>2
      <3>2. v = Fail(x)
        BY <3>1 DEF begin_container
      <3> HIDE DEF u, v, q, c, x
      <3> QED
        BY <1>4, <1>8, <2>1, <2>2, <2>3, <3>2
        DEF Obeys, Fail, WriterState, q, c, v
    <2>4. CASE ~x.failed
      <3> DEFINE stack == Append(x.stack, Container(close))
      <3>0. u.ok /\ x.ok /\ ~(depth(w) >= MaxDepth)
        <4>1. ~(depth(w) >= MaxDepth)
          BY <1>4, <1>8 DEF depth
        <4> HIDE DEF u, q, r, x
        <4>2. u.ok /\ x.ok
          BY <1>3, <1>8, <2>1, <2>4
        <4> QED
          BY <4>1, <4>2
      <3>1. v = [x EXCEPT !.stack = stack]
        BY <3>0 DEF begin_container
      <3>2. /\ Container(close) \in ContainerState
            /\ x.stack \in Seq(ContainerState)
        BY <2>1 DEF Container, ContainerState, WriterState
      <3>3. /\ stack \in Seq(ContainerState)
            /\ Len(stack) = Len(x.stack) + 1
            /\ stack[Len(x.stack) + 1] = Container(close)
            /\ \A i \in 1..Len(x.stack) : stack[i] = x.stack[i]
        <4> HIDE DEF x
        <4> QED
          BY <3>2, AppendOne
      <3>4. v \in WriterState /\ v.text = x.text /\ v.stack = stack
            /\ v.ok = x.ok /\ v.failed = x.failed
            /\ v.root_written = x.root_written
        <4> HIDE DEF x, v, stack
        <4> QED
          BY <2>1, <3>1, <3>3 DEF WriterState
      <3> HIDE DEF x, u, v, q, stack, r
      <3>5. Reading(v.text) = Enter(q, close, first)
        <4>1. r \in ReaderState
          BY <1>3, ReadingType DEF WriterState, r
        <4>2. ReadToken(r, open) = Enter(r, close, first)
          BY <1>3, <1>8, <4>1, PunctuationRead
        <4>3. PICK what \in Expected : r = Expecting(q, what)
          BY <1>3, <1>8
        <4>4. Enter(Expecting(q, what), close, first)
                = Enter(q, close, first)
          BY <1>1 DEF Enter, Expecting, ReaderState
        <4> QED
          BY <2>1, <2>4, <3>4, <4>2, <4>3, <4>4
      <3>6. Agree(v, Enter(q, close, first))
        <4> DEFINE n == Len(w.stack)
                   level == [close |-> close, names |-> {}]
                   levels == Append(q.levels, level)
                   e == Enter(q, close, first)
        <4>1. q.levels \in Seq(Level) /\ level \in Level
          BY <1>1 DEF ReaderState, Level
        <4>2. /\ levels \in Seq(Level) /\ Len(levels) = n + 1
              /\ levels[n + 1] = level
              /\ \A i \in 1..n : levels[i] = q.levels[i]
          <5> HIDE DEF level
          <5> QED
            BY <1>4, <4>1, AppendOne
        <4>3. e.levels = levels /\ e.expects = first
          BY <1>1 DEF Enter, ReaderState
        <4>4. /\ Len(v.stack) = n + 1 /\ v.stack # << >>
              /\ v.stack[n + 1] = Container(close)
              /\ \A i \in 1..n : v.stack[i] = u.stack[i]
          BY <1>4, <2>1, <2>2, <3>3, <3>4
        <4>5. Top(v) = Container(close)
          BY <4>4 DEF Top, depth
        <4>6. Awaits(v) = first
          BY <4>4, <4>5 DEF Awaits, Container, InObject
        <4>7. /\ \A i \in 1..n :
                   /\ q.levels[i].close = u.stack[i].close
                   /\ u.stack[i].some /\ ~u.stack[i].expecting
              /\ v.root_written
          BY <1>3, <1>8, <2>1, <2>2, <3>4 DEF Settled
        <4>8. \A i \in 1..Len(v.stack) : e.levels[i].close = v.stack[i].close
          <5> SUFFICES ASSUME NEW i \in 1..n + 1
                       PROVE  levels[i].close = v.stack[i].close
            BY <4>3, <4>4
          <5>1. CASE i = n + 1
            BY <4>2, <4>4, <5>1 DEF Container
          <5>2. CASE i \in 1..n
            BY <4>2, <4>4, <4>7, <5>2
          <5> HIDE DEF levels
          <5> QED
            BY <1>4, <5>1, <5>2
        <4>9. \A i \in 1..Len(v.stack) - 1 :
                v.stack[i].some /\ ~v.stack[i].expecting
          <5> SUFFICES ASSUME NEW i \in 1..n
                       PROVE  v.stack[i].some /\ ~v.stack[i].expecting
            BY <1>4, <4>4
          <5> HIDE DEF n
          <5> QED
            BY <4>4, <4>7
        <4>10. ~Top(v).expecting
          BY <4>5 DEF Container
        <4> HIDE DEF levels, e
        <4> QED
          BY <4>2, <4>3, <4>4, <4>6, <4>7, <4>8, <4>9, <4>10 DEF Agree, e
      <3>7. Len(v.stack) <= MaxDepth
        BY <1>4, <1>8, <2>1, <2>2, <3>3, <3>4
      <3> QED
        BY <1>2, <2>1, <2>4, <3>4, <3>5, <3>6, <3>7 DEF Obeys, q, c, v
    <2> QED
      BY <2>1, <2>3, <2>4
  <1> QED
    BY <1>3, <1>4, <1>6, <1>7, <1>8

\* The room and the text do not matter to the books.
LEMMA SameBooks ==
  ASSUME NEW w, NEW v, NEW q, Agree(w, q),
         v.stack = w.stack, v.root_written = w.root_written
  PROVE  Agree(v, q)
  BY DEF Agree, Awaits, Top, InObject, depth

\* A call that was refused without a trace.
LEMMA RefusedObeys ==
  ASSUME NEW w \in WriterState, ~w.failed, Agree(w, Reading(w.text)),
         Len(w.stack) <= MaxDepth, NEW c, ~Fits(Reading(w.text), c)
  PROVE  Obeys(w, Returns(w, FALSE), c)
  <1> DEFINE v == Returns(w, FALSE)
  <1>1. /\ v \in WriterState /\ v.stack = w.stack /\ v.text = w.text
        /\ v.root_written = w.root_written /\ v.failed = w.failed
    BY DEF Returns, WriterState
  <1> HIDE DEF v
  <1>2. Agree(v, Reading(v.text))
    BY <1>1, SameBooks
  <1> QED
    BY <1>1, <1>2 DEF Obeys, v

\* A call whose failure is latched.
LEMMA LatchedObeys ==
  ASSUME NEW w \in WriterState, Len(w.stack) <= MaxDepth, NEW c,
         ~Fits(Reading(w.text), c)
  PROVE  Obeys(w, Fail(w), c)
  <1> DEFINE v == Fail(w)
  <1>1. v \in WriterState /\ v.stack = w.stack /\ v.failed
    BY DEF Fail, WriterState
  <1> HIDE DEF v
  <1> QED
    BY <1>1 DEF Obeys, v

\* end_container
LEMMA EndObeys ==
  ASSUME NEW w \in WriterState, ~w.failed, Agree(w, Reading(w.text)),
         Len(w.stack) <= MaxDepth,
         NEW close \in {"end-object", "end-array"}
  PROVE  Obeys(w, end_container(w, close), IsCall("close", close))
  <1> DEFINE q == Reading(w.text)
             v == end_container(w, close)
             c == IsCall("close", close)
             n == Len(w.stack)
             x == [w EXCEPT !.stack = SubSeq(w.stack, 1, n - 1)]
  <1>1. q \in ReaderState
    BY ReadingType DEF WriterState
  <1>2. (Fits(q, c) <=> MayLeave(q, close)) /\ Led(q, c) = Leave(q)
    BY DEF Fits, Led, IsCall
  <1>3. /\ Len(q.levels) = n
        /\ \A i \in 1..n : q.levels[i].close = w.stack[i].close
        /\ \A i \in 1..n - 1 : w.stack[i].some /\ ~w.stack[i].expecting
        /\ q.expects = Awaits(w)
    BY DEF Agree
  <1>4. /\ (q.levels = << >>) = (w.stack = << >>)
        /\ w.stack # << >> => Innermost(q).close = Top(w).close
    BY <1>1, <1>3, SameTop
  <1>5. (depth(w) = 0) = (w.stack = << >>)
    BY EmptySeq DEF depth, WriterState
  <1>6. CASE w.stack = << >>
    <2>1. ~Fits(q, c)
      BY <1>2, <1>4, <1>6 DEF MayLeave
    <2>2. v = Returns(w, FALSE)
      BY <1>5, <1>6 DEF end_container
    <2> QED
      BY <2>1, <2>2, RefusedObeys
  <1>7. CASE w.stack # << >> /\ (Top(w).close # close \/ Top(w).expecting)
    <2>1. ~MayLeave(q, close)
      BY <1>3, <1>4, <1>7 DEF MayLeave, Awaits
    <2>2. v = Fail(w)
      BY <1>5, <1>7 DEF end_container
    <2> QED
      BY <1>2, <2>1, <2>2, LatchedObeys
  <1>8. CASE w.stack # << >> /\ Top(w).close = close /\ ~Top(w).expecting
    <2>1. MayLeave(q, close)
      <3>1. Innermost(q).close = close /\ q.levels # << >>
        BY <1>4, <1>8
      <3>2. q.expects = IF Top(w).some THEN "more"
                        ELSE IF close = "end-object" THEN "member"
                        ELSE "element"
        BY <1>3, <1>8 DEF Awaits, InObject
      <3> QED
        BY <3>1, <3>2 DEF MayLeave
    <2>2. n \in Nat \ {0} /\ w.stack \in Seq(ContainerState)
      BY <1>8, TopType DEF WriterState
    <2>3. v = append(x, close)
      BY <1>5, <1>8 DEF end_container, depth
    <2>4. /\ SubSeq(w.stack, 1, n - 1) \in Seq(ContainerState)
          /\ Len(SubSeq(w.stack, 1, n - 1)) = n - 1
          /\ \A i \in 1..n - 1 : SubSeq(w.stack, 1, n - 1)[i] = w.stack[i]
      <3> DEFINE s == w.stack
      <3> HIDE DEF n, s
      <3>1. n \in Nat \ {0} /\ s \in Seq(ContainerState) /\ n = Len(s)
        BY <2>2 DEF n, s
      <3> QED
        BY <3>1 DEF s
    <2>5. /\ x \in WriterState /\ x.text = w.text /\ ~x.failed
          /\ x.stack = SubSeq(w.stack, 1, n - 1)
          /\ x.root_written = w.root_written
      <3> DEFINE t == SubSeq(w.stack, 1, n - 1)
      <3> HIDE DEF t
      <3>1. x = [w EXCEPT !.stack = t] /\ t \in Seq(ContainerState)
        BY <2>4 DEF t
      <3> QED
        BY <3>1 DEF WriterState, t
    <2>6. close \in Token
      BY TokenAssumption DEF Punctuation
    <2> HIDE DEF v, x, q
    <2>7. /\ v \in WriterState
          /\ v.stack = x.stack /\ v.root_written = x.root_written
          /\ v.ok = ~v.failed
          /\ v.failed => v.room = 0
          /\ ~v.failed => Reading(v.text) = ReadToken(q, close)
      BY <2>3, <2>5, <2>6, Appended DEF q
    <2>8. ReadToken(q, close) = Leave(q)
      BY <1>1, <2>1, PunctuationRead
    <2>9. Agree(v, Leave(q))
      <3> DEFINE levels == SubSeq(q.levels, 1, n - 1)
                 e == Leave(q)
      <3>1. e \in ReaderState /\ e.levels = levels /\ e.expects = "more"
        <4>1. e \in ReaderState
          BY <1>1, <2>8, <2>6, TokenRead
        <4> QED
          BY <1>1, <1>3, <4>1 DEF Leave, ReaderState
      <3>2. /\ Len(levels) = n - 1
            /\ \A i \in 1..n - 1 : levels[i] = q.levels[i]
        <4> DEFINE s == q.levels
        <4>1. s \in Seq(Level) /\ Len(s) = n
          BY <1>1, <1>3 DEF ReaderState
        <4> HIDE DEF n, s
        <4>2. /\ Len(SubSeq(s, 1, n - 1)) = n - 1
              /\ \A i \in 1..n - 1 : SubSeq(s, 1, n - 1)[i] = s[i]
          BY <2>2, <4>1
        <4> QED
          BY <4>2 DEF s
      <3>3. w.root_written
        BY <1>8 DEF Agree
      <3> HIDE DEF levels, e, n
      <3>4. \A i \in 1..n - 1 :
              /\ levels[i].close = v.stack[i].close
              /\ v.stack[i].some /\ ~v.stack[i].expecting
        <4> SUFFICES ASSUME NEW i \in 1..n - 1
                     PROVE  /\ levels[i].close = v.stack[i].close
                            /\ v.stack[i].some /\ ~v.stack[i].expecting
          OBVIOUS
        <4>1. i \in 1..n
          BY <2>2
        <4>2. v.stack[i] = w.stack[i]
          BY <2>4, <2>5, <2>7
        <4> QED
          BY <1>3, <3>2, <4>1, <4>2
      <3>5. Len(v.stack) = n - 1
        BY <2>4, <2>5, <2>7
      <3>6. Settled(v, e)
        BY <2>5, <2>7, <3>1, <3>2, <3>3, <3>4, <3>5 DEF Settled
      <3> QED
        BY <2>7, <3>1, <3>6, SettledAgrees DEF e
    <2>10. Len(v.stack) <= MaxDepth
      <3>1. Len(v.stack) = n - 1
        BY <2>4, <2>5, <2>7
      <3> QED
        BY <2>2, <3>1, MaxDepthAssumption
    <2> QED
      BY <1>2, <2>7, <2>8, <2>9, <2>10 DEF Obeys, q, c, v
  <1> QED
    BY <1>6, <1>7, <1>8

\* A name that is read opens and closes nothing.
LEMMA NameLevels ==
  ASSUME NEW q \in ReaderState, q.levels # << >>, NEW name
  PROVE  LET e == ReadName(q, name)
         IN  /\ Len(e.levels) = Len(q.levels)
             /\ \A i \in 1..Len(q.levels) :
                  e.levels[i].close = q.levels[i].close
             /\ e.expects = "colon"
  <1> DEFINE n == Len(q.levels)
             level == [q.levels[n] EXCEPT !.names
                         = Innermost(q).names \cup {name}]
             levels == [q.levels EXCEPT ![n] = level]
  <1>1. q.levels \in Seq(Level) /\ n \in 1..n /\ n \in Nat
    BY EmptySeq DEF ReaderState
  <1>2. q.levels[n] \in Level
    BY <1>1
  <1>3. level.close = q.levels[n].close
    BY <1>2 DEF Level
  <1>4. Len(levels) = n
    BY <1>1
  <1>5. \A i \in 1..n : levels[i].close = q.levels[i].close
    <2> SUFFICES ASSUME NEW i \in 1..n
                 PROVE  levels[i].close = q.levels[i].close
      OBVIOUS
    <2>1. levels[i] = IF i = n THEN level ELSE q.levels[i]
      <3> HIDE DEF level
      <3> QED
        BY <1>1
    <2> HIDE DEF levels, level
    <2> QED
      BY <1>3, <2>1
  <1>6. ReadName(q, name).levels = levels
        /\ ReadName(q, name).expects = "colon"
    BY DEF ReadName
  <1> HIDE DEF levels
  <1> QED
    BY <1>4, <1>5, <1>6

\* m65_json_key
LEMMA KeyObeys ==
  ASSUME NEW w \in WriterState, ~w.failed, Agree(w, Reading(w.text)),
         Len(w.stack) <= MaxDepth,
         NEW name \in Token, name \notin Punctuation \cup {"num"}
  PROVE  Obeys(w, json_key(w, FALSE, name), IsCall("key", name))
  <1> DEFINE q == Reading(w.text)
             v == json_key(w, FALSE, name)
             c == IsCall("key", name)
             x == append_comma(w)
             y == append(x, name)
             z == append(y, "name-separator")
             last == [Top(z) EXCEPT !.expecting = TRUE]
  <1>1. q \in ReaderState
    BY ReadingType DEF WriterState
  <1>2. /\ Fits(q, c) <=> /\ q.levels # << >>
                          /\ Innermost(q).close = "end-object"
                          /\ q.expects \in {"member", "more"}
        /\ Led(q, c) = Expecting(ReadName(q, name), "value")
    BY DEF Fits, Led, IsCall
  <1>3. /\ Len(q.levels) = Len(w.stack)
        /\ \A i \in 1..Len(w.stack) : q.levels[i].close = w.stack[i].close
        /\ \A i \in 1..Len(w.stack) - 1 :
             w.stack[i].some /\ ~w.stack[i].expecting
        /\ w.stack # << >> => w.root_written
        /\ q.expects = Awaits(w)
    BY DEF Agree
  <1>4. /\ (q.levels = << >>) = (w.stack = << >>)
        /\ w.stack # << >> => Innermost(q).close = Top(w).close
    BY <1>1, <1>3, SameTop
  <1>5. (depth(w) = 0) = (w.stack = << >>)
    BY EmptySeq DEF depth, WriterState
  <1>6. CASE w.stack = << >>
    <2>1. ~Fits(q, c)
      BY <1>2, <1>4, <1>6
    <2>2. v = Returns(w, FALSE)
      BY <1>5, <1>6 DEF json_key
    <2> QED
      BY <2>1, <2>2, RefusedObeys
  <1>7. CASE w.stack # << >> /\ (~InObject(w) \/ Top(w).expecting)
    <2>1. ~Fits(q, c)
      BY <1>2, <1>3, <1>4, <1>7 DEF Awaits, InObject
    <2>2. v = Fail(w)
      BY <1>5, <1>7 DEF json_key
    <2> QED
      BY <2>1, <2>2, LatchedObeys
  <1>8. CASE w.stack # << >> /\ InObject(w) /\ ~Top(w).expecting
    <2> DEFINE r == Reading(x.text)
    <2>1. /\ x \in WriterState
          /\ x.stack = w.stack /\ x.root_written = w.root_written
          /\ x.ok = ~x.failed
          /\ x.failed => x.room = 0
          /\ ~x.failed => r = IF Top(w).some THEN Expecting(q, "name") ELSE q
      BY <1>8, CommaRead
    <2>2. v = IF ~x.ok THEN x ELSE IF ~y.ok THEN y ELSE IF ~z.ok THEN z
              ELSE WithTop(z, last)
      BY <1>5, <1>8 DEF json_key
    <2>3. name \in Token /\ "name-separator" \in Token
      BY TokenAssumption DEF Punctuation
    <2> HIDE DEF x
    <2>4. /\ y \in WriterState
          /\ y.stack = x.stack /\ y.root_written = x.root_written
          /\ y.ok = ~y.failed
          /\ y.failed => x.failed \/ y.room = 0
          /\ ~y.failed => Reading(y.text) = ReadToken(r, name)
      BY <2>1, <2>3, Appended
    <2> HIDE DEF y
    <2>5. /\ z \in WriterState
          /\ z.stack = y.stack /\ z.root_written = y.root_written
          /\ z.ok = ~z.failed
          /\ z.failed => y.failed \/ z.room = 0
          /\ ~z.failed =>
               Reading(z.text) = ReadToken(Reading(y.text), "name-separator")
      BY <2>3, <2>4, Appended
    <2> HIDE DEF z, last, v, q, c, r
    <2>6. CASE x.failed
      BY <2>1, <2>2, <2>6 DEF Obeys, v, c
    <2>7. CASE ~x.failed /\ y.failed
      BY <2>1, <2>2, <2>4, <2>7 DEF Obeys, v, c
    <2>8. CASE ~x.failed /\ ~y.failed /\ z.failed
      BY <2>1, <2>2, <2>4, <2>5, <2>8 DEF Obeys, v, c
    <2>9. CASE ~x.failed /\ ~y.failed /\ ~z.failed
      <3>1. v = WithTop(z, last)
        BY <2>1, <2>2, <2>4, <2>5, <2>9
      <3>2. z.stack = w.stack /\ z.root_written = w.root_written
        BY <2>1, <2>4, <2>5
      <3>3. Top(z) = Top(w) /\ Top(w) \in ContainerState
        BY <1>8, <3>2, TopType DEF Top, depth
      <3>4. /\ last \in ContainerState /\ last.expecting
            /\ last.close = "end-object"
        BY <1>8, <3>3 DEF last, ContainerState, InObject
      <3>5. /\ v \in WriterState
            /\ Len(v.stack) = Len(w.stack) /\ v.stack # << >>
            /\ Top(v) = last
            /\ \A i \in 1..Len(w.stack) - 1 : v.stack[i] = w.stack[i]
            /\ v.text = z.text /\ v.root_written = w.root_written
            /\ v.failed = z.failed /\ v.ok = z.ok
        <4>1. z \in WriterState /\ z.stack # << >>
          BY <1>8, <2>5, <3>2
        <4>2. /\ v \in WriterState
              /\ Len(v.stack) = Len(z.stack) /\ v.stack # << >>
              /\ Top(v) = last
              /\ \A i \in 1..Len(z.stack) - 1 : v.stack[i] = z.stack[i]
              /\ v.text = z.text /\ v.root_written = z.root_written
              /\ v.failed = z.failed /\ v.ok = z.ok
          BY <3>1, <3>4, <4>1, TopChanged
        <4> QED
          BY <3>2, <4>2
      <3> DEFINE e == ReadName(q, name)
      <3>6. q.levels # << >> /\ q.expects = IF Top(w).some THEN "more"
                                            ELSE "member"
        BY <1>3, <1>4, <1>8 DEF Awaits
      <3>7. /\ r \in ReaderState /\ r.expects \in {"member", "name"}
            /\ r.levels = q.levels /\ r.root = q.root /\ r.unique = q.unique
        <4>1. r \in ReaderState
          BY <2>1, ReadingType DEF WriterState, r
        <4>2. CASE Top(w).some
          BY <1>1, <2>1, <2>9, <4>1, <4>2 DEF Expecting, ReaderState
        <4>3. CASE ~Top(w).some
          BY <2>1, <2>9, <3>6, <4>1, <4>3
        <4> QED
          BY <4>2, <4>3
      <3>8. Reading(y.text) = e
        <4>1. ReadToken(r, name) = ReadName(r, name)
          BY <3>6, <3>7, WordRead
        <4>2. ReadName(r, name) = ReadName(q, name)
          BY <3>7 DEF ReadName, Innermost
        <4> QED
          BY <2>4, <2>9, <4>1, <4>2
      <3>9. /\ e \in ReaderState /\ e.expects = "colon"
            /\ Len(e.levels) = Len(q.levels)
            /\ \A i \in 1..Len(q.levels) :
                 e.levels[i].close = q.levels[i].close
        BY <1>1, <3>6, NameLevels, NameRead
      <3> HIDE DEF e
      <3>10. Reading(z.text) = Expecting(e, "value")
        BY <2>5, <2>9, <3>8, <3>9, PunctuationRead
      <3>11. Agree(v, Expecting(e, "value"))
        <4>1. /\ Expecting(e, "value").levels = e.levels
              /\ Expecting(e, "value").expects = "value"
          BY <3>9 DEF Expecting, ReaderState
        <4>2. Awaits(v) = "value"
          BY <3>4, <3>5 DEF Awaits
        <4>3. /\ Len(w.stack) \in Nat \ {0}
              /\ v.stack[Len(w.stack)] = last
              /\ w.stack[Len(w.stack)] = Top(w)
          BY <1>8, <3>5, TopType DEF Top, depth
        <4>4. \A i \in 1..Len(w.stack) : e.levels[i].close = v.stack[i].close
          <5> SUFFICES ASSUME NEW i \in 1..Len(w.stack)
                       PROVE  w.stack[i].close = v.stack[i].close
            BY <1>3, <3>9
          <5>1. CASE i = Len(w.stack)
            BY <1>8, <3>4, <4>3, <5>1 DEF InObject
          <5>2. CASE i \in 1..Len(w.stack) - 1
            BY <3>5, <5>2
          <5> QED
            BY <4>3, <5>1, <5>2
        <4>5. Top(v).close # "end-array"
          BY <3>4, <3>5
        <4> QED
          BY <1>3, <1>8, <3>5, <3>9, <4>1, <4>2, <4>4, <4>5 DEF Agree
      <3>12. Len(v.stack) <= MaxDepth
        BY <3>5
      <3> QED
        BY <1>2, <2>5, <2>9, <3>5, <3>10, <3>11, <3>12
        DEF Obeys, v, q, c, e
    <2> QED
      BY <2>6, <2>7, <2>8, <2>9
  <1> QED
    BY <1>6, <1>7, <1>8

\* One call of a writer that has already failed: it stays so, and its stack
\* does not grow.
Fallen(w, v) ==
  /\ v \in WriterState /\ v.failed /\ v.room = w.room
  /\ Len(v.stack) <= Len(w.stack)

\* append on a writer that has failed.
LEMMA AppendFallen ==
  ASSUME NEW w \in WriterState, w.failed, NEW token
  PROVE  append(w, token) = Fail(w) /\ Fail(w) \in WriterState
         /\ Fail(w).failed /\ ~Fail(w).ok /\ Fail(w).room = w.room
         /\ Fail(w).stack = w.stack
  BY DEF append, Fail, WriterState

\* Every other call on a writer that has failed.
LEMMA CallFallen ==
  ASSUME NEW w \in WriterState, w.failed, NEW token, NEW close
  PROVE  /\ Fallen(w, json_key(w, FALSE, token))
         /\ Fallen(w, json_value(w, FALSE, token))
         /\ Fallen(w, begin_container(w, token, close))
         /\ Fallen(w, end_container(w, close))
         /\ Fallen(w, Returns(w, FALSE))
  <1> DEFINE n == Len(w.stack)
             f == Fail(w)
  <1>1. n \in Nat /\ w.stack \in Seq(ContainerState)
    BY DEF WriterState
  <1>2. /\ f \in WriterState /\ f.failed /\ f.room = w.room
        /\ f.stack = w.stack /\ ~f.ok
    BY AppendFallen
  <1>3. \A b \in BOOLEAN :
          LET u == Returns(w, b)
          IN  /\ u \in WriterState /\ u.failed /\ u.room = w.room
              /\ u.stack = w.stack /\ u.ok = b
    BY DEF Returns, WriterState
  <1>4. Fallen(w, f) /\ Fallen(w, Returns(w, FALSE))
    <2> DEFINE g == Returns(w, FALSE)
    <2>1. g \in WriterState /\ g.failed /\ g.room = w.room
          /\ g.stack = w.stack
      BY <1>3
    <2> HIDE DEF f, g
    <2>2. Fallen(w, f) /\ Fallen(w, g)
      BY <1>1, <1>2, <2>1 DEF Fallen
    <2> QED
      BY <2>2 DEF g
  <1>5. Fallen(w, json_key(w, FALSE, token))
    <2> DEFINE x == append_comma(w)
               y == append(x, token)
    <2>1. /\ x \in WriterState /\ x.failed /\ x.room = w.room
          /\ x.stack = w.stack
      BY <1>2, <1>3, AppendFallen DEF append_comma
    <2> HIDE DEF x
    <2>2. /\ y \in WriterState /\ y.failed /\ y.room = w.room
          /\ y.stack = w.stack /\ ~y.ok
      BY <2>1, AppendFallen
    <2> HIDE DEF y
    <2>3. Fallen(w, x) /\ Fallen(w, y)
      BY <1>1, <2>1, <2>2 DEF Fallen
    <2>4. json_key(w, FALSE, token) \in {Returns(w, FALSE), f, x, y}
      BY <2>2 DEF json_key, x, y
    <2> QED
      BY <1>4, <2>3, <2>4
  <1>6. before_value(w) = Returns(w, FALSE)
    BY DEF before_value
  <1>7. Fallen(w, json_value(w, FALSE, token))
    BY <1>3, <1>4, <1>6 DEF json_value
  <1>8. Fallen(w, begin_container(w, token, close))
    <2> DEFINE u == Returns(w, FALSE)
    <2>1. /\ u \in WriterState /\ u.failed /\ u.room = w.room
          /\ u.stack = w.stack /\ ~u.ok
      BY <1>3
    <2> HIDE DEF u
    <2>2. Fallen(w, Fail(u))
      <3> DEFINE g == Fail(u)
      <3>1. g \in WriterState /\ g.failed /\ g.room = w.room
            /\ g.stack = w.stack
        BY <2>1, AppendFallen
      <3> HIDE DEF g
      <3>2. Fallen(w, g)
        BY <1>1, <3>1 DEF Fallen
      <3> QED
        BY <3>2 DEF g
    <2>3. begin_container(w, token, close) \in {f, Fail(u)}
      BY <1>6, <2>1 DEF begin_container, u
    <2> QED
      BY <1>4, <2>2, <2>3
  <1>9. Fallen(w, end_container(w, close))
    <2>1. CASE w.stack = << >>
      BY <1>1, <1>4, <2>1 DEF end_container, depth
    <2>2. CASE w.stack # << >>
      <3> DEFINE s == SubSeq(w.stack, 1, n - 1)
                 x == [w EXCEPT !.stack = s]
      <3>1. s \in Seq(ContainerState) /\ Len(s) <= n
        <4> DEFINE t == w.stack
        <4>1. t \in Seq(ContainerState) /\ n = Len(t) /\ t # << >>
          BY <1>1, <2>2
        <4> HIDE DEF t, n
        <4> QED
          BY <4>1 DEF t
      <3> HIDE DEF s
      <3>2. /\ x \in WriterState /\ x.failed /\ x.room = w.room
            /\ x.stack = s
        BY <3>1 DEF WriterState
      <3> HIDE DEF x
      <3>3. Fallen(w, append(x, close))
        BY <3>1, <3>2, AppendFallen DEF Fallen
      <3>4. end_container(w, close)
              \in {Returns(w, FALSE), f, append(x, close)}
        BY DEF end_container, x, s, depth
      <3> QED
        BY <1>4, <3>3, <3>4
    <2> QED
      BY <2>1, <2>2
  <1> QED
    BY <1>4, <1>5, <1>7, <1>8, <1>9

\* The first element is read first, the others from where it led.
LEMMA ScanHead ==
  ASSUME NEW step, NEW start, NEW S, NEW s \in Seq(S), s # << >>
  PROVE  /\ Head(s) = s[1] /\ s[1] \in S /\ Tail(s) \in Seq(S)
         /\ Len(Tail(s)) = Len(s) - 1
         /\ \A i \in 1..Len(s) - 1 : Tail(s)[i] = s[i + 1]
         /\ Scan(step, start, s)
              = Scan(step, After(step, start, s[1]), Tail(s))
  <1> DEFINE x == s[1]
             u == Tail(s)
             h == <<x>>
  <1>1. /\ Head(s) = x /\ x \in S /\ u \in Seq(S) /\ Len(u) = Len(s) - 1
        /\ \A i \in 1..Len(s) - 1 : u[i] = s[i + 1]
    BY EmptySeq, HeadTailProperties
  <1>2. h \in Seq(S)
    BY <1>1
  <1>3. s = h \o u
    BY HeadTailProperties, <1>1
  <1> HIDE DEF x, u, h
  <1>4. Scan(step, start, h \o u) = Scan(step, Scan(step, start, h), u)
    BY <1>1, <1>2, ScanConcat
  <1>5. Scan(step, start, h) = After(step, start, x)
    BY ScanOne DEF h
  <1> QED
    BY <1>1, <1>3, <1>4, <1>5 DEF x, u

\* A reader that may leave every open container is done after their closing
\* tokens.
LEMMA ClosersRead ==
  ASSUME NEW q \in ReaderState,
         IF q.levels = << >> THEN q.expects = "more"
         ELSE MayLeave(q, Innermost(q).close),
         NEW t \in Seq({"end-object", "end-array"}),
         Len(t) = Len(q.levels),
         \A i \in 1..Len(t) : t[i] = q.levels[Len(t) + 1 - i].close
  PROVE  LET e == Scan(ReaderStep, q, t)
         IN  e.levels = << >> /\ e.expects = "more"
  <1> DEFINE
        Ready(p) == IF p.levels = << >> THEN p.expects = "more"
                    ELSE MayLeave(p, Innermost(p).close)
        Closes(p, u) ==
          /\ Len(u) = Len(p.levels)
          /\ \A i \in 1..Len(u) : u[i] = p.levels[Len(u) + 1 - i].close
        Done(p, u) == LET e == Scan(ReaderStep, p, u)
                      IN  e.levels = << >> /\ e.expects = "more"
        C == Seq({"end-object", "end-array"})
        X == {n \in Nat : \A p \in ReaderState : \A u \in C :
                Len(u) = n /\ Ready(p) /\ Closes(p, u) => Done(p, u)}
  <1>1. 0 \in X
    <2> SUFFICES ASSUME NEW p \in ReaderState, NEW u \in C,
                        Len(u) = 0, Ready(p), Closes(p, u)
                 PROVE  Done(p, u)
      OBVIOUS
    <2>1. u = << >> /\ p.levels = << >>
      BY EmptySeq DEF ReaderState
    <2> QED
      BY <2>1, ScanEmpty
  <1>2. ASSUME NEW n \in Nat, n \in X PROVE n + 1 \in X
    <2> HIDE DEF Done, Ready, Closes
    <2> SUFFICES ASSUME NEW p \in ReaderState, NEW u \in C,
                        Len(u) = n + 1, Ready(p), Closes(p, u)
                 PROVE  Done(p, u)
      BY <1>2
    <2> USE DEF Done, Ready, Closes
    <2> DEFINE x == u[1]
               v == Tail(u)
               e == Leave(p)
    <2>1. u # << >> /\ p.levels # << >> /\ p.levels \in Seq(Level)
          /\ Len(p.levels) = n + 1
      BY <1>2, EmptySeq DEF ReaderState
    <2>2. /\ x \in {"end-object", "end-array"} /\ v \in C /\ Len(v) = n
          /\ \A i \in 1..n : v[i] = u[i + 1]
          /\ Scan(ReaderStep, p, u)
               = Scan(ReaderStep, After(ReaderStep, p, x), v)
      BY <1>2, <2>1, ScanHead
    <2>3. x = Innermost(p).close
      BY <1>2, <2>1 DEF Innermost
    <2>4. x \in Token /\ MayLeave(p, x)
      BY <2>1, <2>2, <2>3, TokenAssumption DEF Punctuation
    <2>5. After(ReaderStep, p, x) = e /\ e \in ReaderState
      <3>1. ReadToken(p, x) = e
        BY <2>2, <2>4, PunctuationRead
      <3> QED
        BY <2>4, <3>1, TokenRead
    <2>6. /\ Len(e.levels) = n /\ e.expects = "more"
          /\ \A i \in 1..n : e.levels[i] = p.levels[i]
      <3> DEFINE s == p.levels
                 l == SubSeq(s, 1, n)
      <3>1. e.levels = l /\ e.expects = "more"
        BY <1>2, <2>1 DEF Leave, ReaderState
      <3>2. s \in Seq(Level) /\ Len(s) = n + 1
        BY <2>1
      <3> HIDE DEF s
      <3>3. Len(l) = n /\ \A i \in 1..n : l[i] = s[i]
        BY <1>2, <3>2
      <3> HIDE DEF l, e
      <3> QED
        BY <3>1, <3>3 DEF s
    <2>7. Closes(e, v)
      <3> HIDE DEF e, v, x
      <3>1. ASSUME NEW i \in 1..n PROVE v[i] = e.levels[n + 1 - i].close
        <4>1. n + 1 - i \in 1..n /\ i + 1 \in 1..Len(u)
          BY <1>2
        <4>2. v[i] = p.levels[(n + 1) + 1 - (i + 1)].close
          BY <2>2, <4>1
        <4>3. (n + 1) + 1 - (i + 1) = n + 1 - i
          BY <1>2
        <4> QED
          BY <2>6, <4>1, <4>2, <4>3
      <3> QED
        BY <2>2, <2>6, <3>1
    <2>8. Ready(e)
      <3> HIDE DEF e
      <3> QED
        BY <2>6 DEF MayLeave
    <2>9. Done(e, v)
      <3> HIDE DEF e, v, Done, Ready, Closes
      <3> QED
        BY <1>2, <2>2, <2>5, <2>7, <2>8
    <2> QED
      BY <2>2, <2>5, <2>9
  <1>3. Nat \subseteq X
    <2> HIDE DEF X
    <2> QED
      BY <1>1, <1>2, Induction
  <1>4. Len(t) \in X /\ Ready(q) /\ Closes(q, t) /\ t \in C
    <2> HIDE DEF X
    <2> QED
      BY <1>3
  <1> QED
    BY <1>4

\* The writer's books are in order: they agree with the text until a failure
\* is latched.
BooksKept(w) ==
  /\ w \in WriterState
  /\ Len(w.stack) <= MaxDepth
  /\ ~w.failed => Agree(w, Reading(w.text))

\* m65_json_init
LEMMA InitKept ==
  ASSUME NEW room \in Nat
  PROVE  /\ BooksKept(json_init(room))
         /\ Reading(json_init(room).text) = Unread
         /\ json_init(room).ok <=> room > 0
         /\ json_init(room).failed <=> room = 0
         /\ json_init(room).room = room
  <1> DEFINE w == json_init(room)
  <1>1. /\ w \in WriterState /\ w.text = << >> /\ w.stack = << >>
        /\ ~w.root_written /\ w.room = room
        /\ w.failed <=> room = 0
        /\ w.ok <=> room > 0
    <2> DEFINE e == << >>
               b == (room = 0)
               g == (room > 0)
    <2>1. /\ b \in BOOLEAN /\ g \in BOOLEAN
          /\ e \in Seq(Token) /\ e \in Seq(ContainerState)
      OBVIOUS
    <2>2. w = [text |-> e, stack |-> e, root_written |-> FALSE,
               failed |-> b, room |-> room, ok |-> g]
      BY DEF json_init
    <2>3. (b <=> room = 0) /\ (g <=> room > 0)
      OBVIOUS
    <2> HIDE DEF w, e, b, g
    <2>4. w \in WriterState /\ w.failed = b /\ w.ok = g
      BY <2>1, <2>2 DEF WriterState
    <2>5. w.text = e /\ w.stack = e /\ ~w.root_written /\ w.room = room
      BY <2>2
    <2> QED
      BY <2>3, <2>4, <2>5 DEF e
  <1>2. Reading(<< >>) = Unread
    BY ScanEmpty DEF Reading
  <1> HIDE DEF w
  <1>3. Agree(w, Unread)
    BY <1>1 DEF Agree, Awaits, Unread, depth
  <1>4. Len(w.stack) <= MaxDepth
    BY <1>1, MaxDepthAssumption
  <1> QED
    BY <1>1, <1>2, <1>3, <1>4 DEF BooksKept, w

\* A call that is obeyed, or made after a failure, leaves the books in order.
LEMMA CallKept ==
  ASSUME NEW w, NEW v, BooksKept(w),
         IF w.failed THEN Fallen(w, v) ELSE \E c : Obeys(w, v, c)
  PROVE  BooksKept(v)
  <1>1. CASE w.failed
    <2>1. Len(w.stack) \in Nat /\ Len(v.stack) \in Nat
      BY <1>1 DEF BooksKept, WriterState, Fallen
    <2> QED
      BY <1>1, <2>1, MaxDepthAssumption DEF BooksKept, Fallen
  <1>2. CASE ~w.failed
    BY <1>2 DEF BooksKept, Obeys
  <1> QED
    BY <1>1, <1>2

\* What the books promise of a document that has been begun.
LEMMA KeptCompletes ==
  ASSUME NEW w, BooksKept(w), ~w.failed, w.root_written
  PROVE  LET value == IF depth(w) > 0 /\ Top(w).expecting
                      THEN <<"num">> ELSE << >>
         IN  IsDocument(w.text \o value \o Closers(w))
  <1> DEFINE n == Len(w.stack)
             q == Reading(w.text)
             value == IF depth(w) > 0 /\ Top(w).expecting
                      THEN <<"num">> ELSE << >>
             t == Closers(w)
             p == Scan(ReaderStep, q, value)
             C == {"end-object", "end-array"}
  <1>1. /\ w \in WriterState /\ w.text \in Seq(Token)
        /\ w.stack \in Seq(ContainerState) /\ n \in Nat
        /\ q \in ReaderState
    BY ReadingType DEF BooksKept, WriterState
  <1>2. /\ Len(q.levels) = n
        /\ \A i \in 1..n : q.levels[i].close = w.stack[i].close
        /\ q.expects = Awaits(w)
        /\ w.stack # << >> /\ Top(w).close = "end-array" => ~Top(w).expecting
    BY DEF BooksKept, Agree
  <1>3. /\ (q.levels = << >>) = (w.stack = << >>)
        /\ w.stack # << >> => Innermost(q).close = Top(w).close
    BY <1>1, <1>2, SameTop
  <1>4. t \in Seq(C) /\ Len(t) = n
        /\ \A i \in 1..n : t[i] = q.levels[n + 1 - i].close
    <2>1. t = [i \in 1..n |-> w.stack[n + 1 - i].close]
      BY <1>1 DEF Closers, depth
    <2>2. \A i \in 1..n : w.stack[n + 1 - i].close \in C
                          /\ n + 1 - i \in 1..n
      <3> SUFFICES ASSUME NEW i \in 1..n
                   PROVE  w.stack[n + 1 - i].close \in C /\ n + 1 - i \in 1..n
        OBVIOUS
      <3>1. n + 1 - i \in 1..n
        BY <1>1
      <3>2. w.stack[n + 1 - i] \in ContainerState
        BY <1>1, <3>1
      <3> QED
        BY <3>1, <3>2 DEF ContainerState
    <2> HIDE DEF t, q
    <2> QED
      BY <1>1, <1>2, <2>1, <2>2
  <1>5. (depth(w) > 0) = (w.stack # << >>)
    BY EmptySeq, <1>1 DEF depth
  <1>6. "num" \in Token /\ "num" \notin Punctuation /\ C \subseteq Token
    BY TokenAssumption DEF Punctuation
  <1>7. value \in Seq(Token)
    BY <1>6
  <1>8. /\ p \in ReaderState /\ p.levels = q.levels
        /\ IF p.levels = << >> THEN p.expects = "more"
           ELSE MayLeave(p, Innermost(p).close)
    <2>1. CASE w.stack # << >> /\ Top(w).expecting
      <3>1. q.expects = "value" /\ value = <<"num">>
        BY <1>2, <1>5, <2>1 DEF Awaits
      <3>2. p = After(ReaderStep, q, "num")
        <4> HIDE DEF q
        <4> QED
          BY <3>1, ScanOne
      <3>3. p = Expecting(q, "more") /\ p \in ReaderState
        <4>1. p = ReadToken(q, "num") /\ p \in ReaderState
          BY <1>1, <1>6, <3>2, TokenRead
        <4> HIDE DEF q
        <4>2. ReadToken(q, "num") = Expecting(q, "more")
          BY <1>1, <1>6, <3>1, WordRead DEF WantsValue
        <4> QED
          BY <4>1, <4>2
      <3>4. p.levels = q.levels /\ p.expects = "more"
        BY <1>1, <3>3 DEF Expecting, ReaderState
      <3> HIDE DEF p, q
      <3> QED
        BY <1>3, <2>1, <3>3, <3>4 DEF MayLeave
    <2>2. CASE ~(w.stack # << >> /\ Top(w).expecting)
      <3>1. p = q
        BY <1>5, <2>2, ScanEmpty
      <3>2. CASE w.stack = << >>
        <4>1. q.expects = "more"
          BY <1>2, <3>2 DEF Awaits
        <4> HIDE DEF p, q
        <4> QED
          BY <1>1, <1>3, <3>1, <3>2, <4>1
      <3>3. CASE w.stack # << >>
        <4>1. q.expects = IF Top(w).some THEN "more"
                          ELSE IF InObject(w) THEN "member" ELSE "element"
          BY <1>2, <2>2, <3>3 DEF Awaits
        <4>2. Top(w).close \in C /\ Top(w).some \in BOOLEAN
          BY <1>1, <3>3, TopType DEF ContainerState
        <4> HIDE DEF p, q
        <4> QED
          BY <1>1, <1>3, <3>1, <3>3, <4>1, <4>2 DEF MayLeave, InObject
      <3> QED
        BY <3>2, <3>3
    <2> QED
      BY <2>1, <2>2
  <1>9. Reading(w.text \o value \o t) = Scan(ReaderStep, p, t)
    <2> DEFINE tv == w.text \o value
    <2>1. t \in Seq(Token) /\ tv \in Seq(Token)
      BY <1>1, <1>4, <1>6, <1>7
    <2>2. Reading(tv) = p
      <3> DEFINE x == w.text
      <3> HIDE DEF x, value
      <3>1. Scan(ReaderStep, Unread, x \o value)
              = Scan(ReaderStep, Scan(ReaderStep, Unread, x), value)
        BY <1>1, <1>7, ScanConcat DEF x
      <3> QED
        BY <3>1 DEF Reading, x
    <2> HIDE DEF tv, t, p
    <2>3. Scan(ReaderStep, Unread, tv \o t)
            = Scan(ReaderStep, Scan(ReaderStep, Unread, tv), t)
      BY <2>1, ScanConcat
    <2> QED
      BY <2>2, <2>3 DEF Reading, tv
  <1>10. LET e == Scan(ReaderStep, p, t)
         IN  e.levels = << >> /\ e.expects = "more"
    <2>1. Len(t) = Len(p.levels)
          /\ \A i \in 1..Len(t) : t[i] = p.levels[Len(t) + 1 - i].close
      <3> HIDE DEF p, q, t
      <3> QED
        BY <1>2, <1>4, <1>8
    <2> HIDE DEF p, t
    <2> QED
      BY <1>4, <1>8, <2>1, ClosersRead
  <1> HIDE DEF p, t, value
  <1>11. IsDocument(w.text \o value \o t)
    BY <1>9, <1>10 DEF IsDocument
  <1> QED
    BY <1>11 DEF value, t

\* A document that json_finish lets through.
LEMMA KeptFinishes ==
  ASSUME NEW w, BooksKept(w), json_finish(w)
  PROVE  IsDocument(w.text)
  <1>1. /\ w \in WriterState /\ w.stack = << >> /\ w.root_written
        /\ ~w.failed
    BY EmptySeq DEF json_finish, depth, WriterState, BooksKept
  <1>2. Reading(w.text).expects = "more" /\ Len(Reading(w.text).levels) = 0
    BY <1>1 DEF BooksKept, Agree, Awaits
  <1>3. Reading(w.text) \in ReaderState
    BY <1>1, ReadingType DEF WriterState
  <1>4. Reading(w.text).levels = << >>
    BY <1>2, <1>3, EmptySeq DEF ReaderState
  <1> QED
    BY <1>2, <1>4 DEF IsDocument

\* Completable holds of every caller of the writer, whatever it calls in
\* whatever order, how often, and wherever memory runs out.
THEOREM CompletableInvariant == WriterSpec => []Completable
  <1> DEFINE Kept == BooksKept(writer)
  <1>1. WriterInit => Kept
    BY InitKept, RoomsAssumption DEF WriterInit
  <1>2. Kept /\ [WriterNext]_wvars => Kept'
    <2> SUFFICES ASSUME BooksKept(writer), [WriterNext]_wvars
                 PROVE  BooksKept(writer')
      OBVIOUS
    <2> DEFINE w == writer
               W == {"str", "num"}
    <2>1. /\ w \in WriterState /\ Len(w.stack) <= MaxDepth
          /\ ~w.failed => Agree(w, Reading(w.text))
      BY DEF BooksKept
    <2>2. /\ W \subseteq Token
          /\ \A t \in W : t \notin Punctuation
          /\ "str" \notin Punctuation \cup {"num"}
      BY TokenAssumption DEF Punctuation
    <2>3. BooksKept(Returns(w, FALSE))
      <3> DEFINE c == [op |-> "none", arg |-> "num"]
                 v == Returns(w, FALSE)
      <3>1. CASE w.failed
        <4>1. Fallen(w, v)
          BY <2>1, <3>1, CallFallen
        <4> HIDE DEF v
        <4>2. BooksKept(v)
          BY <3>1, <4>1, CallKept
        <4> QED
          BY <4>2 DEF v
      <3>2. CASE ~w.failed
        <4>1. ~Fits(Reading(w.text), c)
          BY DEF Fits
        <4> HIDE DEF c, v
        <4>2. Obeys(w, v, c)
          BY <2>1, <3>2, <4>1, RefusedObeys DEF v
        <4>3. BooksKept(v)
          BY <3>2, <4>2, CallKept
        <4> QED
          BY <4>3 DEF v
      <3> QED
        BY <3>1, <3>2
    <2>4. \A null \in BOOLEAN, token \in W :
            BooksKept(json_value(w, null, token))
      <3> SUFFICES ASSUME NEW null \in BOOLEAN, NEW token \in W
                   PROVE  BooksKept(json_value(w, null, token))
        OBVIOUS
      <3> HIDE DEF W
      <3> DEFINE v == json_value(w, FALSE, token)
      <3>1. null => json_value(w, null, token) = Returns(w, FALSE)
        BY DEF json_value
      <3>2. w.failed => Fallen(w, v)
        BY <2>1, CallFallen
      <3>3. ~w.failed => Obeys(w, v, IsCall("value", token))
        BY <2>1, <2>2, ValueObeys
      <3> HIDE DEF v
      <3>4. BooksKept(v)
        BY <3>2, <3>3, CallKept
      <3> QED
        BY <2>3, <3>1, <3>4 DEF v
    <2>5. \A null \in BOOLEAN : BooksKept(json_key(w, null, "str"))
      <3> SUFFICES ASSUME NEW null \in BOOLEAN
                   PROVE  BooksKept(json_key(w, null, "str"))
        OBVIOUS
      <3> DEFINE v == json_key(w, FALSE, "str")
      <3>1. null => json_key(w, null, "str") = Returns(w, FALSE)
        BY DEF json_key
      <3>2. w.failed => Fallen(w, v)
        BY <2>1, CallFallen
      <3>3. ~w.failed => Obeys(w, v, IsCall("key", "str"))
        BY <2>1, <2>2, KeyObeys
      <3> HIDE DEF v
      <3>4. BooksKept(v)
        BY <3>2, <3>3, CallKept
      <3> QED
        BY <2>3, <3>1, <3>4 DEF v
    <2>6. BooksKept(begin_object(w)) /\ BooksKept(begin_array(w))
      <3> DEFINE v == begin_container(w, "begin-object", "end-object")
                 u == begin_container(w, "begin-array", "end-array")
      <3>1. w.failed => Fallen(w, v) /\ Fallen(w, u)
        BY <2>1, CallFallen
      <3>2. ~w.failed => /\ Obeys(w, v, IsCall("open", "begin-object"))
                         /\ Obeys(w, u, IsCall("open", "begin-array"))
        BY <2>1, BeginObeys
      <3> HIDE DEF v, u
      <3>3. BooksKept(v)
        BY <3>1, <3>2, CallKept
      <3>4. BooksKept(u)
        BY <3>1, <3>2, CallKept
      <3> QED
        BY <3>3, <3>4 DEF v, u, begin_object, begin_array
    <2>7. \A close \in {"end-object", "end-array"} :
            BooksKept(end_container(w, close))
      <3> SUFFICES ASSUME NEW close \in {"end-object", "end-array"}
                   PROVE  BooksKept(end_container(w, close))
        OBVIOUS
      <3> DEFINE v == end_container(w, close)
      <3>1. w.failed => Fallen(w, v)
        BY <2>1, CallFallen
      <3>2. ~w.failed => Obeys(w, v, IsCall("close", close))
        BY <2>1, EndObeys
      <3> HIDE DEF v
      <3>3. BooksKept(v)
        BY <3>1, <3>2, CallKept
      <3> QED
        BY <3>3 DEF v
    <2>8. CASE UNCHANGED wvars
      BY <2>8 DEF wvars
    <2>9. CASE WriterNext
      BY <2>4, <2>5, <2>6, <2>7, <2>9
      DEF WriterNext, Call, BeginObject, BeginArray, EndObject, EndArray,
          KeyCall, StringCall, ScalarCall
    <2> QED
      BY <2>8, <2>9
  <1>3. Kept => Completable
    <2> SUFFICES ASSUME BooksKept(writer) PROVE Completable
      OBVIOUS
    <2>1. depth(writer) <= MaxDepth
      BY DEF BooksKept, depth
    <2> QED
      BY <2>1, KeptCompletes, KeptFinishes DEF Completable
  <1> QED
    BY <1>1, <1>2, <1>3, PTL DEF WriterSpec
-----------------------------------------------------------------------------
(* Scripts of calls                                                        *)

\* The calls of the scripts, and a reader that follows the calls instead of
\* the text.
SoundCall == {c \in ScriptCall : Sound(c)}
\* The reader that follows the calls, one of them at a time.
CallStep == [x \in ReaderState \X SoundCall |-> CallOn(x[1], x[2])]
\* Where the calls s lead it.
Run(q, s) == Scan(CallStep, q, s)

\* A call leads a reader from state to state.
LEMMA CallRead ==
  ASSUME NEW q \in ReaderState, NEW c \in SoundCall
  PROVE  /\ CallOn(q, c) \in ReaderState
         /\ After(CallStep, q, c) = CallOn(q, c)
  <1>1. /\ c \in ScriptCall /\ c.arg \in Token
        /\ c.op \in {"key", "value", "open", "close"}
    BY DEF SoundCall, ScriptCall
  <1>2. \A p \in ReaderState : \A what \in Expected :
          Expecting(p, what) \in ReaderState
    BY DEF Expecting, ReaderState
  <1>3. {"value", "more", "nothing", "member", "element"} \subseteq Expected
    BY DEF Expected
  <1>4. \A close \in {"end-object", "end-array"}, first \in Expected :
          Enter(q, close, first) \in ReaderState
    <2> SUFFICES ASSUME NEW close \in {"end-object", "end-array"},
                        NEW first \in Expected
                 PROVE  Enter(q, close, first) \in ReaderState
      OBVIOUS
    <2> DEFINE level == [close |-> close, names |-> {}]
    <2>1. level \in Level
      BY DEF Level
    <2>2. Enter(q, close, first)
            = [q EXCEPT !.levels = Append(q.levels, level), !.expects = first]
      BY DEF Enter
    <2>3. q.levels \in Seq(Level)
      BY DEF ReaderState
    <2> HIDE DEF level
    <2>4. Append(q.levels, level) \in Seq(Level)
      BY <2>1, <2>3, AppendOne
    <2> QED
      BY <2>2, <2>4 DEF ReaderState
  <1>5. Leave(q) \in ReaderState
    <2>1. SubSeq(q.levels, 1, Len(q.levels) - 1) \in Seq(Level)
      BY DEF ReaderState
    <2> QED
      BY <2>1 DEF Leave, ReaderState, Expected
  <1>6. Fits(q, c) /\ c.op = "key" => ReadName(q, c.arg) \in ReaderState
    BY <1>1, NameRead DEF Fits
  <1>7. CallOn(q, c) \in ReaderState
    BY <1>1, <1>2, <1>3, <1>4, <1>5, <1>6 DEF CallOn, Led
  <1> QED
    BY <1>7 DEF After, CallStep

\* A reader has a state after any calls.
LEMMA RunType ==
  ASSUME NEW q \in ReaderState, NEW s \in Seq(SoundCall)
  PROVE  Run(q, s) \in ReaderState
  BY CallRead, ScanType DEF Run

\* After a call that does not fit, none does.
LEMMA RunLost ==
  ASSUME NEW q \in ReaderState, NEW s \in Seq(SoundCall),
         q.expects = "nothing"
  PROVE  Run(q, s).expects = "nothing"
  <1> DEFINE Q == {p \in ReaderState : p.expects = "nothing"}
  <1>1. ASSUME NEW p \in Q, NEW c \in SoundCall
        PROVE  After(CallStep, p, c) \in Q
    <2>1. ~Fits(p, c)
      BY DEF Fits, MayPut, MayLeave, WantsValue
    <2>2. CallOn(p, c).expects = "nothing"
      BY <2>1 DEF CallOn, Expecting, ReaderState
    <2> QED
      BY <2>2, CallRead
  <1>2. q \in Q
    OBVIOUS
  <1> HIDE DEF Q
  <1>3. Scan(CallStep, q, s) \in Q
    BY <1>1, <1>2, ScanType
  <1> QED
    BY <1>3 DEF Q, Run

\* The first call of a script that ends well fits.
LEMMA RunHead ==
  ASSUME NEW q \in ReaderState, NEW s \in Seq(SoundCall), s # << >>
  PROVE  /\ Head(s) \in SoundCall /\ Tail(s) \in Seq(SoundCall)
         /\ Run(q, s) = Run(CallOn(q, Head(s)), Tail(s))
         /\ Run(q, s).expects # "nothing" => Fits(q, Head(s))
  <1>1. /\ Head(s) = s[1] /\ s[1] \in SoundCall /\ Tail(s) \in Seq(SoundCall)
        /\ Scan(CallStep, q, s)
             = Scan(CallStep, After(CallStep, q, s[1]), Tail(s))
    BY ScanHead
  <1>2. After(CallStep, q, s[1]) = CallOn(q, s[1])
        /\ CallOn(q, s[1]) \in ReaderState
    BY <1>1, CallRead
  <1>3. ~Fits(q, s[1]) => CallOn(q, s[1]).expects = "nothing"
    BY DEF CallOn, Expecting, ReaderState
  <1> QED
    BY <1>1, <1>2, <1>3, RunLost DEF Run

\* Scripts are followed one after the other, and call by call.
LEMMA RunConcat ==
  ASSUME NEW q \in ReaderState, NEW s \in Seq(SoundCall),
         NEW t \in Seq(SoundCall)
  PROVE  /\ s \o t \in Seq(SoundCall)
         /\ Run(q, s \o t) = Run(Run(q, s), t)
  BY ScanConcat DEF Run

\* No call leads nowhere.
LEMMA RunEmpty ==
  ASSUME NEW q
  PROVE  Run(q, << >>) = q
  BY ScanEmpty DEF Run

\* One call leads where the call leads.
LEMMA RunOne ==
  ASSUME NEW q \in ReaderState, NEW c \in SoundCall
  PROVE  /\ <<c>> \in Seq(SoundCall)
         /\ Run(q, <<c>>) = CallOn(q, c)
  BY ScanOne, CallRead DEF Run
-----------------------------------------------------------------------------
\* A script that writes one value with at most d levels of containers.
IsValue(s, d) ==
  /\ s \in Seq(SoundCall)
  /\ \A q \in ReaderState :
       q.levels # << >> /\ MayPut(q) /\ Len(q.levels) + d <= MaxDepth
         => Run(q, s) = Expecting(q, "more")

\* From q to e, members with the names N have been added to the innermost
\* object.
Extended(q, e, N) ==
  LET n == Len(q.levels)
  IN  /\ e \in ReaderState
      /\ Len(e.levels) = n
      /\ \A i \in 1..n - 1 : e.levels[i] = q.levels[i]
      /\ e.levels[n].close = q.levels[n].close
      /\ e.levels[n].names = q.levels[n].names \cup N
      /\ e.expects = IF N = {} THEN q.expects ELSE "more"
      /\ e.unique = q.unique

\* A reader where members with the names N may come.
Takes(q, N, d) ==
  /\ q.levels # << >>
  /\ Innermost(q).close = "end-object"
  /\ Innermost(q).names \cap N = {}
  /\ q.expects \in {"member", "more"}
  /\ Len(q.levels) + d <= MaxDepth

\* A script that writes members with the names N into an object that is not
\* the outermost.
IsMembers(s, N, d) ==
  /\ s \in Seq(SoundCall)
  /\ N \subseteq Token
  /\ \A q \in ReaderState :
       Takes(q, N, d) /\ Len(q.levels) # 1
         => Extended(q, Run(q, s), N) /\ Run(q, s).root = q.root

\* A script that writes elements of an array.
IsElements(s, d) ==
  /\ s \in Seq(SoundCall)
  /\ \A q \in ReaderState :
       /\ q.levels # << >> /\ Innermost(q).close = "end-array"
       /\ q.expects \in {"element", "more"}
       /\ Len(q.levels) + d <= MaxDepth
       => Run(q, s) \in {q, Expecting(q, "more")}

\* What may be a member's name.
MemberName == Token \ (Punctuation \cup {"num"})

\* A scalar is a value.
LEMMA ScalarIs ==
  ASSUME NEW token \in {"str", "num"}
  PROVE  IsValue(Value(token), 0)
  <1> DEFINE c == [op |-> "value", arg |-> token]
  <1>1. token \in Token /\ token \notin Punctuation
    BY TokenAssumption DEF Punctuation
  <1>2. c \in SoundCall
    BY <1>1 DEF SoundCall, ScriptCall, Sound
  <1>3. ASSUME NEW q \in ReaderState, MayPut(q)
        PROVE  CallOn(q, c) = Expecting(q, "more")
    BY <1>3 DEF CallOn, Fits, Led
  <1> HIDE DEF c
  <1>4. ASSUME NEW q \in ReaderState, MayPut(q)
        PROVE  Run(q, <<c>>) = Expecting(q, "more")
    BY <1>2, <1>3, <1>4, RunOne
  <1>5. <<c>> \in Seq(SoundCall)
    BY <1>2
  <1> QED
    BY <1>4, <1>5 DEF IsValue, Value, c

\* A member: its name, and wherever its value fits.
LEMMA MemberRead ==
  ASSUME NEW name \in MemberName, NEW v, NEW d \in Nat, IsValue(v, d),
         NEW q \in ReaderState, Takes(q, {name}, d)
  PROVE  LET e == Run(q, Member(name, v))
         IN  /\ Extended(q, e, {name})
             /\ e.root = IF Len(q.levels) = 1 THEN Append(q.root, name)
                         ELSE q.root
  <1> DEFINE c == [op |-> "key", arg |-> name]
             p == ReadName(q, name)
             x == Expecting(p, "value")
             e == Run(q, Member(name, v))
             n == Len(q.levels)
  <1>1. c \in SoundCall
    BY DEF SoundCall, ScriptCall, Sound, MemberName
  <1>2. CallOn(q, c) = x
    BY DEF CallOn, Fits, Led, Takes
  <1>3. /\ p \in ReaderState /\ Len(p.levels) = n
        /\ \A i \in 1..n : p.levels[i].close = q.levels[i].close
        /\ n \in Nat \ {0}
    <2>1. n \in Nat \ {0}
      BY EmptySeq DEF Takes, ReaderState
    <2> QED
      BY <2>1, NameLevels, NameRead DEF Takes, MemberName
  <1>4. /\ \A i \in 1..n - 1 : p.levels[i] = q.levels[i]
        /\ p.levels[n].names = q.levels[n].names \cup {name}
    <2> DEFINE level == [q.levels[n] EXCEPT !.names
                           = Innermost(q).names \cup {name}]
               levels == [q.levels EXCEPT ![n] = level]
    <2>1. q.levels \in Seq(Level) /\ q.levels[n] \in Level
      BY <1>3 DEF ReaderState
    <2>2. level.names = q.levels[n].names \cup {name} /\ level \in Level
      BY <2>1 DEF Level, Innermost, MemberName
    <2>3. p.levels = levels
      BY DEF ReadName
    <2> HIDE DEF level
    <2>4. levels[n] = level /\ \A i \in 1..n - 1 : levels[i] = q.levels[i]
      <3> DEFINE s == q.levels
      <3> HIDE DEF s
      <3>1. s \in Seq(Level) /\ s # << >>
        BY <2>1 DEF s, Takes
      <3>2. [s EXCEPT ![Len(s)] = level][Len(s)] = level
            /\ \A i \in 1..Len(s) - 1 :
                 [s EXCEPT ![Len(s)] = level][i] = s[i]
        BY <2>2, <3>1, LastChanged
      <3> QED
        BY <3>2 DEF s
    <2> HIDE DEF levels, p
    <2> QED
      BY <2>2, <2>3, <2>4
  <1>5. /\ p.root = (IF n = 1 THEN Append(q.root, name) ELSE q.root)
        /\ p.unique = q.unique
    <2>1. name \notin Innermost(q).names
      BY DEF Takes
    <2> QED
      BY <2>1 DEF ReadName, ReaderState
  <1> HIDE DEF p
  <1>6. /\ x \in ReaderState /\ x.levels = p.levels /\ x.root = p.root
        /\ x.unique = p.unique /\ WantsValue(x)
    BY <1>3 DEF Expecting, ReaderState, Expected, WantsValue
  <1>7. Run(x, v) = Expecting(x, "more")
    <2>1. x.levels # << >> /\ Len(x.levels) + d <= MaxDepth
      BY <1>3, <1>6, EmptySeq DEF Takes
    <2> HIDE DEF x
    <2> QED
      BY <1>6, <2>1 DEF IsValue, MayPut
  <1>8. e = Run(x, v)
    <2> HIDE DEF c, x, e
    <2>1. Run(q, <<c>>) = x
      BY <1>1, <1>2, RunOne
    <2>2. Run(q, <<c>> \o v) = Run(Run(q, <<c>>), v)
      BY <1>1, RunOne, RunConcat DEF IsValue
    <2> QED
      BY <2>1, <2>2 DEF e, Member, Key, c
  <1> HIDE DEF e, x
  <1>9. /\ e \in ReaderState /\ e.levels = x.levels /\ e.expects = "more"
        /\ e.root = x.root /\ e.unique = x.unique
    BY <1>6, <1>7, <1>8 DEF Expecting, ReaderState, Expected
  <1>10. Extended(q, e, {name})
    BY <1>3, <1>4, <1>5, <1>6, <1>9 DEF Extended
  <1> QED
    BY <1>5, <1>6, <1>9, <1>10 DEF e

\* A member of an inner object.
LEMMA MemberIs ==
  ASSUME NEW name \in MemberName, NEW v, NEW d \in Nat, IsValue(v, d)
  PROVE  IsMembers(Member(name, v), {name}, d)
  <1> DEFINE c == [op |-> "key", arg |-> name]
  <1>1. c \in SoundCall
    BY DEF SoundCall, ScriptCall, Sound, MemberName
  <1>2. <<c>> \o v \in Seq(SoundCall)
    <2> HIDE DEF c
    <2> QED
      BY <1>1 DEF IsValue
  <1>3. Member(name, v) = <<c>> \o v
    BY DEF Member, Key
  <1>4. {name} \subseteq Token
    BY DEF MemberName
  <1>5. ASSUME NEW q \in ReaderState, Takes(q, {name}, d), Len(q.levels) # 1
        PROVE  /\ Extended(q, Run(q, Member(name, v)), {name})
               /\ Run(q, Member(name, v)).root = q.root
    BY <1>5, MemberRead
  <1> QED
    BY <1>2, <1>3, <1>4, <1>5 DEF IsMembers

\* No members.
LEMMA NoMembers ==
  ASSUME NEW d \in Nat
  PROVE  IsMembers(<< >>, {}, d)
  <1>1. << >> \in Seq(SoundCall)
    OBVIOUS
  <1>2. ASSUME NEW q \in ReaderState, Takes(q, {}, d)
        PROVE  Extended(q, q, {})
    BY <1>2 DEF Extended, Takes, ReaderState
  <1> QED
    BY <1>1, <1>2, RunEmpty DEF IsMembers

\* Members and more members.
LEMMA MembersConcat ==
  ASSUME NEW s, NEW t, NEW N, NEW M, NEW d \in Nat, NEW k \in Nat, k <= d,
         IsMembers(s, N, d), IsMembers(t, M, k), N \cap M = {}
  PROVE  /\ IsMembers(s \o t, N \cup M, d)
         /\ IsMembers(t \o s, N \cup M, d)
  <1>0. ASSUME NEW x, NEW y, NEW A, NEW B,
               IsMembers(x, A, d), IsMembers(y, B, d), A \cap B = {}
        PROVE  IsMembers(x \o y, A \cup B, d)
    <2>1. /\ x \in Seq(SoundCall) /\ y \in Seq(SoundCall)
          /\ A \subseteq Token /\ B \subseteq Token
      BY <1>0 DEF IsMembers
    <2>2. x \o y \in Seq(SoundCall)
      BY <2>1
    <2>3. ASSUME NEW q \in ReaderState, Takes(q, A \cup B, d),
                 Len(q.levels) # 1
          PROVE  /\ Extended(q, Run(q, x \o y), A \cup B)
                 /\ Run(q, x \o y).root = q.root
      <3> DEFINE e == Run(q, x)
                 f == Run(e, y)
                 n == Len(q.levels)
      <3>1. Takes(q, A, d)
        BY <2>3 DEF Takes
      <3>2. Extended(q, e, A) /\ e.root = q.root
        BY <1>0, <2>3, <3>1 DEF IsMembers
      <3> HIDE DEF e
      <3>3. n \in Nat \ {0} /\ Len(e.levels) = n /\ e \in ReaderState
            /\ q.levels \in Seq(Level) /\ e.levels \in Seq(Level)
        BY <2>3, <3>2, EmptySeq DEF Extended, Takes, ReaderState
      <3>4. Takes(e, B, d)
        <4>1. /\ Innermost(e).names = Innermost(q).names \cup A
              /\ Innermost(e).close = "end-object"
          BY <2>3, <3>2, <3>3 DEF Extended, Takes, Innermost
        <4>2. e.expects \in {"member", "more"}
          BY <2>3, <3>2 DEF Extended, Takes
        <4>3. e.levels # << >>
          BY <3>3, EmptySeq
        <4> QED
          BY <1>0, <2>3, <3>3, <4>1, <4>2, <4>3 DEF Takes
      <3>5. Extended(e, f, B) /\ f.root = e.root
        BY <1>0, <2>3, <3>3, <3>4 DEF IsMembers
      <3> HIDE DEF f
      <3>6. Extended(q, f, A \cup B)
        BY <3>2, <3>3, <3>5 DEF Extended
      <3>7. Run(q, x \o y) = f
        BY <2>1, RunConcat DEF e, f
      <3> QED
        BY <3>2, <3>5, <3>6, <3>7
    <2> QED
      BY <2>1, <2>2, <2>3 DEF IsMembers
  <1>1. IsMembers(t, M, d)
    <2>1. ASSUME NEW q \in ReaderState, Takes(q, M, d)
          PROVE  Takes(q, M, k)
      <3>1. Len(q.levels) \in Nat /\ Len(q.levels) + d <= MaxDepth
        BY <2>1 DEF Takes, ReaderState
      <3>2. Len(q.levels) + k <= MaxDepth
        BY <3>1, MaxDepthAssumption
      <3> QED
        BY <2>1, <3>2 DEF Takes
    <2>2. t \in Seq(SoundCall) /\ M \subseteq Token
      BY DEF IsMembers
    <2> QED
      BY <2>1, <2>2 DEF IsMembers
  <1>2. M \cap N = {} /\ M \cup N = N \cup M
    OBVIOUS
  <1> QED
    BY <1>0, <1>1, <1>2

\* Room for one container and d more.
LEMMA FitsIn ==
  ASSUME NEW n \in Nat \ {0}, NEW d \in Nat, n + (d + 1) <= MaxDepth
  PROVE  n < MaxDepth /\ (n + 1) + d <= MaxDepth /\ n + 1 # 1
  BY MaxDepthAssumption

\* An object is a value.
LEMMA ObjectIs ==
  ASSUME NEW s, NEW N, NEW d \in Nat, IsMembers(s, N, d)
  PROVE  IsValue(Object(s), d + 1)
  <1> DEFINE a == [op |-> "open", arg |-> "begin-object"]
             b == [op |-> "close", arg |-> "end-object"]
  <1>1. a \in SoundCall /\ b \in SoundCall /\ s \in Seq(SoundCall)
    BY TokenAssumption
    DEF SoundCall, ScriptCall, Sound, Punctuation, IsMembers
  <1>2. Object(s) = <<a>> \o s \o <<b>>
    BY DEF Object, Open, Close
  <1>3. ASSUME NEW q \in ReaderState, q.levels # << >>, MayPut(q),
               Len(q.levels) + (d + 1) <= MaxDepth
        PROVE  Run(q, <<a>> \o s \o <<b>>) = Expecting(q, "more")
    <2> DEFINE x == Enter(q, "end-object", "member")
               e == Run(x, s)
               n == Len(q.levels)
               level == [close |-> "end-object", names |-> {}]
    <2>1. n \in Nat \ {0} /\ q.levels \in Seq(Level) /\ level \in Level
          /\ MaxDepth \in Nat
      BY <1>3, EmptySeq, MaxDepthAssumption DEF ReaderState, Level
    <2>2. CallOn(q, a) = x /\ x \in ReaderState
      <3>0. n < MaxDepth
        BY <1>3, <2>1, FitsIn
      <3>1. Fits(q, a)
        BY <1>3, <3>0 DEF Fits
      <3>2. CallOn(q, a) = x
        BY <3>1 DEF CallOn, Led
      <3> HIDE DEF x, a
      <3> QED
        BY <1>1, <3>2, CallRead
    <2>3. /\ Len(x.levels) = n + 1 /\ x.levels[n + 1] = level
          /\ \A i \in 1..n : x.levels[i] = q.levels[i]
          /\ x.expects = "member" /\ x.root = q.root /\ x.unique = q.unique
      <3> DEFINE l == Append(q.levels, level)
      <3>1. x.levels = l /\ x.expects = "member" /\ x.root = q.root
            /\ x.unique = q.unique
        BY DEF Enter, ReaderState
      <3>2. Len(l) = n + 1 /\ l[n + 1] = level
            /\ \A i \in 1..n : l[i] = q.levels[i]
        <4> HIDE DEF level
        <4> QED
          BY <2>1, AppendOne
      <3> HIDE DEF l, x, level
      <3> QED
        BY <3>1, <3>2
    <2> HIDE DEF x
    <2>4. Takes(x, N, d) /\ Len(x.levels) # 1
      <3>1. x.levels # << >> /\ Innermost(x) = level
        BY <2>1, <2>3, EmptySeq DEF Innermost
      <3>2. Len(x.levels) + d <= MaxDepth /\ Len(x.levels) # 1
        BY <1>3, <2>1, <2>3, FitsIn
      <3> QED
        BY <2>3, <3>1, <3>2 DEF Takes
    <2>5. Extended(x, e, N) /\ e.root = x.root
      BY <2>2, <2>4 DEF IsMembers
    <2> HIDE DEF e
    <2>6. /\ e \in ReaderState /\ Len(e.levels) = n + 1
          /\ \A i \in 1..n : e.levels[i] = q.levels[i]
          /\ e.levels[n + 1].close = "end-object"
          /\ e.expects \in {"member", "more"}
          /\ e.unique = q.unique /\ e.root = q.root
      BY <2>1, <2>3, <2>5 DEF Extended
    <2>7. CallOn(e, b) = Leave(e)
      <3>1. e.levels # << >> /\ Innermost(e).close = "end-object"
        BY <2>1, <2>6, EmptySeq DEF Innermost
      <3>2. MayLeave(e, "end-object")
        BY <2>6, <3>1 DEF MayLeave
      <3> QED
        BY <3>2 DEF CallOn, Fits, Led
    <2>8. Leave(e) = Expecting(q, "more")
      <3> DEFINE l == SubSeq(e.levels, 1, n)
                 m == e.levels
      <3>1. m \in Seq(Level) /\ Len(m) = n + 1
        BY <2>6 DEF ReaderState
      <3>2. l = q.levels
        <4> HIDE DEF m
        <4>1. SubSeq(m, 1, n) \in Seq(Level) /\ Len(SubSeq(m, 1, n)) = n
              /\ \A i \in 1..n : SubSeq(m, 1, n)[i] = m[i]
          BY <2>1, <3>1
        <4> HIDE DEF n
        <4>2. SubSeq(m, 1, n) = q.levels
          <5> DEFINE z == SubSeq(m, 1, n)
          <5>1. z \in Seq(Level) /\ Len(z) = Len(q.levels)
                /\ \A i \in 1..Len(z) : z[i] = q.levels[i]
            BY <2>6, <4>1 DEF n, m
          <5> HIDE DEF z
          <5>2. z = q.levels
            BY <2>1, <5>1, SeqEqual
          <5> QED
            BY <5>2 DEF z
        <4> QED
          BY <4>2 DEF m
      <3>3. Leave(e) = [e EXCEPT !.levels = l, !.expects = "more"]
        BY <2>1, <2>6 DEF Leave
      <3> HIDE DEF l
      <3> QED
        BY <2>6, <3>2, <3>3 DEF Expecting, ReaderState
    <2>9. Run(q, <<a>> \o s \o <<b>>) = Run(e, <<b>>)
      <3> HIDE DEF a, b
      <3>1. <<a>> \in Seq(SoundCall) /\ <<b>> \in Seq(SoundCall)
        BY <1>1
      <3>2. <<a>> \o s \in Seq(SoundCall)
            /\ Run(q, <<a>> \o s) = Run(Run(q, <<a>>), s)
        BY <1>1, <3>1, RunConcat
      <3>3. Run(q, <<a>> \o s \o <<b>>)
              = Run(Run(q, <<a>> \o s), <<b>>)
        <4> DEFINE u == <<a>> \o s
                   y == <<b>>
        <4>1. u \in Seq(SoundCall) /\ y \in Seq(SoundCall)
          BY <3>1, <3>2
        <4> HIDE DEF u, y
        <4>2. Run(q, u \o y) = Run(Run(q, u), y)
          BY <4>1, RunConcat
        <4> QED
          BY <4>2 DEF u, y
      <3>4. Run(q, <<a>>) = x
        BY <1>1, <2>2, RunOne
      <3> QED
        BY <3>2, <3>3, <3>4 DEF e
    <2> HIDE DEF b
    <2> QED
      BY <1>1, <2>6, <2>7, <2>8, <2>9, RunOne
  <1>4. <<a>> \o s \o <<b>> \in Seq(SoundCall)
    <2> HIDE DEF a, b
    <2> QED
      BY <1>1
  <1> HIDE DEF a, b
  <1> QED
    BY <1>2, <1>3, <1>4 DEF IsValue

\* An array is a value.
LEMMA ArrayIs ==
  ASSUME NEW s, NEW d \in Nat, IsElements(s, d)
  PROVE  IsValue(Array(s), d + 1)
  <1> DEFINE a == [op |-> "open", arg |-> "begin-array"]
             b == [op |-> "close", arg |-> "end-array"]
  <1>1. a \in SoundCall /\ b \in SoundCall /\ s \in Seq(SoundCall)
    BY TokenAssumption
    DEF SoundCall, ScriptCall, Sound, Punctuation, IsElements
  <1>2. Array(s) = <<a>> \o s \o <<b>>
    BY DEF Array, Open, Close
  <1>3. ASSUME NEW q \in ReaderState, q.levels # << >>, MayPut(q),
               Len(q.levels) + (d + 1) <= MaxDepth
        PROVE  Run(q, <<a>> \o s \o <<b>>) = Expecting(q, "more")
    <2> DEFINE x == Enter(q, "end-array", "element")
               e == Run(x, s)
               n == Len(q.levels)
               level == [close |-> "end-array", names |-> {}]
               l == Append(q.levels, level)
    <2>1. n \in Nat \ {0} /\ q.levels \in Seq(Level) /\ level \in Level
          /\ MaxDepth \in Nat
      BY <1>3, EmptySeq, MaxDepthAssumption DEF ReaderState, Level
    <2>2. CallOn(q, a) = x /\ x \in ReaderState
      <3>0. n < MaxDepth
        BY <1>3, <2>1, FitsIn
      <3>1. Fits(q, a)
        BY <1>3, <3>0 DEF Fits
      <3>2. CallOn(q, a) = x
        BY <3>1 DEF CallOn, Led
      <3> HIDE DEF x, a
      <3> QED
        BY <1>1, <3>2, CallRead
    <2>3. x = [q EXCEPT !.levels = l, !.expects = "element"]
      BY DEF Enter
    <2>4. /\ l \in Seq(Level) /\ Len(l) = n + 1 /\ l[n + 1] = level
          /\ l # << >> /\ SubSeq(l, 1, n) = q.levels
      <3> DEFINE s0 == q.levels
      <3> HIDE DEF level, s0
      <3>1. s0 \in Seq(Level) /\ level \in Level /\ Len(s0) \in Nat
        BY <2>1 DEF s0
      <3>2. /\ Append(s0, level) \in Seq(Level)
            /\ Len(Append(s0, level)) = Len(s0) + 1
            /\ Append(s0, level)[Len(s0) + 1] = level
            /\ SubSeq(Append(s0, level), 1, Len(s0)) = s0
        BY <3>1
      <3> QED
        BY <3>1, <3>2, EmptySeq DEF s0
    <2> HIDE DEF x, l, level
    <2>5. x.levels = l /\ x.expects = "element" /\ Innermost(x) = level
      BY <2>3, <2>4 DEF Innermost, ReaderState
    <2>6. e \in {x, Expecting(x, "more")}
      <3>1. Len(x.levels) + d <= MaxDepth
        BY <1>3, <2>1, <2>4, <2>5, FitsIn
      <3>2. Innermost(x).close = "end-array"
        BY <2>5 DEF level
      <3> QED
        BY <2>2, <2>4, <2>5, <3>1, <3>2 DEF IsElements
    <2> HIDE DEF e
    <2>7. /\ e \in ReaderState /\ e.levels = l
          /\ e.expects \in {"element", "more"} /\ Innermost(e) = level
          /\ [e EXCEPT !.levels = q.levels, !.expects = "more"]
               = Expecting(q, "more")
      <3>1. /\ e \in ReaderState /\ e.levels = l
            /\ e.expects \in {"element", "more"}
        BY <2>2, <2>5, <2>6 DEF Expecting, ReaderState, Expected
      <3>2. Innermost(e) = level
        BY <2>4, <3>1 DEF Innermost
      <3>3. [e EXCEPT !.levels = q.levels, !.expects = "more"]
               = Expecting(q, "more")
        BY <2>3, <2>6 DEF Expecting, ReaderState
      <3> QED
        BY <3>1, <3>2, <3>3
    <2>8. CallOn(e, b) = Leave(e)
      <3>2. MayLeave(e, "end-array")
        BY <2>4, <2>7 DEF MayLeave, level
      <3> QED
        BY <3>2 DEF CallOn, Fits, Led
    <2>9. Leave(e) = Expecting(q, "more")
      <3>1. SubSeq(e.levels, 1, Len(e.levels) - 1) = q.levels
        BY <2>1, <2>4, <2>7
      <3> QED
        BY <2>7, <3>1 DEF Leave
    <2>10. Run(q, <<a>> \o s \o <<b>>) = Run(e, <<b>>)
      <3> HIDE DEF a, b
      <3>1. <<a>> \in Seq(SoundCall) /\ <<b>> \in Seq(SoundCall)
        BY <1>1
      <3>2. <<a>> \o s \in Seq(SoundCall)
            /\ Run(q, <<a>> \o s) = Run(Run(q, <<a>>), s)
        BY <1>1, <3>1, RunConcat
      <3>3. Run(q, <<a>> \o s \o <<b>>)
              = Run(Run(q, <<a>> \o s), <<b>>)
        <4> DEFINE u == <<a>> \o s
                   y == <<b>>
        <4>1. u \in Seq(SoundCall) /\ y \in Seq(SoundCall)
          BY <3>1, <3>2
        <4> HIDE DEF u, y
        <4>2. Run(q, u \o y) = Run(Run(q, u), y)
          BY <4>1, RunConcat
        <4> QED
          BY <4>2 DEF u, y
      <3>4. Run(q, <<a>>) = x
        BY <1>1, <2>2, RunOne
      <3> QED
        BY <3>2, <3>3, <3>4 DEF e
    <2> HIDE DEF b
    <2> QED
      BY <1>1, <2>7, <2>8, <2>9, <2>10, RunOne
  <1>4. <<a>> \o s \o <<b>> \in Seq(SoundCall)
    <2> HIDE DEF a, b
    <2> QED
      BY <1>1
  <1> HIDE DEF a, b
  <1> QED
    BY <1>2, <1>3, <1>4 DEF IsValue

\* One part more is joined at the end.
LEMMA JoinedAppend ==
  ASSUME NEW parts \in Seq(Seq(SoundCall)), NEW x \in Seq(SoundCall)
  PROVE  /\ Joined(parts) \in Seq(SoundCall)
         /\ Joined(Append(parts, x)) = Joined(parts) \o x
  <1> DEFINE S == Seq(SoundCall)
             e == << >>
  <1>1. \A u \in S : u \in Seq(ScriptCall)
    BY DEF SoundCall
  <1>2. \A u \in S : \A y \in S :
          After(Concatenation, u, y) = u \o y /\ u \o y \in S
    <2> SUFFICES ASSUME NEW u \in S, NEW y \in S
                 PROVE  After(Concatenation, u, y) = u \o y /\ u \o y \in S
      OBVIOUS
    <2>1. <<u, y>> \in Seq(ScriptCall) \X Seq(ScriptCall)
      BY <1>1
    <2>2. Concatenation[<<u, y>>] = u \o y
      BY <2>1, Zenon DEF Concatenation
    <2>3. u \o y \in S
      OBVIOUS
    <2> QED
      BY <2>2, <2>3 DEF After
  <1>3. e \in S
    OBVIOUS
  <1> HIDE DEF S, e
  <1>4. Scan(Concatenation, e, parts) \in S
    <2>1. \A u \in S : \A y \in S : After(Concatenation, u, y) \in S
      BY <1>2
    <2>2. parts \in Seq(S)
      BY DEF S
    <2> QED
      BY <1>3, <2>1, <2>2, ScanType
  <1>5. Scan(Concatenation, e, Append(parts, x))
          = After(Concatenation, Scan(Concatenation, e, parts), x)
    BY ScanAppend
  <1> QED
    BY <1>2, <1>4, <1>5 DEF Joined, S, e

\* A sequence of n + 1 parts is one of n parts and a last one.
LEMMA PartsAppend ==
  ASSUME NEW S, NEW f, NEW n \in Nat, \A i \in 1..(n + 1) : f[i] \in S
  PROVE  /\ [i \in 1..n |-> f[i]] \in Seq(S)
         /\ [i \in 1..(n + 1) |-> f[i]]
              = Append([i \in 1..n |-> f[i]], f[n + 1])
  <1> DEFINE s == [i \in 1..n |-> f[i]]
             t == [i \in 1..(n + 1) |-> f[i]]
             u == Append(s, f[n + 1])
  <1>1. s \in Seq(S) /\ Len(s) = n /\ f[n + 1] \in S
    OBVIOUS
  <1>2. t \in Seq(S) /\ Len(t) = n + 1
    OBVIOUS
  <1>3. \A i \in 1..n : s[i] = f[i]
    OBVIOUS
  <1>4. \A i \in 1..(n + 1) : t[i] = f[i]
    OBVIOUS
  <1> HIDE DEF s
  <1>5. /\ u \in Seq(S) /\ Len(u) = n + 1 /\ u[n + 1] = f[n + 1]
        /\ \A i \in 1..n : u[i] = s[i]
    BY <1>1, AppendOne
  <1> HIDE DEF t, u
  <1>6. \A i \in 1..Len(t) : t[i] = u[i]
    BY <1>2, <1>3, <1>4, <1>5
  <1>7. t = u
    BY <1>2, <1>5, <1>6, SeqEqual
  <1> QED
    BY <1>1, <1>7 DEF s, t, u

\* Elements and one element more.
LEMMA ElementsMore ==
  ASSUME NEW s, NEW v, NEW d \in Nat, IsElements(s, d), IsValue(v, d)
  PROVE  IsElements(s \o v, d)
  <1>1. s \in Seq(SoundCall) /\ v \in Seq(SoundCall)
    BY DEF IsElements, IsValue
  <1>2. ASSUME NEW q \in ReaderState,
               q.levels # << >>, Innermost(q).close = "end-array",
               q.expects \in {"element", "more"},
               Len(q.levels) + d <= MaxDepth
        PROVE  Run(q, s \o v) = Expecting(q, "more")
    <2> DEFINE e == Run(q, s)
    <2>1. e \in {q, Expecting(q, "more")}
      BY <1>2 DEF IsElements
    <2> HIDE DEF e
    <2>2. /\ e \in ReaderState /\ e.levels = q.levels
          /\ e.expects \in {"element", "more"}
          /\ Expecting(e, "more") = Expecting(q, "more")
      BY <1>2, <2>1 DEF Expecting, ReaderState, Expected
    <2>3. MayPut(e)
      BY <1>2, <2>2 DEF MayPut, WantsValue, Innermost
    <2>4. Run(e, v) = Expecting(e, "more")
      BY <1>2, <2>2, <2>3 DEF IsValue
    <2>5. Run(q, s \o v) = Run(e, v)
      BY <1>1, RunConcat DEF e
    <2> QED
      BY <2>2, <2>4, <2>5
  <1>3. s \o v \in Seq(SoundCall)
    BY <1>1
  <1> QED
    BY <1>2, <1>3 DEF IsElements

\* No elements.
LEMMA NoElements ==
  ASSUME NEW d \in Nat
  PROVE  IsElements(<< >>, d)
  <1>1. << >> \in Seq(SoundCall)
    OBVIOUS
  <1> QED
    BY <1>1, RunEmpty DEF IsElements

\* A value is also an element.
LEMMA OneElement ==
  ASSUME NEW v, NEW d \in Nat, IsValue(v, d)
  PROVE  IsElements(v, d)
  <1>1. v \in Seq(SoundCall)
    BY DEF IsValue
  <1>2. ASSUME NEW q \in ReaderState, q.expects \in {"element", "more"},
               q.levels # << >>, Innermost(q).close = "end-array"
        PROVE  MayPut(q)
    BY <1>2 DEF MayPut, WantsValue
  <1> QED
    BY <1>1, <1>2 DEF IsElements, IsValue

\* The same value any number of times.
LEMMA TimesIs ==
  ASSUME NEW s, NEW d \in Nat, IsValue(s, d)
  PROVE  \A n \in Nat : IsElements(Times(n, s), d)
  <1> DEFINE X == {n \in Nat : IsElements(Times(n, s), d)}
  <1>0. s \in Seq(SoundCall)
    BY DEF IsValue
  <1>1. 0 \in X
    <2> DEFINE e == << >>
    <2>1. [i \in 1..0 |-> s] = e
      OBVIOUS
    <2>2. Times(0, s) = << >>
      BY <2>1, ScanEmpty DEF Times, Joined
    <2> QED
      BY <2>2, NoElements
  <1>2. ASSUME NEW n \in Nat, n \in X PROVE n + 1 \in X
    <2> DEFINE f == [i \in 1..(n + 1) |-> s]
               S == Seq(SoundCall)
               p == [i \in 1..n |-> f[i]]
    <2>1. \A i \in 1..(n + 1) : f[i] \in S /\ f[i] = s
      BY <1>0
    <2>2. p = [i \in 1..n |-> s]
      OBVIOUS
    <2>3. f = [i \in 1..(n + 1) |-> f[i]] /\ f[n + 1] = s
      OBVIOUS
    <2>4. p \in Seq(S) /\ f = Append(p, s)
      <3> HIDE DEF f, S
      <3>1. /\ [i \in 1..n |-> f[i]] \in Seq(S)
            /\ [i \in 1..(n + 1) |-> f[i]]
                 = Append([i \in 1..n |-> f[i]], f[n + 1])
        BY <1>2, <2>1, PartsAppend
      <3> QED
        BY <2>3, <3>1
    <2> HIDE DEF p, f
    <2>5. Joined(f) = Joined(p) \o s
      BY <1>0, <2>4, JoinedAppend
    <2>6. Times(n, s) = Joined(p) /\ Times(n + 1, s) = Joined(f)
      BY <2>2 DEF Times, f
    <2> HIDE DEF S
    <2>7. IsElements(Times(n, s), d)
      BY <1>2
    <2>8. IsElements(Times(n + 1, s), d)
      BY <2>5, <2>6, <2>7, ElementsMore
    <2> QED
      BY <2>8
  <1>3. Nat \subseteq X
    <2> HIDE DEF X
    <2> QED
      BY <1>1, <1>2, Induction
  <1> QED
    BY <1>3

\* Scalar members of different names.
LEMMA ScalarsAre ==
  ASSUME NEW names \in Seq(MemberName), NEW token \in {"str", "num"},
         \A i, j \in 1..Len(names) : names[i] = names[j] => i = j
  PROVE  IsMembers(Scalars(names, token),
                   {names[i] : i \in 1..Len(names)}, 0)
  <1> DEFINE f == [i \in 1..Len(names) |-> Member(names[i], Value(token))]
             S == Seq(SoundCall)
             p(n) == [i \in 1..n |-> f[i]]
             N(n) == {names[i] : i \in 1..n}
             X == {n \in Nat : n <= Len(names)
                                => IsMembers(Joined(p(n)), N(n), 0)}
  <1>0. /\ Len(names) \in Nat
        /\ \A i \in 1..Len(names) : names[i] \in MemberName
    OBVIOUS
  <1>1. \A i \in 1..Len(names) :
          f[i] \in S /\ IsMembers(f[i], {names[i]}, 0)
    <2> SUFFICES ASSUME NEW i \in 1..Len(names)
                 PROVE  f[i] \in S /\ IsMembers(f[i], {names[i]}, 0)
      OBVIOUS
    <2>1. IsValue(Value(token), 0)
      BY ScalarIs
    <2>2. names[i] \in MemberName
      BY <1>0
    <2>3. f[i] = Member(names[i], Value(token))
      OBVIOUS
    <2> HIDE DEF f
    <2>4. IsMembers(f[i], {names[i]}, 0)
      BY <2>1, <2>2, <2>3, MemberIs
    <2> QED
      BY <2>4 DEF IsMembers
  <1> HIDE DEF f
  <1>2. 0 \in X
    <2> DEFINE e == << >>
    <2>1. p(0) = e /\ N(0) = {}
      OBVIOUS
    <2>2. Joined(p(0)) = << >>
      BY <2>1, ScanEmpty DEF Joined
    <2>3. IsMembers(Joined(p(0)), N(0), 0)
      BY <2>1, <2>2, NoMembers
    <2> QED
      BY <2>3
  <1>3. ASSUME NEW n \in Nat, n \in X PROVE n + 1 \in X
    <2> SUFFICES ASSUME n + 1 <= Len(names)
                 PROVE  IsMembers(Joined(p(n + 1)), N(n + 1), 0)
      BY <1>3
    <2>1. \A i \in 1..(n + 1) : i \in 1..Len(names)
      BY <1>0, <1>3
    <2>2. p(n) \in Seq(S) /\ p(n + 1) = Append(p(n), f[n + 1])
      <3> HIDE DEF S
      <3> QED
        BY <1>1, <1>3, <2>1, PartsAppend
    <2>3. f[n + 1] \in S /\ IsMembers(f[n + 1], {names[n + 1]}, 0)
      <3>1. n + 1 \in 1..(n + 1)
        BY <1>3
      <3>2. n + 1 \in 1..Len(names)
        BY <2>1, <3>1
      <3> QED
        BY <1>1, <3>2
    <2>4. IsMembers(Joined(p(n)), N(n), 0)
      <3>1. n <= Len(names)
        BY <1>0, <1>3
      <3> QED
        BY <1>3, <3>1
    <2>5. N(n) \cap {names[n + 1]} = {} /\ N(n + 1) = N(n) \cup {names[n + 1]}
      <3>1. \A i \in 1..n : names[i] # names[n + 1]
        BY <1>3, <2>1
      <3>2. 1..(n + 1) = (1..n) \cup {n + 1}
        BY <1>3
      <3> QED
        BY <3>1, <3>2
    <2>6. Joined(p(n + 1)) = Joined(p(n)) \o f[n + 1]
      <3> DEFINE u == p(n)
                 x == f[n + 1]
      <3> HIDE DEF u, x
      <3>1. u \in Seq(Seq(SoundCall)) /\ x \in Seq(SoundCall)
            /\ p(n + 1) = Append(u, x)
        BY <2>2, <2>3 DEF u, x
      <3>2. Joined(Append(u, x)) = Joined(u) \o x
        BY <3>1, JoinedAppend
      <3> QED
        BY <3>1, <3>2 DEF u, x
    <2> DEFINE u == Joined(p(n))
               x == f[n + 1]
               A == N(n)
               B == {names[n + 1]}
    <2> HIDE DEF p, N, u, x, A, B
    <2>7. IsMembers(u, A, 0) /\ IsMembers(x, B, 0) /\ A \cap B = {}
      BY <2>3, <2>4, <2>5 DEF u, x, A, B
    <2>8. IsMembers(u \o x, A \cup B, 0)
      <3>1. 0 \in Nat /\ 0 <= 0
        OBVIOUS
      <3> QED
        BY <2>7, <3>1, MembersConcat
    <2> QED
      BY <2>5, <2>6, <2>8 DEF u, x, A, B
  <1>4. Nat \subseteq X
    <2> HIDE DEF X
    <2> QED
      BY <1>2, <1>3, Induction
  <1>5. IsMembers(Joined(p(Len(names))), N(Len(names)), 0)
    BY <1>0, <1>4
  <1>6. p(Len(names)) = f /\ Scalars(names, token) = Joined(f)
    BY DEF f, Scalars
  <1> QED
    BY <1>5, <1>6
-----------------------------------------------------------------------------
(* The emitters of output.c                                                *)

\* The names that output.c uses can be names of members.
LEMMA NamesRead ==
  MemberNames \subseteq MemberName
  BY NamesAssumption DEF MemberNames, MemberName, Punctuation

\* A list of different names, and the set of them.
Listed(s, S) ==
  /\ s \in Seq(MemberName)
  /\ \A i, j \in 1..Len(s) : s[i] = s[j] => i = j
  /\ {s[i] : i \in 1..Len(s)} = S

\* Scalar members with the names of such a list.
LEMMA ListedAre ==
  ASSUME NEW s, NEW S, Listed(s, S), NEW token \in {"str", "num"}
  PROVE  IsMembers(Scalars(s, token), S, 0)
  <1>1. IsMembers(Scalars(s, token), {s[i] : i \in 1..Len(s)}, 0)
    BY ScalarsAre DEF Listed
  <1> QED
    BY <1>1 DEF Listed

\* The only name is listed, and its member is all there is.
LEMMA OneListed ==
  ASSUME NEW name \in MemberName, NEW token \in {"str", "num"}
  PROVE  /\ Scalars(<<name>>, token) = Member(name, Value(token))
         /\ IsMembers(Scalars(<<name>>, token), {name}, 0)
  <1> DEFINE m == Member(name, Value(token))
             e == << >>
  <1>1. IsMembers(m, {name}, 0) /\ m \in Seq(SoundCall)
    <2>1. IsMembers(m, {name}, 0)
      BY ScalarIs, MemberIs
    <2> QED
      BY <2>1 DEF IsMembers
  <1>2. Len(<<name>>) = 1 /\ <<name>>[1] = name
    OBVIOUS
  <1>3. Scalars(<<name>>, token) = Joined([i \in 1..1 |-> m])
    BY <1>2 DEF Scalars
  <1>4. [i \in 1..1 |-> m] = Append(e, m) /\ e \in Seq(Seq(SoundCall))
    <2> HIDE DEF m
    <2> QED
      OBVIOUS
  <1>5. e \o m = m
    <2> HIDE DEF m
    <2> QED
      BY <1>1
  <1>6. Joined(e) = e
    BY ScanEmpty DEF Joined
  <1> HIDE DEF m, e
  <1>7. Joined(Append(e, m)) = Joined(e) \o m
    BY <1>1, <1>4, JoinedAppend
  <1>8. Scalars(<<name>>, token) = m
    BY <1>3, <1>4, <1>5, <1>6, <1>7
  <1> QED
    BY <1>1, <1>8 DEF m

\* The scalars of json_identifier.
LEMMA IdentifierListed ==
  Listed(<<"numeric", "hex">>,
         {"numeric", "hex"})
  <1> DEFINE s == <<"numeric", "hex">>
             S == {"numeric", "hex"}
  <1>1. S \subseteq MemberName
    BY NamesRead DEF MemberNames
  <1>2. s \in Seq(MemberName) /\ Len(s) = 2
    BY <1>1
  <1>3. \A i, j \in 1..2 : s[i] = s[j] => i = j
    OBVIOUS
  <1>4. {s[i] : i \in 1..2} = S
    OBVIOUS
  <1> HIDE DEF s, S
  <1>5. Listed(s, S)
    BY <1>2, <1>3, <1>4 DEF Listed
  <1> QED
    BY <1>5 DEF s, S

\* The scalars of json_device_fields.
LEMMA ProductListed ==
  Listed(<<"manufacturer", "product", "product-revision",
           "known-controller">>,
         {"manufacturer", "product", "product-revision", "known-controller"})
  <1> DEFINE s == <<"manufacturer", "product", "product-revision",
                    "known-controller">>
             S == {"manufacturer", "product", "product-revision",
                   "known-controller"}
  <1>1. S \subseteq MemberName
    BY NamesRead DEF MemberNames
  <1>2. s \in Seq(MemberName) /\ Len(s) = 4
    BY <1>1
  <1>3. \A i, j \in 1..4 : s[i] = s[j] => i = j
    OBVIOUS
  <1>4. {s[i] : i \in 1..4} = S
    OBVIOUS
  <1> HIDE DEF s, S
  <1>5. Listed(s, S)
    BY <1>2, <1>3, <1>4 DEF Listed
  <1> QED
    BY <1>5 DEF s, S

\* The scalars of json_media_fields.
LEMMA MediumListed ==
  Listed(<<"present", "external", "removable", "whole", "mounted",
           "capacity-bytes", "block-size">>,
         {"present", "external", "removable", "whole", "mounted",
          "capacity-bytes", "block-size"})
  <1> DEFINE s == <<"present", "external", "removable", "whole", "mounted",
                    "capacity-bytes", "block-size">>
             S == {"present", "external", "removable", "whole", "mounted",
                   "capacity-bytes", "block-size"}
  <1>1. S \subseteq MemberName
    BY NamesRead DEF MemberNames
  <1>2. s \in Seq(MemberName) /\ Len(s) = 7
    BY <1>1
  <1>3. \A i, j \in 1..7 : s[i] = s[j] => i = j
    OBVIOUS
  <1>4. {s[i] : i \in 1..7} = S
    OBVIOUS
  <1> HIDE DEF s, S
  <1>5. Listed(s, S)
    BY <1>2, <1>3, <1>4 DEF Listed
  <1> QED
    BY <1>5 DEF s, S

\* The scalars of json_media_fields, of the raw device.
LEMMA PermissionListed ==
  Listed(<<"raw-path", "readable", "errno">>,
         {"raw-path", "readable", "errno"})
  <1> DEFINE s == <<"raw-path", "readable", "errno">>
             S == {"raw-path", "readable", "errno"}
  <1>1. S \subseteq MemberName
    BY NamesRead DEF MemberNames
  <1>2. s \in Seq(MemberName) /\ Len(s) = 3
    BY <1>1
  <1>3. \A i, j \in 1..3 : s[i] = s[j] => i = j
    OBVIOUS
  <1>4. {s[i] : i \in 1..3} = S
    OBVIOUS
  <1> HIDE DEF s, S
  <1>5. Listed(s, S)
    BY <1>2, <1>3, <1>4 DEF Listed
  <1> QED
    BY <1>5 DEF s, S

\* The scalars of json_sense.
LEMMA SenseListed ==
  Listed(<<"valid", "sense-key", "asc", "ascq">>,
         {"valid", "sense-key", "asc", "ascq"})
  <1> DEFINE s == <<"valid", "sense-key", "asc", "ascq">>
             S == {"valid", "sense-key", "asc", "ascq"}
  <1>1. S \subseteq MemberName
    BY NamesRead DEF MemberNames
  <1>2. s \in Seq(MemberName) /\ Len(s) = 4
    BY <1>1
  <1>3. \A i, j \in 1..4 : s[i] = s[j] => i = j
    OBVIOUS
  <1>4. {s[i] : i \in 1..4} = S
    OBVIOUS
  <1> HIDE DEF s, S
  <1>5. Listed(s, S)
    BY <1>2, <1>3, <1>4 DEF Listed
  <1> QED
    BY <1>5 DEF s, S

\* The scalars of json_flexible.
LEMMA FlexibleListed ==
  Listed(<<"transfer-rate-kbit-s", "heads", "sectors-per-track",
           "bytes-per-sector", "cylinders", "medium-rotation-rate-rpm">>,
         {"transfer-rate-kbit-s", "heads", "sectors-per-track",
          "bytes-per-sector", "cylinders", "medium-rotation-rate-rpm"})
  <1> DEFINE s == <<"transfer-rate-kbit-s", "heads", "sectors-per-track",
                    "bytes-per-sector", "cylinders",
                    "medium-rotation-rate-rpm">>
             S == {"transfer-rate-kbit-s", "heads", "sectors-per-track",
                   "bytes-per-sector", "cylinders",
                   "medium-rotation-rate-rpm"}
  <1>1. S \subseteq MemberName
    BY NamesRead DEF MemberNames
  <1>2. s \in Seq(MemberName) /\ Len(s) = 6
    BY <1>1
  <1>3. \A i, j \in 1..6 : s[i] = s[j] => i = j
    OBVIOUS
  <1>4. {s[i] : i \in 1..6} = S
    OBVIOUS
  <1> HIDE DEF s, S
  <1>5. Listed(s, S)
    BY <1>2, <1>3, <1>4 DEF Listed
  <1> QED
    BY <1>5 DEF s, S

\* The scalars of a format descriptor.
LEMMA DescriptorListed ==
  Listed(<<"blocks", "block-size", "descriptor-code">>,
         {"blocks", "block-size", "descriptor-code"})
  <1> DEFINE s == <<"blocks", "block-size", "descriptor-code">>
             S == {"blocks", "block-size", "descriptor-code"}
  <1>1. S \subseteq MemberName
    BY NamesRead DEF MemberNames
  <1>2. s \in Seq(MemberName) /\ Len(s) = 3
    BY <1>1
  <1>3. \A i, j \in 1..3 : s[i] = s[j] => i = j
    OBVIOUS
  <1>4. {s[i] : i \in 1..3} = S
    OBVIOUS
  <1> HIDE DEF s, S
  <1>5. Listed(s, S)
    BY <1>2, <1>3, <1>4 DEF Listed
  <1> QED
    BY <1>5 DEF s, S

\* The scalars of inspect_fields, of the inquiry.
LEMMA InquiryListed ==
  Listed(<<"vendor", "product", "firmware">>,
         {"vendor", "product", "firmware"})
  <1> DEFINE s == <<"vendor", "product", "firmware">>
             S == {"vendor", "product", "firmware"}
  <1>1. S \subseteq MemberName
    BY NamesRead DEF MemberNames
  <1>2. s \in Seq(MemberName) /\ Len(s) = 3
    BY <1>1
  <1>3. \A i, j \in 1..3 : s[i] = s[j] => i = j
    OBVIOUS
  <1>4. {s[i] : i \in 1..3} = S
    OBVIOUS
  <1> HIDE DEF s, S
  <1>5. Listed(s, S)
    BY <1>2, <1>3, <1>4 DEF Listed
  <1> QED
    BY <1>5 DEF s, S

\* The scalars of inspect_fields, of the capacity.
LEMMA CapacityListed ==
  Listed(<<"blocks", "block-size", "bytes">>,
         {"blocks", "block-size", "bytes"})
  <1> DEFINE s == <<"blocks", "block-size", "bytes">>
             S == {"blocks", "block-size", "bytes"}
  <1>1. S \subseteq MemberName
    BY NamesRead DEF MemberNames
  <1>2. s \in Seq(MemberName) /\ Len(s) = 3
    BY <1>1
  <1>3. \A i, j \in 1..3 : s[i] = s[j] => i = j
    OBVIOUS
  <1>4. {s[i] : i \in 1..3} = S
    OBVIOUS
  <1> HIDE DEF s, S
  <1>5. Listed(s, S)
    BY <1>2, <1>3, <1>4 DEF Listed
  <1> QED
    BY <1>5 DEF s, S

\* The scalars of test_1581_fields and result.
LEMMA OutcomeListed ==
  Listed(<<"status", "reason">>,
         {"status", "reason"})
  <1> DEFINE s == <<"status", "reason">>
             S == {"status", "reason"}
  <1>1. S \subseteq MemberName
    BY NamesRead DEF MemberNames
  <1>2. s \in Seq(MemberName) /\ Len(s) = 2
    BY <1>1
  <1>3. \A i, j \in 1..2 : s[i] = s[j] => i = j
    OBVIOUS
  <1>4. {s[i] : i \in 1..2} = S
    OBVIOUS
  <1> HIDE DEF s, S
  <1>5. Listed(s, S)
    BY <1>2, <1>3, <1>4 DEF Listed
  <1> QED
    BY <1>5 DEF s, S

\* The scalars of result, of a controller test.
LEMMA TestListed ==
  Listed(<<"acknowledgement-supplied", "original-parameters-saved",
           "controller-restored", "boundary-lba-9-read",
           "boundary-lba-1599-read", "repeated-reads-match">>,
         {"acknowledgement-supplied", "original-parameters-saved",
          "controller-restored", "boundary-lba-9-read",
          "boundary-lba-1599-read", "repeated-reads-match"})
  <1> DEFINE s == <<"acknowledgement-supplied", "original-parameters-saved",
                    "controller-restored", "boundary-lba-9-read",
                    "boundary-lba-1599-read", "repeated-reads-match">>
             S == {"acknowledgement-supplied", "original-parameters-saved",
                   "controller-restored", "boundary-lba-9-read",
                   "boundary-lba-1599-read", "repeated-reads-match"}
  <1>1. S \subseteq MemberName
    BY NamesRead DEF MemberNames
  <1>2. s \in Seq(MemberName) /\ Len(s) = 6
    BY <1>1
  <1>3. \A i, j \in 1..6 : s[i] = s[j] => i = j
    OBVIOUS
  <1>4. {s[i] : i \in 1..6} = S
    OBVIOUS
  <1> HIDE DEF s, S
  <1>5. Listed(s, S)
    BY <1>2, <1>3, <1>4 DEF Listed
  <1> QED
    BY <1>5 DEF s, S

\* A value fits where there is more room than it needs.
LEMMA ValueMore ==
  ASSUME NEW v, NEW k \in Nat, NEW d \in Nat, k <= d, IsValue(v, k)
  PROVE  IsValue(v, d)
  <1>1. ASSUME NEW q \in ReaderState, Len(q.levels) + d <= MaxDepth
        PROVE  Len(q.levels) + k <= MaxDepth
    <2>1. Len(q.levels) \in Nat
      BY DEF ReaderState
    <2> QED
      BY <1>1, <2>1, MaxDepthAssumption
  <1> QED
    BY <1>1 DEF IsValue

\* One member.
LEMMA FirstMember ==
  ASSUME NEW name \in MemberName, NEW v,
         NEW k \in Nat, NEW d \in Nat, k <= d, IsValue(v, k)
  PROVE  IsMembers(Member(name, v), {name}, d)
  BY ValueMore, MemberIs

\* Members and one member more.
LEMMA MoreMember ==
  ASSUME NEW s, NEW N, NEW name \in MemberName, NEW v,
         NEW k \in Nat, NEW d \in Nat, k <= d,
         IsMembers(s, N, d), name \notin N, IsValue(v, k)
  PROVE  IsMembers(s \o Member(name, v), N \cup {name}, d)
  <1> DEFINE m == Member(name, v)
             M == {name}
  <1>1. IsMembers(m, M, k)
    BY MemberIs
  <1>2. N \cap M = {}
    OBVIOUS
  <1> HIDE DEF m, M
  <1>3. IsMembers(s \o m, N \cup M, d)
    BY <1>1, <1>2, MembersConcat
  <1> QED
    BY <1>3 DEF m, M

\* Members and as many scalar members as are listed.
LEMMA MoreScalars ==
  ASSUME NEW s, NEW N, NEW names, NEW S, NEW token \in {"str", "num"},
         NEW d \in Nat, IsMembers(s, N, d), Listed(names, S), N \cap S = {}
  PROVE  IsMembers(s \o Scalars(names, token), N \cup S, d)
  <1> DEFINE m == Scalars(names, token)
  <1>1. IsMembers(m, S, 0)
    BY ListedAre
  <1> HIDE DEF m
  <1>2. IsMembers(s \o m, N \cup S, d)
    BY <1>1, MembersConcat
  <1> QED
    BY <1>2 DEF m

\* Scalar members first.
LEMMA FirstScalars ==
  ASSUME NEW names, NEW S, NEW token \in {"str", "num"}, NEW d \in Nat,
         Listed(names, S)
  PROVE  IsMembers(Scalars(names, token), S, d)
  <1> DEFINE m == Scalars(names, token)
             e == << >>
             N == {}
  <1>1. IsMembers(m, S, 0) /\ m \in Seq(SoundCall)
    <2>1. IsMembers(m, S, 0)
      BY ListedAre
    <2> QED
      BY <2>1 DEF IsMembers
  <1>2. IsMembers(e, N, d)
    BY NoMembers
  <1>3. e \o m = m /\ N \cup S = S /\ N \cap S = {}
    <2> HIDE DEF m
    <2> QED
      BY <1>1
  <1> HIDE DEF m, e, N
  <1>4. IsMembers(e \o m, N \cup S, d)
    <2>1. 0 \in Nat /\ 0 <= d
      OBVIOUS
    <2>2. IsMembers(e, N, d) /\ IsMembers(m, S, 0) /\ N \cap S = {}
      BY <1>1, <1>2, <1>3
    <2> QED
      BY <2>1, <2>2, MembersConcat
  <1> QED
    BY <1>3, <1>4 DEF m

\* Nothing more.
LEMMA MembersOnly ==
  ASSUME NEW s, NEW N, NEW d \in Nat, IsMembers(s, N, d)
  PROVE  IsMembers(s \o << >>, N, d)
  <1>1. s \o << >> = s
    BY DEF IsMembers
  <1> QED
    BY <1>1

\* json_identifier
LEMMA IdentifierIs ==
  IsValue(json_identifier, 1)
  <1> DEFINE m == Scalars(<<"numeric", "hex">>, "str")
  <1>1. IsMembers(m, {"numeric", "hex"}, 0)
    BY IdentifierListed, FirstScalars
  <1> HIDE DEF m
  <1>2. IsValue(Object(m), 0 + 1)
    BY <1>1, ObjectIs
  <1> QED
    BY <1>2 DEF json_identifier, m

\* json_device_fields
LEMMA DeviceFieldsAre ==
  ASSUME NEW named \in BOOLEAN
  PROVE  IsMembers(json_device_fields(named),
                   {"bsd-name", "name", "usb"}, 2)
  <1> DEFINE
        S == {"manufacturer", "product", "product-revision",
              "known-controller"}
        s == Scalars(<<"manufacturer", "product", "product-revision",
                       "known-controller">>, "str")
        vid == Member("vid", json_identifier)
        pid == vid \o Member("pid", json_identifier)
        rev == pid \o Member("device-revision", json_identifier)
        all == rev \o s
        bsd == Member("bsd-name", Value(IF named THEN "str" ELSE "num"))
        name == bsd \o Scalars(<<"name">>, "str")
        usb == name \o Member("usb", Object(all))
  <1>0. {"vid", "pid", "device-revision", "bsd-name", "name", "usb"}
          \subseteq MemberName
    BY NamesRead DEF MemberNames
  <1>1. IsMembers(vid, {"vid"}, 1)
    BY <1>0, IdentifierIs, FirstMember
  <1> HIDE DEF vid
  <1>2. IsMembers(pid, {"vid"} \cup {"pid"}, 1)
    BY <1>0, <1>1, IdentifierIs, MoreMember
  <1> HIDE DEF pid
  <1>3. IsMembers(rev, {"vid"} \cup {"pid"} \cup {"device-revision"}, 1)
    BY <1>0, <1>2, IdentifierIs, MoreMember
  <1> HIDE DEF rev
  <1>4. IsMembers(all,
          {"vid"} \cup {"pid"} \cup {"device-revision"} \cup S, 1)
    <2>1. ({"vid"} \cup {"pid"} \cup {"device-revision"}) \cap S = {}
      OBVIOUS
    <2> QED
      BY <1>3, <2>1, ProductListed, MoreScalars
  <1> HIDE DEF all
  <1>5. IsValue(Object(all), 2)
    <2>1. IsValue(Object(all), 1 + 1)
      BY <1>4, ObjectIs
    <2> QED
      BY <2>1
  <1>6. IsMembers(bsd, {"bsd-name"}, 2)
    <2> DEFINE t == IF named THEN "str" ELSE "num"
    <2>1. t \in {"str", "num"}
      OBVIOUS
    <2> HIDE DEF t
    <2>2. IsMembers(Member("bsd-name", Value(t)), {"bsd-name"}, 2)
      BY <1>0, <2>1, ScalarIs, FirstMember
    <2> QED
      BY <2>2 DEF t
  <1> HIDE DEF bsd
  <1>7. IsMembers(name, {"bsd-name"} \cup {"name"}, 2)
    <2>1. Scalars(<<"name">>, "str") = Member("name", Value("str"))
      BY <1>0, OneListed
    <2> QED
      BY <1>0, <1>6, <2>1, ScalarIs, MoreMember
  <1> HIDE DEF name
  <1>8. IsMembers(usb, {"bsd-name"} \cup {"name"} \cup {"usb"}, 2)
    BY <1>0, <1>5, <1>7, MoreMember
  <1> HIDE DEF usb
  <1>9. {"bsd-name"} \cup {"name"} \cup {"usb"} = {"bsd-name", "name", "usb"}
    OBVIOUS
  <1>10. json_device_fields(named) = usb
    BY DEF json_device_fields, vid, pid, rev, all, bsd, name, usb
  <1> QED
    BY <1>8, <1>9, <1>10

\* json_media_fields
LEMMA MediaFieldsAre ==
  IsValue(Object(json_media_fields), 2)
  <1> DEFINE
        S == {"present", "external", "removable", "whole", "mounted",
              "capacity-bytes", "block-size"}
        s == Scalars(<<"present", "external", "removable", "whole",
                       "mounted", "capacity-bytes", "block-size">>, "num")
        p == Scalars(<<"raw-path", "readable", "errno">>, "str")
        all == s \o Member("permissions", Object(p))
  <1>0. "permissions" \in MemberName
    BY NamesRead DEF MemberNames
  <1>1. IsMembers(p, {"raw-path", "readable", "errno"}, 0)
    BY PermissionListed, FirstScalars
  <1> HIDE DEF p
  <1>2. IsValue(Object(p), 1)
    <2>1. IsValue(Object(p), 0 + 1)
      BY <1>1, ObjectIs
    <2> QED
      BY <2>1
  <1>3. IsMembers(s, S, 1)
    BY MediumListed, FirstScalars
  <1> HIDE DEF s
  <1>4. IsMembers(all, S \cup {"permissions"}, 1)
    BY <1>0, <1>2, <1>3, MoreMember
  <1> HIDE DEF all
  <1>5. IsValue(Object(all), 1 + 1)
    BY <1>4, ObjectIs
  <1>6. json_media_fields = all
    BY DEF json_media_fields, s, p, all
  <1> QED
    BY <1>5, <1>6

\* json_sense
LEMMA SenseIs ==
  IsValue(json_sense, 1)
  <1> DEFINE m == Scalars(<<"valid", "sense-key", "asc", "ascq">>, "num")
  <1>1. IsMembers(m, {"valid", "sense-key", "asc", "ascq"}, 0)
    BY SenseListed, FirstScalars
  <1> HIDE DEF m
  <1>2. IsValue(Object(m), 0 + 1)
    BY <1>1, ObjectIs
  <1> QED
    BY <1>2 DEF json_sense, m

\* json_flexible
LEMMA FlexibleIs ==
  ASSUME report.items \in Nat, NEW include_changeable \in BOOLEAN
  PROVE  IsValue(json_flexible(include_changeable), 2)
  <1> DEFINE
        S == {"transfer-rate-kbit-s", "heads", "sectors-per-track",
              "bytes-per-sector", "cylinders", "medium-rotation-rate-rpm"}
        s == Scalars(<<"transfer-rate-kbit-s", "heads",
                       "sectors-per-track", "bytes-per-sector",
                       "cylinders", "medium-rotation-rate-rpm">>, "num")
        v == Array(Times(report.items, Value("str")))
        m == IF include_changeable THEN Member("changeable-fields", v)
             ELSE << >>
        all == s \o m
  <1>0. "changeable-fields" \in MemberName
    BY NamesRead DEF MemberNames
  <1>1. IsMembers(s, S, 1)
    BY FlexibleListed, FirstScalars
  <1> HIDE DEF s
  <1>2. IsValue(v, 1)
    <2> DEFINE t == Times(report.items, Value("str"))
    <2>1. IsElements(t, 0)
      BY ScalarIs, TimesIs
    <2> HIDE DEF t
    <2>2. IsValue(Array(t), 0 + 1)
      BY <2>1, ArrayIs
    <2> QED
      BY <2>2 DEF t
  <1> HIDE DEF v
  <1>3. \E N : IsMembers(all, N, 1)
    <2>1. CASE include_changeable
      <3>1. IsMembers(s \o Member("changeable-fields", v),
                      S \cup {"changeable-fields"}, 1)
        BY <1>0, <1>1, <1>2, MoreMember
      <3> QED
        BY <2>1, <3>1
    <2>2. CASE ~include_changeable
      <3>1. IsMembers(s \o << >>, S, 1)
        BY <1>1, MembersOnly
      <3> QED
        BY <2>2, <3>1
    <2> QED
      BY <2>1, <2>2
  <1> HIDE DEF all
  <1>4. IsValue(Object(all), 1 + 1)
    BY <1>3, ObjectIs
  <1>5. json_flexible(include_changeable) = Object(all)
    BY DEF json_flexible, all, m, s, v
  <1> QED
    BY <1>4, <1>5

\* What the emitters need to know of a report.
ReportKnown ==
  /\ report.items \in Nat
  /\ report.named \in BOOLEAN
  /\ report.command \in {"list", "error", "inspect", "test-1581"}

\* Every report gives it.
LEMMA ReportIsKnown ==
  ASSUME report \in Report
  PROVE  ReportKnown
  BY ItemsAssumption DEF Report, ReportKnown

\* The value of the member that json_errors writes.
LEMMA ErrorsAre ==
  \E v : /\ json_errors = Member("errors", v)
         /\ IsValue(v, 3)
  <1> DEFINE
        s == Scalars(<<"message">>, "str")
        m == IF report.sense_valid THEN Member("sense", json_sense)
             ELSE << >>
        all == s \o m
        x == IF report.error # "text" THEN << >> ELSE Object(all)
        v == Array(x)
  <1>0. "message" \in MemberName /\ "sense" \in MemberName
    BY NamesRead DEF MemberNames
  <1>1. IsMembers(s, {"message"}, 1)
    <2>1. s = Member("message", Value("str"))
      BY <1>0, OneListed
    <2> HIDE DEF s
    <2> QED
      BY <1>0, <2>1, ScalarIs, FirstMember
  <1> HIDE DEF s
  <1>2. \E N : IsMembers(all, N, 1)
    <2>1. CASE report.sense_valid
      <3>1. IsMembers(s \o Member("sense", json_sense),
                      {"message"} \cup {"sense"}, 1)
        BY <1>0, <1>1, SenseIs, MoreMember
      <3> QED
        BY <2>1, <3>1
    <2>2. CASE ~report.sense_valid
      <3>1. IsMembers(s \o << >>, {"message"}, 1)
        BY <1>1, MembersOnly
      <3> QED
        BY <2>2, <3>1
    <2> QED
      BY <2>1, <2>2
  <1> HIDE DEF all
  <1>3. IsElements(x, 2)
    <2>1. IsElements(<< >>, 2)
      BY NoElements
    <2>2. IsElements(Object(all), 2)
      <3>1. IsValue(Object(all), 1 + 1)
        BY <1>2, ObjectIs
      <3>2. IsElements(Object(all), 1 + 1)
        BY <3>1, OneElement
      <3> QED
        BY <3>2
    <2> QED
      BY <2>1, <2>2
  <1> HIDE DEF x
  <1>4. IsValue(v, 2 + 1)
    BY <1>3, ArrayIs
  <1>5. json_errors = Member("errors", v)
    BY DEF json_errors, v, x, all, s, m
  <1> HIDE DEF v
  <1> QED
    BY <1>4, <1>5

\* candidate
LEMMA CandidateIs ==
  IsValue(candidate, 3)
  <1> DEFINE
        s == json_device_fields(TRUE)
        v == Object(json_media_fields)
        all == s \o Member("media", v)
  <1>0. "media" \in MemberName
    BY NamesRead DEF MemberNames
  <1>1. IsMembers(s, {"bsd-name", "name", "usb"}, 2)
    BY DeviceFieldsAre
  <1>2. IsValue(v, 2)
    BY MediaFieldsAre
  <1>3. "media" \notin {"bsd-name", "name", "usb"}
    OBVIOUS
  <1> HIDE DEF s, v
  <1>4. IsMembers(all, {"bsd-name", "name", "usb"} \cup {"media"}, 2)
    BY <1>0, <1>1, <1>2, <1>3, MoreMember
  <1> HIDE DEF all
  <1>5. IsValue(Object(all), 2 + 1)
    BY <1>4, ObjectIs
  <1>6. candidate = Object(all)
    BY Zenon DEF candidate, all, s, v
  <1> QED
    BY <1>5, <1>6

\* The members "device" and "media".
LEMMA DeviceAndMediaAre ==
  ASSUME ReportKnown
  PROVE  \E v, u : /\ device_and_media
                        = Member("device", v) \o Member("media", u)
                   /\ IsValue(v, 5) /\ IsValue(u, 5)
  <1>1. CASE report.command = "list"
    <2> DEFINE t == Times(report.items, candidate)
               a == Array(t)
               m == Member("candidates", a)
               v == Object(m)
               s == Scalars(<<"candidate-count">>, "num")
               u == Object(s)
    <2>0. "candidates" \in MemberName /\ "candidate-count" \in MemberName
      BY NamesRead DEF MemberNames
    <2>1. IsElements(t, 3)
      BY CandidateIs, TimesIs DEF ReportKnown
    <2> HIDE DEF t
    <2>2. IsValue(a, 3 + 1)
      BY <2>1, ArrayIs
    <2> HIDE DEF a
    <2>3. IsMembers(m, {"candidates"}, 4)
      <3>1. IsValue(a, 4)
        BY <2>2
      <3> QED
        BY <2>0, <3>1, FirstMember
    <2> HIDE DEF m
    <2>4. IsValue(v, 4 + 1)
      BY <2>3, ObjectIs
    <2>5. IsMembers(s, {"candidate-count"}, 0)
      BY <2>0, OneListed
    <2> HIDE DEF s
    <2>6. IsValue(u, 0 + 1)
      BY <2>5, ObjectIs
    <2> HIDE DEF u, v
    <2>7. IsValue(v, 5) /\ IsValue(u, 5)
      <3>1. IsValue(u, 1)
        BY <2>6
      <3>2. IsValue(u, 5)
        BY <3>1, ValueMore
      <3> QED
        BY <2>4, <3>2
    <2>8. device_and_media = Member("device", v) \o Member("media", u)
      BY <1>1 DEF device_and_media, v, m, a, t, u, s
    <2> QED
      BY <2>7, <2>8
  <1>2. CASE report.command # "list"
    <2> DEFINE s == json_device_fields(report.named)
               v == Object(s)
               u == Object(json_media_fields)
    <2>1. IsMembers(s, {"bsd-name", "name", "usb"}, 2)
      BY DeviceFieldsAre DEF ReportKnown
    <2> HIDE DEF s
    <2>2. IsValue(v, 2 + 1)
      BY <2>1, ObjectIs
    <2>3. IsValue(u, 2)
      BY MediaFieldsAre
    <2> HIDE DEF u, v
    <2>4. IsValue(v, 5) /\ IsValue(u, 5)
      <3>1. IsValue(v, 3)
        BY <2>2
      <3> QED
        BY <2>3, <3>1, ValueMore
    <2>5. device_and_media = Member("device", v) \o Member("media", u)
      BY <1>2 DEF device_and_media, v, s, u
    <2> QED
      BY <2>4, <2>5
  <1> QED
    BY <1>1, <1>2

\* inspect_fields
LEMMA InspectFieldsAre ==
  ASSUME ReportKnown
  PROVE  \E N : IsMembers(inspect_fields, N, 2)
  <1> DEFINE
        inq == Scalars(<<"vendor", "product", "firmware">>, "str")
        cap == Scalars(<<"blocks", "block-size", "bytes">>, "num")
        des == Scalars(<<"blocks", "block-size", "descriptor-code">>, "num")
        arr == Array(Times(report.items, descriptor))
        m1 == Member("inquiry", Object(inq))
        m2 == m1 \o Scalars(<<"test-unit-ready">>, "num")
        m3 == m2 \o Member("capacity", Object(cap))
        m4 == m3 \o Member("format-capacities", arr)
        flex == json_flexible(TRUE)
        m5 == m4 \o Member("flexible-disk", flex)
        m6 == m5 \o Member("sense", json_sense)
  <1>0. {"inquiry", "test-unit-ready", "capacity", "format-capacities",
         "flexible-disk", "sense"} \subseteq MemberName
    BY NamesRead DEF MemberNames
  <1>1. IsValue(Object(inq), 1) /\ IsValue(Object(cap), 1)
        /\ IsValue(Object(des), 1)
    <2>1. /\ IsMembers(inq, {"vendor", "product", "firmware"}, 0)
          /\ IsMembers(cap, {"blocks", "block-size", "bytes"}, 0)
          /\ IsMembers(des, {"blocks", "block-size", "descriptor-code"}, 0)
      BY InquiryListed, CapacityListed, DescriptorListed, FirstScalars
    <2> HIDE DEF inq, cap, des
    <2>2. IsValue(Object(inq), 0 + 1) /\ IsValue(Object(cap), 0 + 1)
          /\ IsValue(Object(des), 0 + 1)
      BY <2>1, ObjectIs
    <2> QED
      BY <2>2
  <1>2. IsValue(arr, 2)
    <2> DEFINE t == Times(report.items, descriptor)
    <2>1. IsValue(descriptor, 1)
      BY <1>1 DEF descriptor
    <2>2. IsElements(t, 1)
      BY <2>1, TimesIs DEF ReportKnown
    <2> HIDE DEF t
    <2>3. IsValue(Array(t), 1 + 1)
      BY <2>2, ArrayIs
    <2> QED
      BY <2>3 DEF t
  <1> HIDE DEF inq, cap, des, arr
  <1>3. IsMembers(m1, {"inquiry"}, 2)
    BY <1>0, <1>1, FirstMember
  <1> HIDE DEF m1
  <1>4. IsMembers(m2, {"inquiry"} \cup {"test-unit-ready"}, 2)
    <2>1. Scalars(<<"test-unit-ready">>, "num")
            = Member("test-unit-ready", Value("num"))
      BY <1>0, OneListed
    <2> QED
      BY <1>0, <1>3, <2>1, ScalarIs, MoreMember
  <1> HIDE DEF m2
  <1>5. IsMembers(m3, {"inquiry"} \cup {"test-unit-ready"}
                        \cup {"capacity"}, 2)
    BY <1>0, <1>1, <1>4, MoreMember
  <1> HIDE DEF m3
  <1>6. IsMembers(m4, {"inquiry"} \cup {"test-unit-ready"}
                        \cup {"capacity"} \cup {"format-capacities"}, 2)
    BY <1>0, <1>2, <1>5, MoreMember
  <1> HIDE DEF m4
  <1>7. IsMembers(m5, {"inquiry"} \cup {"test-unit-ready"}
                        \cup {"capacity"} \cup {"format-capacities"}
                        \cup {"flexible-disk"}, 2)
    <2>1. IsValue(flex, 2)
      BY FlexibleIs DEF ReportKnown
    <2> HIDE DEF flex
    <2> QED
      BY <1>0, <1>6, <2>1, MoreMember
  <1> HIDE DEF m5
  <1>8. IsMembers(m6, {"inquiry"} \cup {"test-unit-ready"}
                        \cup {"capacity"} \cup {"format-capacities"}
                        \cup {"flexible-disk"} \cup {"sense"}, 2)
    BY <1>0, <1>7, SenseIs, MoreMember
  <1>9. inspect_fields = m6
    BY Zenon
    DEF inspect_fields, m1, m2, m3, m4, m5, m6, inq, cap, arr, flex
  <1> QED
    BY <1>8, <1>9

\* test_1581_fields
LEMMA TestFieldsAre ==
  ASSUME ReportKnown
  PROVE  \E N : IsMembers(test_1581_fields, N, 2)
  <1> DEFINE
        long == json_flexible(TRUE)
        short == json_flexible(FALSE)
        m1 == Member("original-flexible-disk", long)
        m2 == m1 \o Member("requested-flexible-disk", short)
        m3 == m2 \o Member("accepted-flexible-disk", short)
        m4 == m3 \o Member("sense", json_sense)
  <1>0. {"original-flexible-disk", "requested-flexible-disk",
         "accepted-flexible-disk", "sense"} \subseteq MemberName
    BY NamesRead DEF MemberNames
  <1>1. IsValue(long, 2) /\ IsValue(short, 2)
    BY FlexibleIs DEF ReportKnown
  <1> HIDE DEF long, short
  <1>2. IsMembers(m1, {"original-flexible-disk"}, 2)
    BY <1>0, <1>1, FirstMember
  <1> HIDE DEF m1
  <1>3. IsMembers(m2, {"original-flexible-disk"}
                        \cup {"requested-flexible-disk"}, 2)
    BY <1>0, <1>1, <1>2, MoreMember
  <1> HIDE DEF m2
  <1>4. IsMembers(m3, {"original-flexible-disk"}
                        \cup {"requested-flexible-disk"}
                        \cup {"accepted-flexible-disk"}, 2)
    BY <1>0, <1>1, <1>3, MoreMember
  <1> HIDE DEF m3
  <1>5. IsMembers(m4, {"original-flexible-disk"}
                        \cup {"requested-flexible-disk"}
                        \cup {"accepted-flexible-disk"} \cup {"sense"}, 2)
    BY <1>0, <1>4, SenseIs, MoreMember
  <1>6. test_1581_fields = m4
    BY Zenon DEF test_1581_fields, m1, m2, m3, m4, long, short
  <1> QED
    BY <1>5, <1>6

\* The member "ufi".
LEMMA UfiIs ==
  ASSUME ReportKnown
  PROVE  \E v : ufi = Member("ufi", v) /\ IsValue(v, 5)
  <1> DEFINE
        s == CASE report.command = "inspect" -> inspect_fields
               [] report.command = "test-1581" -> test_1581_fields
               [] OTHER -> << >>
        v == Object(s)
  <1>1. \E N : IsMembers(s, N, 2)
    <2>1. IsMembers(<< >>, {}, 2)
      BY NoMembers
    <2>2. s \in {inspect_fields, test_1581_fields, << >>}
      OBVIOUS
    <2> HIDE DEF s
    <2> QED
      BY <2>1, <2>2, InspectFieldsAre, TestFieldsAre
  <1> HIDE DEF s
  <1>2. IsValue(v, 2 + 1)
    BY <1>1, ObjectIs
  <1> HIDE DEF v
  <1>3. IsValue(v, 3)
    BY <1>2
  <1>4. IsValue(v, 5)
    BY <1>3, ValueMore
  <1>5. ufi = Member("ufi", v)
    BY DEF ufi, v, s
  <1> QED
    BY <1>4, <1>5

\* The member "result".
LEMMA ResultIs ==
  \E v : result = Member("result", v) /\ IsValue(v, 5)
  <1> DEFINE
        s == Scalars(<<"status", "reason">>, "str")
        S == {"status", "reason"}
        t == Scalars(<<"acknowledgement-supplied",
                       "original-parameters-saved", "controller-restored",
                       "boundary-lba-9-read", "boundary-lba-1599-read",
                       "repeated-reads-match">>, "num")
        T == {"acknowledgement-supplied", "original-parameters-saved",
              "controller-restored", "boundary-lba-9-read",
              "boundary-lba-1599-read", "repeated-reads-match"}
        k == IF report.output /\ report.error = "null"
             THEN "str" ELSE "num"
        m == t \o Member("output", Value(k))
        x == IF report.command # "test-1581" THEN << >> ELSE m
        all == s \o x
        v == Object(all)
  <1>0. "output" \in MemberName
    BY NamesRead DEF MemberNames
  <1>1. IsMembers(s, S, 0) /\ IsMembers(t, T, 0)
    BY OutcomeListed, TestListed, FirstScalars
  <1>2. S \cap (T \cup {"output"}) = {} /\ "output" \notin T
    OBVIOUS
  <1>3. IsValue(Value(k), 0)
    <2>1. k \in {"str", "num"}
      OBVIOUS
    <2> HIDE DEF k
    <2> QED
      BY <2>1, ScalarIs
  <1> HIDE DEF s, S, t, T, k
  <1>4. IsMembers(m, T \cup {"output"}, 0)
    BY <1>0, <1>1, <1>2, <1>3, MoreMember
  <1> HIDE DEF m
  <1>5. \E N : IsMembers(all, N, 0)
    <2>1. CASE report.command = "test-1581"
      <3> DEFINE M == T \cup {"output"}
      <3> HIDE DEF M
      <3>1. IsMembers(s, S, 0) /\ IsMembers(m, M, 0) /\ S \cap M = {}
        BY <1>1, <1>2, <1>4 DEF M
      <3>2. 0 \in Nat /\ 0 <= 0
        OBVIOUS
      <3>3. IsMembers(s \o m, S \cup M, 0)
        BY <3>1, <3>2, MembersConcat
      <3> QED
        BY <2>1, <3>3
    <2>2. CASE report.command # "test-1581"
      <3>1. IsMembers(s \o << >>, S, 0)
        BY <1>1, MembersOnly
      <3> QED
        BY <2>2, <3>1
    <2> QED
      BY <2>1, <2>2
  <1> HIDE DEF all
  <1>6. IsValue(v, 0 + 1)
    BY <1>5, ObjectIs
  <1> HIDE DEF v
  <1>7. IsValue(v, 1)
    BY <1>6
  <1>8. IsValue(v, 5)
    BY <1>7, ValueMore
  <1>9. result = Member("result", v)
    BY DEF result, v, all, x, m, s, t, k
  <1> QED
    BY <1>8, <1>9
-----------------------------------------------------------------------------
(* The document part by part                                               *)

\* One call of a script on a writer that has not failed.
LEMMA ApplyObeys ==
  ASSUME NEW w \in WriterState, ~w.failed, Agree(w, Reading(w.text)),
         Len(w.stack) <= MaxDepth, NEW c \in SoundCall
  PROVE  Obeys(w, Apply(w, c), c)
  <1>1. /\ c = IsCall(c.op, c.arg) /\ c.arg \in Token
        /\ c.op \in {"key", "value", "open", "close"}
        /\ Sound(c)
    BY DEF SoundCall, ScriptCall, IsCall
  <1>2. CASE c.op = "key"
    <2>1. c.arg \notin Punctuation \cup {"num"}
      BY <1>1, <1>2 DEF Sound
    <2>2. Obeys(w, json_key(w, FALSE, c.arg), IsCall("key", c.arg))
      BY <1>1, <2>1, KeyObeys
    <2>3. Apply(w, c) = json_key(w, FALSE, c.arg)
      BY <1>2, Zenon DEF Apply
    <2> QED
      BY <1>1, <1>2, <2>2, <2>3, Zenon
  <1>3. CASE c.op = "value"
    <2>1. c.arg \notin Punctuation
      BY <1>1, <1>3 DEF Sound
    <2>2. Obeys(w, json_value(w, FALSE, c.arg), IsCall("value", c.arg))
      BY <1>1, <2>1, ValueObeys
    <2>3. Apply(w, c) = json_value(w, FALSE, c.arg)
      <3>1. c.op # "key"
        BY <1>3
      <3> QED
        BY <1>3, <3>1, Zenon DEF Apply
    <2> QED
      BY <1>1, <1>3, <2>2, <2>3, Zenon
  <1>4. CASE c.op = "open"
    <2>1. c.arg \in {"begin-object", "begin-array"}
      BY <1>1, <1>4 DEF Sound
    <2>2. /\ Obeys(w, begin_container(w, "begin-object", "end-object"),
                   IsCall("open", "begin-object"))
          /\ Obeys(w, begin_container(w, "begin-array", "end-array"),
                   IsCall("open", "begin-array"))
      BY BeginObeys
    <2>3. Apply(w, c) = IF c.arg = "begin-object"
                        THEN begin_container(w, "begin-object", "end-object")
                        ELSE begin_container(w, "begin-array", "end-array")
      BY <1>4 DEF Apply, begin_object, begin_array
    <2> QED
      BY <1>1, <1>4, <2>1, <2>2, <2>3
  <1>5. CASE c.op = "close"
    <2>1. c.arg \in {"end-object", "end-array"}
      BY <1>1, <1>5 DEF Sound
    <2>2. Obeys(w, end_container(w, c.arg), IsCall("close", c.arg))
      BY <1>1, <2>1, EndObeys
    <2>3. Apply(w, c) = end_container(w, c.arg)
      BY <1>5 DEF Apply
    <2> QED
      BY <1>1, <1>5, <2>2, <2>3, Zenon
  <1> QED
    BY <1>1, <1>2, <1>3, <1>4, <1>5

\* One call of a script on a writer that has failed.
LEMMA ApplyFallen ==
  ASSUME NEW w \in WriterState, w.failed, NEW c \in SoundCall
  PROVE  Fallen(w, Apply(w, c))
  <1>1. /\ c.op \in {"key", "value", "open", "close"}
    BY DEF SoundCall, ScriptCall
  <1>2. /\ Fallen(w, json_key(w, FALSE, c.arg))
        /\ Fallen(w, json_value(w, FALSE, c.arg))
        /\ Fallen(w, begin_container(w, "begin-object", "end-object"))
        /\ Fallen(w, begin_container(w, "begin-array", "end-array"))
        /\ Fallen(w, end_container(w, c.arg))
    BY CallFallen
  <1> DEFINE v1 == json_key(w, FALSE, c.arg)
             v2 == json_value(w, FALSE, c.arg)
             v3 == begin_container(w, "begin-object", "end-object")
             v4 == begin_container(w, "begin-array", "end-array")
             v5 == end_container(w, c.arg)
  <1>3. Apply(w, c) \in {v1, v2, v3, v4, v5}
    <2>1. Apply(w, c) = CASE c.op = "key" -> v1
                          [] c.op = "value" -> v2
                          [] c.op = "open" -> IF c.arg = "begin-object"
                                              THEN v3 ELSE v4
                          [] c.op = "close" -> v5
      BY Zenon DEF Apply, begin_object, begin_array
    <2> HIDE DEF v1, v2, v3, v4, v5
    <2> QED
      BY <1>1, <2>1
  <1>4. Fallen(w, v1) /\ Fallen(w, v2) /\ Fallen(w, v3) /\ Fallen(w, v4)
        /\ Fallen(w, v5)
    BY <1>2, Zenon
  <1> HIDE DEF v1, v2, v3, v4, v5
  <1> QED
    BY <1>3, <1>4
-----------------------------------------------------------------------------
\* The names of the document's members, in their order.
LEMMA TopNames ==
  /\ Append(<<"schema-version">>, "command")
       = <<"schema-version", "command">>
  /\ Append(<<"schema-version", "command">>, "device")
       = <<"schema-version", "command", "device">>
  /\ Append(<<"schema-version", "command", "device">>, "media")
       = <<"schema-version", "command", "device", "media">>
  /\ Append(<<"schema-version", "command", "device", "media">>, "ufi")
       = <<"schema-version", "command", "device", "media", "ufi">>
  /\ Append(<<"schema-version", "command", "device", "media", "ufi">>,
            "result")
       = <<"schema-version", "command", "device", "media", "ufi", "result">>
  /\ Append(<<"schema-version", "command", "device", "media", "ufi",
              "result">>, "errors")
       = TopMembers
  <1> DEFINE S == {"schema-version", "command", "device", "media", "ufi",
                   "result", "errors"}
             s1 == <<"schema-version">>
             s2 == <<"schema-version", "command">>
             s3 == <<"schema-version", "command", "device">>
             s4 == <<"schema-version", "command", "device", "media">>
             s5 == <<"schema-version", "command", "device", "media", "ufi">>
             s6 == <<"schema-version", "command", "device", "media", "ufi",
                     "result">>
             s7 == <<"schema-version", "command", "device", "media", "ufi",
                     "result", "errors">>
             With(s, x, t) == /\ s \in Seq(S) /\ t \in Seq(S) /\ x \in S
                              /\ Len(t) = Len(s) + 1
                              /\ t[Len(s) + 1] = x
                              /\ \A i \in 1..Len(s) : t[i] = s[i]
  <1>1. With(s1, "command", s2)
    OBVIOUS
  <1>2. With(s2, "device", s3)
    OBVIOUS
  <1>3. With(s3, "media", s4)
    OBVIOUS
  <1>4. With(s4, "ufi", s5)
    OBVIOUS
  <1>5. With(s5, "result", s6)
    OBVIOUS
  <1>6. With(s6, "errors", s7)
    OBVIOUS
  <1> HIDE DEF S, s1, s2, s3, s4, s5, s6, s7
  <1>7. \A s, x, t : With(s, x, t) => Append(s, x) = t
    BY AppendIs
  <1> HIDE DEF With
  <1>8. /\ Append(s1, "command") = s2 /\ Append(s2, "device") = s3
        /\ Append(s3, "media") = s4 /\ Append(s4, "ufi") = s5
        /\ Append(s5, "result") = s6 /\ Append(s6, "errors") = s7
    BY <1>1, <1>2, <1>3, <1>4, <1>5, <1>6, <1>7
  <1> QED
    BY <1>8, Zenon DEF s1, s2, s3, s4, s5, s6, s7, TopMembers

\* In the outermost object, after the members named in N, whose set is S.
OnTop(q, N, S) ==
  /\ q \in ReaderState
  /\ Len(q.levels) = 1
  /\ q.levels[1].close = "end-object"
  /\ q.levels[1].names = S
  /\ q.expects \in {"member", "more"}
  /\ q.root = N
  /\ q.unique

\* One member more of the document.
LEMMA TopMember ==
  ASSUME NEW q, NEW N, NEW S, OnTop(q, N, S),
         NEW name \in MemberName, name \notin S, NEW v, IsValue(v, 5)
  PROVE  /\ Member(name, v) \in Seq(SoundCall)
         /\ OnTop(Run(q, Member(name, v)), Append(N, name), S \cup {name})
  <1> DEFINE m == Member(name, v)
             e == Run(q, m)
             M == {name}
  <1>1. IsMembers(m, M, 5)
    BY MemberIs
  <1>2. m \in Seq(SoundCall)
    BY <1>1 DEF IsMembers
  <1>3. Takes(q, {name}, 5)
    <2>1. q.levels # << >> /\ Innermost(q) = q.levels[1]
      BY EmptySeq DEF OnTop, Innermost
    <2>2. Len(q.levels) + 5 <= MaxDepth
      BY DepthAssumption, MaxDepthAssumption DEF OnTop
    <2> QED
      BY <2>1, <2>2 DEF OnTop, Takes
  <1>4. /\ Extended(q, e, {name})
        /\ e.root = IF Len(q.levels) = 1 THEN Append(q.root, name) ELSE q.root
    BY <1>3, MemberRead DEF OnTop
  <1> HIDE DEF e
  <1>5. OnTop(e, Append(N, name), S \cup {name})
    BY <1>4 DEF OnTop, Extended
  <1> QED
    BY <1>2, <1>5 DEF e

\* The document is closed.
Closed(q) ==
  /\ q.levels = << >> /\ q.expects = "more"
  /\ q.root = TopMembers /\ q.unique

\* Where a reader stands after each part of the document.
Goal(part, q) ==
  CASE part = "top" ->
         OnTop(q, <<"schema-version", "command">>,
               {"schema-version", "command"})
    [] part = "device" ->
         OnTop(q, <<"schema-version", "command", "device", "media">>,
               {"schema-version", "command", "device", "media"})
    [] part = "ufi" ->
         OnTop(q, <<"schema-version", "command", "device", "media", "ufi">>,
               {"schema-version", "command", "device", "media", "ufi"})
    [] part = "result" ->
         OnTop(q, <<"schema-version", "command", "device", "media", "ufi",
                    "result">>,
               {"schema-version", "command", "device", "media", "ufi",
                "result"})
    [] OTHER -> Closed(q)

\* json_top
LEMMA TopGoal ==
  /\ json_top \in Seq(SoundCall)
  /\ Goal("top", Run(Unread, json_top))
  <1> DEFINE
        c == [op |-> "open", arg |-> "begin-object"]
        x == Enter(Unread, "end-object", "member")
        s == Scalars(<<"name">>, "str")
        v == Object(s)
        m1 == Member("schema-version", Value("num"))
        m2 == Member("command", v)
        e1 == Run(x, m1)
        e2 == Run(e1, m2)
        empty == << >>
  <1>0. {"name", "schema-version", "command"} \subseteq MemberName
    BY NamesRead DEF MemberNames
  <1>1. c \in SoundCall
    BY TokenAssumption DEF SoundCall, ScriptCall, Sound, Punctuation
  <1>2. Unread \in ReaderState
    BY DEF Unread, ReaderState, Expected
  <1>3. CallOn(Unread, c) = x /\ x \in ReaderState
    <2>1. Fits(Unread, c)
      BY MaxDepthAssumption DEF Fits, MayPut, WantsValue, Unread
    <2>2. CallOn(Unread, c) = x
      BY <2>1 DEF CallOn, Led
    <2> HIDE DEF x, c
    <2> QED
      BY <1>1, <1>2, <2>2, CallRead
  <1>4. OnTop(x, empty, {})
    <2> DEFINE level == [close |-> "end-object", names |-> {}]
    <2>1. x.levels = <<level>> /\ x.expects = "member" /\ x.root = << >>
          /\ x.unique
      BY DEF Enter, Unread
    <2>2. Len(<<level>>) = 1 /\ <<level>>[1] = level
      OBVIOUS
    <2> HIDE DEF x
    <2> QED
      BY <1>3, <2>1, <2>2 DEF OnTop
  <1>5. IsValue(v, 5)
    <2>1. IsMembers(s, {"name"}, 0)
      BY <1>0, OneListed
    <2> HIDE DEF s
    <2>2. IsValue(v, 0 + 1)
      BY <2>1, ObjectIs
    <2> HIDE DEF v
    <2>3. IsValue(v, 1)
      BY <2>2
    <2> QED
      BY <2>3, ValueMore
  <1>6. IsValue(Value("num"), 5)
    BY ScalarIs, ValueMore
  <1> HIDE DEF x, v
  <1>7. m1 \in Seq(SoundCall)
        /\ OnTop(e1, Append(empty, "schema-version"), {"schema-version"})
    <2> HIDE DEF empty
    <2>1. m1 \in Seq(SoundCall)
          /\ OnTop(e1, Append(empty, "schema-version"),
                   {} \cup {"schema-version"})
      BY <1>0, <1>4, <1>6, TopMember
    <2>2. {} \cup {"schema-version"} = {"schema-version"}
      OBVIOUS
    <2> HIDE DEF e1, m1
    <2> QED
      BY <2>1, <2>2
  <1> HIDE DEF m1, e1
  <1> DEFINE one == Append(empty, "schema-version")
  <1> HIDE DEF one
  <1>8. m2 \in Seq(SoundCall)
        /\ OnTop(e2, Append(one, "command"),
                 {"schema-version"} \cup {"command"})
    BY <1>0, <1>5, <1>7, TopMember DEF one
  <1>9. /\ Append(one, "command") = <<"schema-version", "command">>
        /\ {"schema-version"} \cup {"command"}
             = {"schema-version", "command"}
    <2>1. one = <<"schema-version">>
      BY DEF one
    <2>2. Append(one, "command") = <<"schema-version", "command">>
      BY <2>1, TopNames, Zenon
    <2>3. {"schema-version"} \cup {"command"}
             = {"schema-version", "command"}
      OBVIOUS
    <2> QED
      BY <2>2, <2>3, Zenon
  <1> HIDE DEF m2, e2, c
  <1>10. json_top = <<c>> \o m1 \o m2
    <2>1. Scalars(<<"schema-version">>, "num") = m1
      BY <1>0, OneListed DEF m1
    <2> QED
      BY <2>1, Zenon DEF json_top, Open, m1, m2, v, s, c
  <1>11. /\ <<c>> \o m1 \o m2 \in Seq(SoundCall)
         /\ Run(Unread, <<c>> \o m1 \o m2) = e2
    <2> DEFINE u == <<c>>
               um == u \o m1
    <2>1. u \in Seq(SoundCall) /\ Run(Unread, u) = x
      BY <1>1, <1>2, <1>3, RunOne
    <2> HIDE DEF u
    <2>2. um \in Seq(SoundCall) /\ Run(Unread, um) = e1
      BY <1>2, <1>7, <2>1, RunConcat DEF e1
    <2> HIDE DEF um
    <2>3. um \o m2 \in Seq(SoundCall) /\ Run(Unread, um \o m2) = e2
      BY <1>2, <1>8, <2>2, RunConcat DEF e2
    <2> QED
      BY <2>3 DEF um, u
  <1> QED
    BY <1>8, <1>9, <1>10, <1>11 DEF Goal

\* The calls of every part are those that callers make.
LEMMA CallsSound ==
  ASSUME ReportKnown, NEW part \in DOMAIN Sections
  PROVE  Calls(Sections[part]) \in Seq(SoundCall)
  <1>0. {"device", "media", "ufi", "result", "errors"} \subseteq MemberName
    BY NamesRead DEF MemberNames
  <1>1. ASSUME NEW name \in MemberName, NEW v, IsValue(v, 5)
        PROVE  Member(name, v) \in Seq(SoundCall)
    <2>1. IsMembers(Member(name, v), {name}, 5)
      BY <1>1, MemberIs
    <2> QED
      BY <2>1 DEF IsMembers
  <1>2. device_and_media \in Seq(SoundCall)
    <2>1. PICK v, u : /\ device_and_media
                           = Member("device", v) \o Member("media", u)
                      /\ IsValue(v, 5) /\ IsValue(u, 5)
      BY DeviceAndMediaAre
    <2> DEFINE m == Member("device", v)
               k == Member("media", u)
    <2>2. m \in Seq(SoundCall) /\ k \in Seq(SoundCall)
      BY <1>0, <1>1, <2>1
    <2> HIDE DEF m, k
    <2>3. m \o k \in Seq(SoundCall)
      BY <2>2
    <2> QED
      BY <2>1, <2>3 DEF m, k
  <1>3. ufi \in Seq(SoundCall) /\ result \in Seq(SoundCall)
    BY <1>0, <1>1, UfiIs, ResultIs
  <1>4. json_errors \o Close("end-object") \in Seq(SoundCall)
    <2> DEFINE c == [op |-> "close", arg |-> "end-object"]
    <2>1. PICK v : json_errors = Member("errors", v) /\ IsValue(v, 3)
      BY ErrorsAre
    <2>2. IsValue(v, 5)
      BY <2>1, ValueMore
    <2>3. json_errors \in Seq(SoundCall)
      BY <1>0, <1>1, <2>1, <2>2
    <2>4. c \in SoundCall
      BY TokenAssumption DEF SoundCall, ScriptCall, Sound, Punctuation
    <2> HIDE DEF c
    <2>5. json_errors \o <<c>> \in Seq(SoundCall)
      BY <2>3, <2>4
    <2> QED
      BY <2>5 DEF Close, c
  <1>5. << >> \in Seq(SoundCall)
    OBVIOUS
  <1> QED
    BY <1>2, <1>3, <1>4, <1>5 DEF Sections, Calls

\* Every other part, from where the one before it ended.
LEMMA NextGoal ==
  ASSUME ReportKnown, NEW part \in DOMAIN Sections, NEW q \in ReaderState,
         Goal(part, q)
  PROVE  Goal(Sections[part], Run(q, Calls(Sections[part])))
  <1>0. {"device", "media", "ufi", "result", "errors"} \subseteq MemberName
    BY NamesRead DEF MemberNames
  <1>1. CASE part = "top"
    <2> DEFINE N == <<"schema-version", "command">>
               S == {"schema-version", "command"}
    <2>1. OnTop(q, N, S)
      BY <1>1 DEF Goal
    <2>2. PICK v, u : /\ device_and_media
                           = Member("device", v) \o Member("media", u)
                      /\ IsValue(v, 5) /\ IsValue(u, 5)
      BY DeviceAndMediaAre
    <2> DEFINE m == Member("device", v)
               k == Member("media", u)
               e == Run(q, m)
               f == Run(e, k)
               M == Append(N, "device")
               T == S \cup {"device"}
    <2>3. "device" \notin S /\ "media" \notin T
      OBVIOUS
    <2>4. /\ Append(M, "media")
               = <<"schema-version", "command", "device", "media">>
          /\ T \cup {"media"}
               = {"schema-version", "command", "device", "media"}
      <3>1. T \cup {"media"}
               = {"schema-version", "command", "device", "media"}
        OBVIOUS
      <3>2. Append(M, "media")
               = <<"schema-version", "command", "device", "media">>
        BY TopNames, Zenon
      <3> QED
        BY <3>1, <3>2, Zenon
    <2> HIDE DEF N, S
    <2>5. m \in Seq(SoundCall) /\ OnTop(e, M, T)
      BY <1>0, <2>1, <2>2, <2>3, TopMember
    <2> HIDE DEF m, e, M, T
    <2>6. k \in Seq(SoundCall) /\ OnTop(f, Append(M, "media"), T \cup {"media"})
      BY <1>0, <2>2, <2>3, <2>5, TopMember
    <2> HIDE DEF k, f
    <2>7. m \o k \in Seq(SoundCall) /\ Run(q, m \o k) = f
      BY <2>5, <2>6, RunConcat DEF e, f
    <2>8. Sections[part] = "device" /\ Calls("device") = m \o k
      BY <1>1, <2>2 DEF Sections, Calls, m, k
    <2> QED
      BY <2>4, <2>6, <2>7, <2>8 DEF Goal
  <1>2. CASE part = "device"
    <2> DEFINE N == <<"schema-version", "command", "device", "media">>
               S == {"schema-version", "command", "device", "media"}
    <2>1. OnTop(q, N, S)
      BY <1>2 DEF Goal
    <2>2. PICK v : ufi = Member("ufi", v) /\ IsValue(v, 5)
      BY UfiIs
    <2>3. "ufi" \notin S
      OBVIOUS
    <2>4. /\ Append(N, "ufi")
               = <<"schema-version", "command", "device", "media", "ufi">>
          /\ S \cup {"ufi"}
               = {"schema-version", "command", "device", "media", "ufi"}
      <3>1. S \cup {"ufi"}
               = {"schema-version", "command", "device", "media", "ufi"}
        OBVIOUS
      <3> QED
        BY <3>1, TopNames, Zenon
    <2> HIDE DEF N, S
    <2>5. ufi \in Seq(SoundCall)
          /\ OnTop(Run(q, ufi), Append(N, "ufi"), S \cup {"ufi"})
      BY <1>0, <2>1, <2>2, <2>3, TopMember
    <2>6. Sections[part] = "ufi" /\ Calls("ufi") = ufi
      BY <1>2 DEF Sections, Calls
    <2> QED
      BY <2>4, <2>5, <2>6 DEF Goal
  <1>3. CASE part = "ufi"
    <2> DEFINE
          N == <<"schema-version", "command", "device", "media", "ufi">>
          S == {"schema-version", "command", "device", "media", "ufi"}
    <2>1. OnTop(q, N, S)
      BY <1>3 DEF Goal
    <2>2. PICK v : result = Member("result", v) /\ IsValue(v, 5)
      BY ResultIs
    <2>3. "result" \notin S
      OBVIOUS
    <2>4. /\ Append(N, "result")
               = <<"schema-version", "command", "device", "media", "ufi",
                   "result">>
          /\ S \cup {"result"}
               = {"schema-version", "command", "device", "media", "ufi",
                  "result"}
      <3>1. S \cup {"result"}
               = {"schema-version", "command", "device", "media", "ufi",
                  "result"}
        OBVIOUS
      <3> QED
        BY <3>1, TopNames, Zenon
    <2> HIDE DEF N, S
    <2>5. result \in Seq(SoundCall)
          /\ OnTop(Run(q, result), Append(N, "result"), S \cup {"result"})
      BY <1>0, <2>1, <2>2, <2>3, TopMember
    <2>6. Sections[part] = "result" /\ Calls("result") = result
      BY <1>3 DEF Sections, Calls
    <2> QED
      BY <2>4, <2>5, <2>6 DEF Goal
  <1>4. CASE part = "result"
    <2> DEFINE
          N == <<"schema-version", "command", "device", "media", "ufi",
                 "result">>
          S == {"schema-version", "command", "device", "media", "ufi",
                "result"}
          c == [op |-> "close", arg |-> "end-object"]
    <2>1. OnTop(q, N, S)
      BY <1>4 DEF Goal
    <2>2. PICK v : json_errors = Member("errors", v) /\ IsValue(v, 3)
      BY ErrorsAre
    <2>3. "errors" \notin S /\ IsValue(v, 5)
      BY <2>2, ValueMore
    <2>4. Append(N, "errors") = TopMembers
      BY TopNames, Zenon
    <2> DEFINE m == Member("errors", v)
               e == Run(q, m)
    <2> HIDE DEF N, S
    <2>5. m \in Seq(SoundCall)
          /\ OnTop(e, Append(N, "errors"), S \cup {"errors"})
      BY <1>0, <2>1, <2>3, TopMember
    <2> HIDE DEF m, e
    <2>6. c \in SoundCall
      BY TokenAssumption DEF SoundCall, ScriptCall, Sound, Punctuation
    <2>7. CallOn(e, c) = Leave(e)
      <3>1. e.levels # << >> /\ Innermost(e).close = "end-object"
            /\ e.expects \in {"member", "more"}
        BY <2>5, EmptySeq DEF OnTop, Innermost
      <3>2. MayLeave(e, "end-object")
        BY <3>1 DEF MayLeave
      <3> QED
        BY <3>2 DEF CallOn, Fits, Led
    <2>8. Closed(Leave(e))
      <3>1. e \in ReaderState /\ Len(e.levels) = 1 /\ e.root = TopMembers
            /\ e.unique
        BY <2>4, <2>5 DEF OnTop
      <3>2. SubSeq(e.levels, 1, Len(e.levels) - 1) = << >>
        BY <3>1 DEF ReaderState
      <3> QED
        BY <3>1, <3>2 DEF Leave, Closed, ReaderState
    <2>9. m \o <<c>> \in Seq(SoundCall) /\ Run(q, m \o <<c>>) = Leave(e)
      <3> DEFINE u == <<c>>
      <3>1. e \in ReaderState
        BY <2>5 DEF OnTop
      <3>2. u \in Seq(SoundCall) /\ Run(e, u) = Leave(e)
        <4> HIDE DEF c
        <4> QED
          BY <2>6, <2>7, <3>1, RunOne
      <3> HIDE DEF u
      <3>3. m \o u \in Seq(SoundCall) /\ Run(q, m \o u) = Run(e, u)
        BY <2>5, <3>2, RunConcat DEF e
      <3> QED
        BY <3>2, <3>3 DEF u
    <2>10. Sections[part] = "errors" /\ Calls("errors") = m \o <<c>>
      <3>1. Calls("errors") = json_errors \o Close("end-object")
        BY DEF Calls
      <3> QED
        BY <1>4, <2>2, <3>1, Zenon DEF Sections, Close, m, c
    <2> HIDE DEF c
    <2> QED
      BY <2>8, <2>9, <2>10 DEF Goal
  <1>5. CASE part = "errors"
    <2>1. Sections[part] = "emit" /\ Calls("emit") = << >>
      BY <1>5 DEF Sections, Calls
    <2>2. Goal("emit", q)
      BY <1>5 DEF Goal
    <2>3. << >> \in Seq(SoundCall)
      OBVIOUS
    <2> QED
      BY <2>1, <2>2, <2>3, RunEmpty
  <1> QED
    BY <1>1, <1>2, <1>3, <1>4, <1>5 DEF Sections

\* The sections that have a script, and those that have none.
Parts == {"top", "device", "ufi", "result", "errors"}
Ends == {"emit", "written", "complained", "silent"}

\* The writer fails only when memory runs out.  Until then the calls that
\* are left lead a reader of the text to where the part should end, and what
\* has reached stdout is a closed document.
Reporting ==
  /\ ReportKnown
  /\ section \in Parts \cup Ends
  /\ script \in Seq(SoundCall)
  /\ section \in Ends => script = << >>
  /\ BooksKept(writer)
  /\ writer.failed => writer.room = 0
  /\ ~writer.failed =>
       /\ writer.ok
       /\ section # "silent"
       /\ Goal(section, Run(Reading(writer.text), script))
  /\ IF section = "written"
     THEN stdout = <<writer.text>> /\ Closed(Reading(writer.text))
     ELSE stdout = << >>

\* What a goal has in common with every other.
LEMMA GoalExpects ==
  ASSUME NEW part \in Parts \cup Ends, NEW q, Goal(part, q)
  PROVE  q.expects # "nothing"
  BY DEF Goal, Parts, Ends, OnTop, Closed

\* The first part of a document is begun.
LEMMA ReportingInit ==
  ASSUME ReportsInit
  PROVE  Reporting
  <1>1. ReportKnown
    BY ReportIsKnown DEF ReportsInit
  <1>2. PICK room \in Rooms : writer = json_init(room)
    BY DEF ReportsInit
  <1>3. /\ BooksKept(writer) /\ Reading(writer.text) = Unread
        /\ writer.ok <=> room > 0
        /\ writer.failed <=> room = 0
        /\ writer.room = room
        /\ room \in Nat
    BY <1>2, InitKept, RoomsAssumption
  <1>4. section = "top" /\ script = json_top /\ stdout = << >>
    BY DEF ReportsInit
  <1>5. /\ script \in Seq(SoundCall)
        /\ Goal(section, Run(Reading(writer.text), script))
    BY <1>3, <1>4, TopGoal
  <1>6. section \in Parts /\ section \notin Ends /\ section # "written"
        /\ section # "silent"
    BY <1>4 DEF Parts, Ends
  <1> QED
    BY <1>1, <1>3, <1>4, <1>5, <1>6 DEF Reporting

\* One call of a part.
LEMMA WriterCallKept ==
  ASSUME Reporting, WriterCall
  PROVE  Reporting'
  <1> DEFINE w == writer
             c == Head(script)
             q == Reading(writer.text)
             s == script
             v == Apply(writer, Head(script))
  <1>1. /\ script # << >> /\ writer' = v /\ script' = Tail(s)
        /\ report' = report /\ section' = section /\ stdout' = stdout
    BY DEF WriterCall
  <1>2. /\ s \in Seq(SoundCall) /\ w \in WriterState
        /\ section \in Parts
        /\ Len(w.stack) <= MaxDepth
        /\ w.failed => w.room = 0
    BY <1>1 DEF Reporting, BooksKept
  <1>3. q \in ReaderState
    BY <1>2, ReadingType DEF WriterState
  <1>4. /\ c \in SoundCall /\ Tail(s) \in Seq(SoundCall)
        /\ Run(q, s) = Run(CallOn(q, c), Tail(s))
        /\ Run(q, s).expects # "nothing" => Fits(q, c)
    BY <1>1, <1>2, <1>3, RunHead
  <1>5. /\ BooksKept(v)
        /\ v.failed => v.room = 0
        /\ ~v.failed => /\ ~w.failed /\ v.ok
                        /\ Run(Reading(v.text), Tail(s)) = Run(q, s)
    <2>1. CASE w.failed
      <3> HIDE DEF w, v, c
      <3>1. Fallen(w, v)
        BY <1>2, <1>4, <2>1, ApplyFallen DEF v, w, c
      <3>2. BooksKept(v)
        BY <2>1, <3>1, CallKept DEF Reporting, w
      <3> QED
        BY <1>2, <2>1, <3>1, <3>2 DEF Fallen
    <2>2. CASE ~w.failed
      <3>1. Agree(w, q)
        BY <2>2 DEF Reporting, BooksKept
      <3>2. Fits(q, c)
        BY <1>2, <1>4, <2>2, GoalExpects DEF Reporting
      <3> HIDE DEF w, v, c, q
      <3>3. Obeys(w, v, c)
        BY <1>2, <1>4, <2>2, <3>1, ApplyObeys DEF v, w, c, q
      <3>4. BooksKept(v)
        BY <2>2, <3>3, CallKept DEF Reporting, w
      <3>5. /\ v.failed => v.room = 0
            /\ ~v.failed => v.ok /\ Reading(v.text) = CallOn(q, c)
        BY <3>2, <3>3 DEF Obeys, CallOn, q, w
      <3> QED
        BY <1>4, <2>2, <3>4, <3>5
    <2> QED
      BY <2>1, <2>2
  <1>6. section \notin Ends /\ section # "written" /\ section # "silent"
    BY <1>2 DEF Parts, Ends
  <1>7. ~w.failed => Goal(section, Run(q, s))
    BY DEF Reporting
  <1>8. ReportKnown' /\ stdout = << >>
    BY <1>1, <1>6 DEF Reporting, ReportKnown
  <1> HIDE DEF v, q, s
  <1>9. /\ section' \in Parts \cup Ends /\ section' \notin Ends
        /\ section' # "written" /\ section' # "silent"
    BY <1>1, <1>2, <1>6
  <1>10. BooksKept(writer') /\ (writer'.failed => writer'.room = 0)
    BY <1>1, <1>5
  <1>11. ~writer'.failed =>
           /\ writer'.ok
           /\ Goal(section', Run(Reading(writer'.text), script'))
    BY <1>1, <1>5, <1>7
  <1>12. BooksKept(writer)' <=> BooksKept(writer')
    BY DEF BooksKept, WriterState, Agree, Awaits, Reading, Scan, InObject,
           Top, depth
  <1> QED
    BY <1>1, <1>4, <1>8, <1>9, <1>10, <1>11 DEF Reporting, s

\* json_top gives up without a word.
LEMMA GiveUpKept ==
  ASSUME Reporting, GiveUp
  PROVE  Reporting'
  <1>1. /\ section' = "silent" /\ script' = << >> /\ ~writer.ok
        /\ writer' = writer /\ report' = report /\ stdout' = stdout
        /\ section = "top"
    BY DEF GiveUp, TopAccepted
  <1>2. writer.failed /\ stdout = << >>
    BY <1>1 DEF Reporting
  <1>3. << >> \in Seq(SoundCall)
    OBVIOUS
  <1> QED
    BY <1>1, <1>2, <1>3 DEF Reporting, ReportKnown, Parts, Ends

\* The next part begins where the last one was to end.
LEMMA NextSectionKept ==
  ASSUME Reporting, NextSection
  PROVE  Reporting'
  <1> DEFINE q == Reading(writer.text)
             next == Sections[section]
  <1>1. /\ script = << >> /\ section \in DOMAIN Sections
        /\ section' = next /\ script' = Calls(next)
        /\ writer' = writer /\ report' = report /\ stdout' = stdout
    BY DEF NextSection
  <1>2. q \in ReaderState /\ ReportKnown
    BY ReadingType DEF Reporting, BooksKept, WriterState
  <1>3. /\ section \in Parts /\ next \in Parts \cup {"emit"}
        /\ next = "emit" => Calls(next) = << >>
    BY <1>1 DEF Sections, Parts, Calls
  <1>4. Calls(next) \in Seq(SoundCall)
    BY <1>1, <1>2, CallsSound
  <1>5. ~writer.failed => writer.ok /\ Goal(next, Run(q, Calls(next)))
    <2>1. Run(q, << >>) = q
      BY RunEmpty
    <2>2. ~writer.failed => writer.ok /\ Goal(section, q)
      BY <1>1, <2>1 DEF Reporting
    <2> QED
      BY <1>1, <1>2, <2>2, NextGoal
  <1>6. section \notin Ends /\ section # "written"
    BY <1>3 DEF Parts, Ends
  <1>7. /\ next \in Parts \cup Ends /\ next # "written" /\ next # "silent"
        /\ next \in Ends => next = "emit"
    BY <1>3 DEF Parts, Ends
  <1>8. stdout = << >> /\ BooksKept(writer)
        /\ (writer.failed => writer.room = 0)
    BY <1>6 DEF Reporting
  <1>9. ReportKnown'
    BY <1>1, <1>2 DEF ReportKnown
  <1> DEFINE calls0 == Calls(next)
  <1> HIDE DEF next, calls0
  <1>10. /\ section' = next /\ script' = calls0
         /\ writer' = writer /\ stdout' = stdout
         /\ calls0 \in Seq(SoundCall)
         /\ next \in Ends => calls0 = << >>
         /\ ~writer.failed => writer.ok /\ Goal(next, Run(q, calls0))
    BY <1>1, <1>3, <1>4, <1>5, <1>7 DEF calls0
  <1> QED
    BY <1>7, <1>8, <1>9, <1>10 DEF Reporting

\* json_emit
LEMMA EmitKept ==
  ASSUME Reporting, EmitDocument
  PROVE  Reporting'
  <1>1. /\ section = "emit" /\ script = << >> /\ stdout = << >>
        /\ writer' = writer /\ report' = report /\ script' = script
        /\ BooksKept(writer) /\ ReportKnown
    BY DEF EmitDocument, Reporting, Ends
  <1>2. ReportKnown'
    BY <1>1 DEF ReportKnown
  <1>3. << >> \in Seq(SoundCall)
    OBVIOUS
  <1>4. CASE /\ json_finish(writer)
             /\ stdout' = Append(stdout, writer.text)
             /\ section' = "written"
    <2>1. ~writer.failed
      BY <1>4 DEF json_finish
    <2>2. Goal("emit", Reading(writer.text)) /\ writer.ok
      BY <1>1, <2>1, RunEmpty DEF Reporting
    <2>3. Closed(Reading(writer.text))
      BY <2>2 DEF Goal
    <2>4. Goal("written", Run(Reading(writer.text), << >>))
      BY <2>3, RunEmpty DEF Goal
    <2>5. stdout' = <<writer.text>>
      <3> DEFINE t == writer.text
      <3> HIDE DEF t
      <3>1. Append(<< >>, t) = <<t>>
        OBVIOUS
      <3> QED
        BY <1>1, <1>4, <3>1 DEF t
    <2> QED
      BY <1>1, <1>2, <1>3, <1>4, <2>1, <2>2, <2>3, <2>4, <2>5
      DEF Reporting, Ends
  <1>5. CASE /\ section' = "complained" /\ stdout' = stdout
    <2>1. ~writer.failed =>
            /\ writer.ok
            /\ Goal("complained", Run(Reading(writer.text), << >>))
      BY <1>1, RunEmpty DEF Reporting, Goal
    <2>2. writer.failed => writer.room = 0
      BY DEF Reporting
    <2> QED
      BY <1>1, <1>2, <1>3, <1>5, <2>1, <2>2 DEF Reporting, Ends
  <1> QED
    BY <1>4, <1>5 DEF EmitDocument

\* Reporting is inductive.
LEMMA ReportingStep ==
  Reporting /\ [ReportsNext]_rvars => Reporting'
  <1> SUFFICES ASSUME Reporting, [ReportsNext]_rvars
               PROVE  Reporting'
    OBVIOUS
  <1>1. CASE UNCHANGED rvars
    BY <1>1 DEF rvars, Reporting, ReportKnown
  <1> QED
    BY <1>1, WriterCallKept, GiveUpKept, NextSectionKept, EmitKept
    DEF ReportsNext

\* NothingDropped holds of every report, with any number of candidates,
\* format descriptors and changeable fields, and wherever memory runs out.
THEOREM NothingDroppedInvariant == ReportsSpec => []NothingDropped
  <1>1. ReportsInit => Reporting
    BY ReportingInit
  <1>2. Reporting => NothingDropped
    <2> SUFFICES ASSUME Reporting, writer.room > 0
                 PROVE  writer.ok
      BY DEF NothingDropped
    <2>1. ~writer.failed
      BY DEF Reporting
    <2> QED
      BY <2>1 DEF Reporting
  <1> QED
    BY <1>1, <1>2, ReportingStep, PTL DEF ReportsSpec

\* WrittenIsReport holds of every report in the same way.
THEOREM WrittenIsReportInvariant == ReportsSpec => []WrittenIsReport
  <1>1. ReportsInit => Reporting
    BY ReportingInit
  <1>2. Reporting => WrittenIsReport
    <2> SUFFICES ASSUME Reporting, NEW i \in DOMAIN stdout
                 PROVE  /\ Len(stdout) = 1
                        /\ IsDocument(stdout[i])
                        /\ Reading(stdout[i]).root = TopMembers
                        /\ Reading(stdout[i]).unique
      BY DEF WrittenIsReport
    <2>1. section = "written"
      <3>1. DOMAIN << >> = {}
        OBVIOUS
      <3> QED
        BY <3>1 DEF Reporting
    <2>2. stdout = <<writer.text>> /\ Closed(Reading(writer.text))
      BY <2>1 DEF Reporting
    <2>3. Len(stdout) = 1 /\ stdout[i] = writer.text
      BY <2>2
    <2> QED
      BY <2>2, <2>3 DEF Closed, IsDocument
  <1> QED
    BY <1>1, <1>2, ReportingStep, PTL DEF ReportsSpec
-----------------------------------------------------------------------------
(* The text of a string                                                    *)

\* Two elements are read one after the other.
LEMMA ScanTwo ==
  ASSUME NEW step, NEW q, NEW a, NEW b
  PROVE  Scan(step, q, <<a, b>>) = After(step, After(step, q, a), b)
  <1> DEFINE s == <<a>>
             S == {a, b}
  <1>1. <<a, b>> = Append(s, b) /\ s \in Seq(S) /\ b \in S
    OBVIOUS
  <1>2. Scan(step, q, s) = After(step, q, a)
    BY ScanOne
  <1> HIDE DEF s, S
  <1>3. Scan(step, q, Append(s, b)) = After(step, Scan(step, q, s), b)
    BY <1>1, ScanAppend
  <1> QED
    BY <1>1, <1>2, <1>3

\* Six elements are read one after the other.
LEMMA ScanSix ==
  ASSUME NEW step, NEW q, NEW S, NEW a \in S, NEW b \in S, NEW c \in S,
         NEW d \in S, NEW e \in S, NEW f \in S
  PROVE  Scan(step, q, <<a, b, c, d, e, f>>)
           = After(step, After(step, After(step, After(step, After(step,
               After(step, q, a), b), c), d), e), f)
  <1> DEFINE s == <<a, b>>
             t == <<c, d>>
             u == <<e, f>>
             v == <<a, b, c, d>>
  <1>1. /\ s \in Seq(S) /\ t \in Seq(S) /\ u \in Seq(S) /\ v \in Seq(S)
        /\ v = s \o t /\ <<a, b, c, d, e, f>> = v \o u
    OBVIOUS
  <1>2. /\ Scan(step, q, s) = After(step, After(step, q, a), b)
        /\ \A r : Scan(step, r, t) = After(step, After(step, r, c), d)
        /\ \A r : Scan(step, r, u) = After(step, After(step, r, e), f)
    BY ScanTwo
  <1> HIDE DEF s, t, u, v
  <1>3. Scan(step, q, s \o t) = Scan(step, Scan(step, q, s), t)
    BY <1>1, ScanConcat
  <1>4. Scan(step, q, v \o u) = Scan(step, Scan(step, q, v), u)
    <2>1. v \in Seq(S) /\ u \in Seq(S)
      BY <1>1
    <2> QED
      BY <2>1, ScanConcat
  <1> QED
    BY <1>1, <1>2, <1>3, <1>4

\* The reader inside an escape of a string whose text so far is text.
Escaping(text) == [mode |-> "escape", left |-> 0, value |-> 0, text |-> text]
\* The reader that waits for left digits of a \u escape.
Digits(left, value, text) ==
  [mode |-> "digits", left |-> left, value |-> value, text |-> text]

\* A state of the reader is known by its parts.
LEMMA SameState ==
  ASSUME NEW q \in StringState, NEW r \in StringState,
         q.mode = r.mode, q.left = r.left, q.value = r.value, q.text = r.text
  PROVE  q = r
  BY DEF StringState

\* What one character does to the reader, mode by mode.
LEMMA CharacterRead ==
  ASSUME NEW q \in StringState, NEW byte \in Nat
  PROVE  After(StringStep, q, byte) = ReadCharacter(q, byte)
  BY DEF After, StringStep

\* What a character does outside an escape.
LEMMA PlainRead ==
  ASSUME NEW text \in Seq(Nat), NEW byte \in Nat
  PROVE  /\ Plain(text) \in StringState
         /\ byte = BACKSLASH =>
              After(StringStep, Plain(text), byte) = Escaping(text)
         /\ byte >= 32 /\ byte \notin {QUOTE, BACKSLASH} =>
              After(StringStep, Plain(text), byte) = Plain(Append(text, byte))
  <1> DEFINE q == Plain(text)
  <1>1. /\ q \in StringState /\ q.mode = "plain" /\ q.text = text
        /\ q.left = 0 /\ q.value = 0
    BY DEF Plain, StringState
  <1>2. ASSUME byte = BACKSLASH PROVE ReadCharacter(q, byte) = Escaping(text)
    <2>1. [q EXCEPT !.mode = "escape"] = Escaping(text)
      BY DEF Plain, Escaping
    <2> HIDE DEF q
    <2> QED
      BY <1>1, <1>2, <2>1 DEF ReadCharacter
  <1>3. ASSUME byte >= 32, byte \notin {QUOTE, BACKSLASH}
        PROVE  ReadCharacter(q, byte) = Plain(Append(text, byte))
    <2> HIDE DEF q
    <2> QED
      BY <1>1, <1>3 DEF ReadCharacter
  <1>4. After(StringStep, q, byte) = ReadCharacter(q, byte)
    BY <1>1, CharacterRead
  <1> QED
    BY <1>1, <1>2, <1>3, <1>4

\* What a character does after a backslash.
LEMMA EscapingRead ==
  ASSUME NEW text \in Seq(Nat), NEW byte \in Nat
  PROVE  /\ byte \in DOMAIN Denoted =>
              After(StringStep, Escaping(text), byte)
                = Plain(Append(text, Denoted[byte]))
         /\ byte = 117 =>
              After(StringStep, Escaping(text), byte) = Digits(4, 0, text)
  <1> DEFINE q == Escaping(text)
  <1>1. /\ q \in StringState /\ q.mode = "escape" /\ q.text = text
        /\ q.left = 0 /\ q.value = 0
    BY DEF Escaping, StringState
  <1>n. 117 \notin DOMAIN Denoted
    BY DEF Denoted
  <1>2. ASSUME byte \in DOMAIN Denoted
        PROVE  ReadCharacter(q, byte) = Plain(Append(text, Denoted[byte]))
    <2> HIDE DEF q
    <2> QED
      BY <1>1, <1>n, <1>2 DEF ReadCharacter
  <1>3. ASSUME byte = 117 PROVE ReadCharacter(q, byte) = Digits(4, 0, text)
    <2> HIDE DEF q
    <2>1. [q EXCEPT !.mode = "digits", !.left = 4] = Digits(4, 0, text)
      <3> DEFINE r == [q EXCEPT !.mode = "digits", !.left = 4]
                 d == Digits(4, 0, text)
      <3>1. /\ r \in StringState /\ r.mode = "digits" /\ r.left = 4
            /\ r.value = 0 /\ r.text = text
        <4> DEFINE p == [q EXCEPT !.mode = "digits"]
                   k == 4
        <4>1. k \in 0..4 /\ k = 4
          OBVIOUS
        <4>2. /\ p \in StringState /\ p.mode = "digits" /\ p.left = 0
              /\ p.value = 0 /\ p.text = text
          BY <1>1 DEF StringState
        <4> HIDE DEF k
        <4>3. r = [p EXCEPT !.left = k]
          BY <1>1, <4>1 DEF StringState
        <4> HIDE DEF p, r
        <4> QED
          BY <4>1, <4>2, <4>3 DEF StringState
      <3>2. /\ d \in StringState /\ d.mode = "digits" /\ d.left = 4
            /\ d.value = 0 /\ d.text = text
        BY DEF Digits, StringState
      <3> HIDE DEF r, d
      <3>3. r = d
        BY <3>1, <3>2, SameState
      <3> QED
        BY <3>3 DEF r, d
    <2> QED
      BY <1>1, <1>n, <1>3, <2>1 DEF ReadCharacter
  <1>4. After(StringStep, q, byte) = ReadCharacter(q, byte)
    BY <1>1, CharacterRead
  <1> HIDE DEF q
  <1>5. /\ byte \in DOMAIN Denoted =>
             After(StringStep, q, byte) = Plain(Append(text, Denoted[byte]))
        /\ byte = 117 => After(StringStep, q, byte) = Digits(4, 0, text)
    BY <1>2, <1>3, <1>4
  <1> QED
    BY <1>5 DEF q

\* What a hexadecimal digit does to a \u escape.
LEMMA DigitRead ==
  ASSUME NEW text \in Seq(Nat), NEW byte \in DOMAIN HexValue,
         NEW left \in 1..4, NEW value \in Nat, NEW sum \in Nat,
         sum = 16 * value + HexValue[byte]
  PROVE  /\ left > 1 => After(StringStep, Digits(left, value, text), byte)
                          = Digits(left - 1, sum, text)
         /\ left = 1 => After(StringStep, Digits(left, value, text), byte)
                          = Plain(Append(text, sum))
  <1> DEFINE q == Digits(left, value, text)
  <1>0. byte \in Nat
    BY DEF HexValue
  <1>1. /\ q \in StringState /\ q.mode = "digits" /\ q.text = text
        /\ q.left = left /\ q.value = value
    BY DEF Digits, StringState
  <1>2. ASSUME left > 1
        PROVE  ReadCharacter(q, byte) = Digits(left - 1, sum, text)
    <2>1. [q EXCEPT !.left = @ - 1, !.value = 16 * @ + HexValue[byte]]
            = Digits(left - 1, sum, text)
      <3> DEFINE h == HexValue[byte]
      <3>1. 16 * value + h = sum
        OBVIOUS
      <3> HIDE DEF h, q
      <3>2. [q EXCEPT !.left = @ - 1, !.value = 16 * @ + h]
              = Digits(left - 1, sum, text)
        <4> DEFINE r == [q EXCEPT !.left = @ - 1, !.value = 16 * @ + h]
                   d == Digits(left - 1, sum, text)
        <4>1. left - 1 \in 0..4 /\ 16 * q.value + h = sum /\ q.left = left
          BY <1>1, <1>2, <3>1
        <4>2. /\ r \in StringState /\ r.mode = "digits" /\ r.left = left - 1
              /\ r.value = sum /\ r.text = text
          BY <1>1, <4>1 DEF StringState
        <4>3. /\ d \in StringState /\ d.mode = "digits" /\ d.left = left - 1
              /\ d.value = sum /\ d.text = text
          BY <4>1 DEF Digits, StringState
        <4> HIDE DEF r, d
        <4>4. r = d
          BY <4>2, <4>3, SameState
        <4> QED
          BY <4>4 DEF r, d
      <3> QED
        BY <3>2 DEF h
    <2> HIDE DEF q
    <2> QED
      BY <1>1, <1>2, <2>1 DEF ReadCharacter
  <1>3. ASSUME left = 1
        PROVE  ReadCharacter(q, byte) = Plain(Append(text, sum))
    <2> HIDE DEF q
    <2> QED
      BY <1>1, <1>3 DEF ReadCharacter
  <1>4. After(StringStep, q, byte) = ReadCharacter(q, byte)
    BY <1>0, <1>1, CharacterRead
  <1> HIDE DEF q
  <1>5. /\ left > 1 => After(StringStep, q, byte)
                         = Digits(left - 1, sum, text)
        /\ left = 1 => After(StringStep, q, byte) = Plain(Append(text, sum))
    BY <1>2, <1>3, <1>4
  <1> QED
    BY <1>5 DEF q

\* A hexadecimal digit has the value it was written for.
LEMMA HexDigitRead ==
  ASSUME NEW n \in 0..15
  PROVE  /\ HexDigit(n) \in DOMAIN HexValue /\ HexDigit(n) \in 0..127
         /\ HexValue[HexDigit(n)] = n
  <1> DEFINE d == HexDigit(n)
  <1>1. /\ d \in 48..57 \cup 65..70 \cup 97..102
        /\ d = IF n < 10 THEN 48 + n ELSE 87 + n
    BY DEF HexDigit
  <1> HIDE DEF d
  <1>2. /\ d \in DOMAIN HexValue /\ d \in 0..127 /\ HexValue[d] = n
    BY <1>1 DEF HexValue
  <1> QED
    BY <1>2 DEF d

\* What append_escaped makes of a byte below 80h is ASCII and reads back as
\* that byte.
LEMMA EscapedReads ==
  ASSUME NEW text \in Seq(Nat), NEW byte \in 0..127
  PROVE  /\ Escaped(byte) \in Seq(0..127)
         /\ Scan(StringStep, Plain(text), Escaped(byte))
              = Plain(Append(text, byte))
  <1> DEFINE q == Plain(text)
  <1>1. CASE byte \in DOMAIN ShortEscape
    <2> DEFINE b == ShortEscape[byte]
    <2>1. byte \in {34, 92, 8, 12, 10, 13, 9}
      BY <1>1 DEF ShortEscape, QUOTE, BACKSLASH
    <2>2. /\ b \in {34, 92, 98, 102, 110, 114, 116}
          /\ b = (CASE byte = 8 -> 98 [] byte = 12 -> 102
                    [] byte = 10 -> 110 [] byte = 13 -> 114
                    [] byte = 9 -> 116 [] OTHER -> byte)
      BY <2>1 DEF ShortEscape, QUOTE, BACKSLASH
    <2>3. Escaped(byte) = <<92, b>>
      BY <1>1 DEF Escaped, BACKSLASH
    <2> HIDE DEF b
    <2>4. b \in DOMAIN Denoted /\ Denoted[b] = byte
      BY <2>1, <2>2 DEF Denoted
    <2>5. b \in 0..127 /\ 92 \in 0..127 /\ b \in Nat /\ 92 \in Nat
      BY <2>2
    <2>6. After(StringStep, q, 92) = Escaping(text)
      BY <2>5, PlainRead DEF BACKSLASH
    <2>7. After(StringStep, Escaping(text), b) = Plain(Append(text, byte))
      BY <2>4, <2>5, EscapingRead
    <2>8. Scan(StringStep, q, <<92, b>>)
            = After(StringStep, After(StringStep, q, 92), b)
      BY ScanTwo
    <2>9. <<92, b>> \in Seq(0..127)
      BY <2>5
    <2> QED
      BY <2>3, <2>6, <2>7, <2>8, <2>9
  <1>2. CASE byte \notin DOMAIN ShortEscape /\ byte < 32
    <2> DEFINE hn == byte \div 16
               ln == byte % 16
               h == HexDigit(hn)
               l == HexDigit(ln)
               B == 0..127
               st == StringStep
    <2>1. Escaped(byte) = <<92, 117, 48, 48, h, l>>
      BY <1>2 DEF Escaped, Unicode, BACKSLASH
    <2>2. /\ hn \in 0..15 /\ ln \in 0..15 /\ 16 * hn + ln = byte
          /\ hn \in Nat
      BY <1>2
    <2>3. /\ h \in DOMAIN HexValue /\ h \in B /\ HexValue[h] = hn
          /\ l \in DOMAIN HexValue /\ l \in B /\ HexValue[l] = ln
      <3> HIDE DEF hn, ln
      <3> QED
        BY <2>2, HexDigitRead
    <2>4. 48 \in DOMAIN HexValue /\ HexValue[48] = 0
      BY DEF HexValue
    <2>5. 92 \in B /\ 117 \in B /\ 48 \in B
      OBVIOUS
    <2> HIDE DEF h, l, hn, ln
    <2>6. <<92, 117, 48, 48, h, l>> \in Seq(0..127)
      BY <2>3, <2>5
    <2> HIDE DEF B
    <2>7. Scan(st, q, <<92, 117, 48, 48, h, l>>)
            = After(st, After(st, After(st, After(st, After(st,
                After(st, q, 92), 117), 48), 48), h), l)
      BY <2>3, <2>5, ScanSix
    <2>8. After(st, q, 92) = Escaping(text)
      BY <2>5, PlainRead DEF BACKSLASH, B
    <2>9. After(st, Escaping(text), 117) = Digits(4, 0, text)
      BY <2>5, EscapingRead DEF B
    <2>10. After(st, Digits(4, 0, text), 48) = Digits(3, 0, text)
      <3>1. 4 \in 1..4 /\ 4 > 1 /\ 4 - 1 = 3 /\ 0 \in Nat /\ 0 = 16 * 0 + 0
        OBVIOUS
      <3>2. After(st, Digits(4, 0, text), 48) = Digits(4 - 1, 0, text)
        BY <2>4, <3>1, DigitRead
      <3> QED
        BY <3>1, <3>2
    <2>11. After(st, Digits(3, 0, text), 48) = Digits(2, 0, text)
      <3>1. 3 \in 1..4 /\ 3 > 1 /\ 3 - 1 = 2 /\ 0 \in Nat /\ 0 = 16 * 0 + 0
        OBVIOUS
      <3>2. After(st, Digits(3, 0, text), 48) = Digits(3 - 1, 0, text)
        BY <2>4, <3>1, DigitRead
      <3> QED
        BY <3>1, <3>2
    <2>12. After(st, Digits(2, 0, text), h) = Digits(1, hn, text)
      <3>1. 2 \in 1..4 /\ 2 > 1 /\ 2 - 1 = 1 /\ 0 \in Nat
            /\ hn = 16 * 0 + hn
        BY <2>2
      <3>2. After(st, Digits(2, 0, text), h) = Digits(2 - 1, hn, text)
        BY <2>2, <2>3, <3>1, DigitRead
      <3> QED
        BY <3>1, <3>2
    <2>13. After(st, Digits(1, hn, text), l) = Plain(Append(text, byte))
      <3>1. 1 \in 1..4 /\ byte \in Nat /\ byte = 16 * hn + HexValue[l]
        BY <2>2, <2>3
      <3> QED
        BY <2>2, <2>3, <3>1, DigitRead
    <2> QED
      BY <2>1, <2>6, <2>7, <2>8, <2>9, <2>10, <2>11, <2>12, <2>13
  <1>3. CASE byte \notin DOMAIN ShortEscape /\ byte >= 32
    <2>1. byte \notin {QUOTE, BACKSLASH}
      BY <1>3 DEF ShortEscape, QUOTE, BACKSLASH
    <2>2. Escaped(byte) = <<byte>>
      BY <1>3 DEF Escaped
    <2>3. After(StringStep, q, byte) = Plain(Append(text, byte))
      BY <1>3, <2>1, PlainRead
    <2>4. Scan(StringStep, q, <<byte>>) = After(StringStep, q, byte)
      BY ScanOne
    <2> QED
      BY <2>2, <2>3, <2>4
  <1> QED
    BY <1>1, <1>2, <1>3

\* The values of a byte.
Octet == 0..255

\* The first n elements of a sequence.
LEMMA Prefix ==
  ASSUME NEW S, NEW s \in Seq(S), NEW n \in 0..Len(s)
  PROVE  /\ SubSeq(s, 1, n) \in Seq(S) /\ Len(SubSeq(s, 1, n)) = n
         /\ \A i \in 1..n : SubSeq(s, 1, n)[i] = s[i]
  OBVIOUS

\* A sequence of members of a set is one of members of a larger set.
LEMMA WiderSeq ==
  ASSUME NEW S, NEW T, S \subseteq T, NEW s \in Seq(S)
  PROVE  s \in Seq(T)
  OBVIOUS

\* A prefix with one more element.
LEMMA PrefixMore ==
  ASSUME NEW S, NEW s \in Seq(S), NEW n \in Nat, n < Len(s)
  PROVE  SubSeq(s, 1, n + 1) = Append(SubSeq(s, 1, n), s[n + 1])
  <1> DEFINE t == SubSeq(s, 1, n + 1)
             v == SubSeq(s, 1, n)
             x == s[n + 1]
  <1>1. n \in 0..Len(s) /\ n + 1 \in 0..Len(s) /\ n + 1 \in 1..Len(s)
    OBVIOUS
  <1>2. x \in S
    BY <1>1
  <1>3. /\ v \in Seq(S) /\ Len(v) = n /\ \A i \in 1..n : v[i] = s[i]
    BY <1>1, Prefix
  <1>4. /\ t \in Seq(S) /\ Len(t) = n + 1 /\ \A i \in 1..n + 1 : t[i] = s[i]
    BY <1>1, Prefix
  <1>5. /\ Len(t) = Len(v) + 1 /\ t[Len(v) + 1] = x
        /\ \A i \in 1..Len(v) : t[i] = v[i]
    <2> HIDE DEF t, v
    <2> QED
      BY <1>1, <1>3, <1>4
  <1> HIDE DEF t, v, x
  <1>6. Append(v, x) = t
    BY <1>2, <1>3, <1>4, <1>5, AppendIs
  <1> QED
    BY <1>6 DEF t, v, x

\* The states of the decoder, by their parts.
LEMMA BetweenState ==
  ASSUME NEW t \in Seq(Nat)
  PROVE  /\ Between(t) \in Utf8State /\ Between(t).mode = "between"
         /\ Between(t).text = t
  BY DEF Between, Utf8State

LEMMA WithinState ==
  ASSUME NEW l \in 0..3, NEW v \in Nat, NEW m \in Nat, NEW t \in Seq(Nat)
  PROVE  /\ Within(l, v, m, t) \in Utf8State
         /\ Within(l, v, m, t).mode = "within" /\ Within(l, v, m, t).left = l
         /\ Within(l, v, m, t).value = v /\ Within(l, v, m, t).least = m
         /\ Within(l, v, m, t).text = t
  BY DEF Within, Utf8State

LEMMA MalformedState ==
  Malformed \in Utf8State /\ Malformed.mode = "malformed"
  <1> DEFINE e == << >>
  <1>1. e \in Seq(Nat)
    OBVIOUS
  <1> HIDE DEF e
  <1>2. Between(e) \in Utf8State
    BY <1>1, BetweenState
  <1>3. /\ [Between(e) EXCEPT !.mode = "malformed"] \in Utf8State
        /\ [Between(e) EXCEPT !.mode = "malformed"].mode = "malformed"
    BY <1>2 DEF Utf8State
  <1> QED
    BY <1>3 DEF Malformed, e

\* The decoder stays a decoder, whatever bytes it reads, and does not recover.
LEMMA ByteDecoded ==
  ASSUME NEW u \in Utf8State, NEW byte \in Octet
  PROVE  /\ After(Utf8Step, u, byte) = Utf8Byte(u, byte)
         /\ Utf8Byte(u, byte) \in Utf8State
         /\ u.mode = "malformed" => Utf8Byte(u, byte) = Malformed
  <1>1. After(Utf8Step, u, byte) = Utf8Byte(u, byte)
    BY DEF After, Utf8Step, Octet
  <1>2. /\ u.text \in Seq(Nat) /\ u.left \in 0..3 /\ u.value \in Nat
        /\ u.least \in Nat /\ byte \in 0..255
    BY DEF Utf8State, Octet
  <1>3. ASSUME u.mode = "malformed" PROVE Utf8Byte(u, byte) = Malformed
    BY <1>3 DEF Utf8Byte
  <1>4. Begins(u, byte) \in Utf8State
    <2>1. CASE byte \in 0..127
      <3>1. Append(u.text, byte) \in Seq(Nat)
        BY <1>2
      <3>2. Begins(u, byte) = Between(Append(u.text, byte))
        BY <2>1 DEF Begins
      <3> QED
        BY <3>1, <3>2, BetweenState
    <2>2. CASE byte \in 192..223
      <3>1. byte - 192 \in Nat /\ 1 \in 0..3 /\ 128 \in Nat
        BY <2>2
      <3>2. Begins(u, byte) = Within(1, byte - 192, 128, u.text)
        BY <2>2 DEF Begins
      <3> QED
        BY <1>2, <3>1, <3>2, WithinState
    <2>3. CASE byte \in 224..239
      <3>1. byte - 224 \in Nat /\ 2 \in 0..3 /\ 2048 \in Nat
        BY <2>3
      <3>2. Begins(u, byte) = Within(2, byte - 224, 2048, u.text)
        BY <2>3 DEF Begins
      <3> QED
        BY <1>2, <3>1, <3>2, WithinState
    <2>4. CASE byte \in 240..247
      <3>1. byte - 240 \in Nat /\ 3 \in 0..3 /\ 65536 \in Nat
        BY <2>4
      <3>2. Begins(u, byte) = Within(3, byte - 240, 65536, u.text)
        BY <2>4 DEF Begins
      <3> QED
        BY <1>2, <3>1, <3>2, WithinState
    <2>5. CASE /\ byte \notin 0..127 /\ byte \notin 192..223
               /\ byte \notin 224..239 /\ byte \notin 240..247
      <3>1. Begins(u, byte) = Malformed
        BY <2>5 DEF Begins
      <3> QED
        BY <3>1, MalformedState
    <2> QED
      BY <2>1, <2>2, <2>3, <2>4, <2>5
  <1>5. ASSUME NEW v \in Nat PROVE Continues(u, v) \in Utf8State
    <2>1. CASE u.left > 1
      <3> DEFINE l == u.left - 1
      <3>1. l \in 0..3
        BY <1>2, <2>1
      <3>2. Continues(u, v) = Within(l, v, u.least, u.text)
        BY <2>1 DEF Continues
      <3> HIDE DEF l
      <3> QED
        BY <1>2, <1>5, <3>1, <3>2, WithinState
    <2>2. CASE ~(u.left > 1)
      <3>1. Append(u.text, v) \in Seq(Nat)
        BY <1>2
      <3>2. Between(Append(u.text, v)) \in Utf8State
        BY <3>1, BetweenState
      <3> QED
        BY <2>2, <3>2, MalformedState DEF Continues
    <2> QED
      BY <2>1, <2>2
  <1>6. Utf8Byte(u, byte) \in Utf8State
    <2> DEFINE v == 64 * u.value + byte - 128
    <2>1. CASE u.mode = "between"
      BY <1>4, <2>1 DEF Utf8Byte
    <2>2. CASE u.mode = "within" /\ byte \in 128..191
      <3>1. Utf8Byte(u, byte) = Continues(u, v)
        BY <1>2, <2>2 DEF Utf8Byte
      <3>2. v \in Nat
        <4>1. \A a \in Nat, b \in 128..191 : 64 * a + b - 128 \in Nat
          OBVIOUS
        <4> QED
          BY <1>2, <2>2, <4>1
      <3> HIDE DEF v
      <3> QED
        BY <1>5, <3>1, <3>2
    <2>3. CASE u.mode # "between" /\ ~(u.mode = "within" /\ byte \in 128..191)
      <3>1. Utf8Byte(u, byte) = Malformed
        BY <2>3 DEF Utf8Byte
      <3> QED
        BY <3>1, MalformedState
    <2> QED
      BY <2>1, <2>2, <2>3
  <1> QED
    BY <1>1, <1>3, <1>6

\* A byte below 80h is a character.
LEMMA AsciiByte ==
  ASSUME NEW u \in Utf8State, u.mode = "between", NEW byte \in 0..127
  PROVE  Utf8Byte(u, byte) = Between(Append(u.text, byte))
  <1>1. Begins(u, byte) = Between(Append(u.text, byte))
    BY DEF Begins
  <1>2. Utf8Byte(u, byte) = Begins(u, byte)
    BY DEF Utf8Byte
  <1> QED
    BY <1>1, <1>2

\* Bytes below 80h are characters.
LEMMA AsciiDecoded ==
  ASSUME NEW t \in Seq(Nat), NEW s \in Seq(0..127)
  PROVE  Scan(Utf8Step, Between(t), s) = Between(t \o s)
  <1> DEFINE A == 0..127
             Reads(r) == Scan(Utf8Step, Between(t), r) = Between(t \o r)
             X == {n \in Nat : \A r \in Seq(A) : Len(r) = n => Reads(r)}
  <1>1. 0 \in X
    <2> SUFFICES ASSUME NEW r \in Seq(A), Len(r) = 0 PROVE Reads(r)
      OBVIOUS
    <2>1. r = << >> /\ t \o r = t
      BY ConcatEmptySeq
    <2> QED
      BY <2>1, ScanEmpty
  <1>2. ASSUME NEW n \in Nat, n \in X PROVE n + 1 \in X
    <2> SUFFICES ASSUME NEW r \in Seq(A), Len(r) = n + 1 PROVE Reads(r)
      OBVIOUS
    <2> DEFINE v == SubSeq(r, 1, n)
               x == r[n + 1]
               w == t \o v
    <2>1. v \in Seq(A) /\ Len(v) = n /\ x \in A
      <3> HIDE DEF A
      <3>1. n \in 0..Len(r) /\ n + 1 \in 1..Len(r)
        OBVIOUS
      <3> QED
        BY <3>1, Prefix
    <2>2. r = Append(v, x)
      <3>1. r = SubSeq(r, 1, n + 1)
        BY Prefix, SeqEqual
      <3> HIDE DEF A
      <3> QED
        BY <3>1, PrefixMore
    <2>3. Reads(v)
      BY <1>2, <2>1
    <2>4. /\ v \in Seq(Nat) /\ x \in Nat /\ x \in Octet
          /\ A \subseteq Nat
      <3>1. A \subseteq Nat /\ x \in Nat /\ x \in Octet
        <4> HIDE DEF x
        <4> QED
          BY <2>1 DEF Octet
      <3> HIDE DEF A, v
      <3> QED
        BY <2>1, <3>1, WiderSeq
    <2> HIDE DEF v, x
    <2>5. Scan(Utf8Step, Between(t), r)
            = After(Utf8Step, Scan(Utf8Step, Between(t), v), x)
      <3> HIDE DEF A
      <3> QED
        BY <2>1, <2>2, ScanAppend
    <2>6. w \in Seq(Nat)
      BY <2>4
    <2>7. t \o r = Append(w, x)
      BY <2>2, <2>4
    <2> HIDE DEF w
    <2>8. Scan(Utf8Step, Between(t), v) = Between(w)
      BY <2>3 DEF w
    <2>9. After(Utf8Step, Between(w), x) = Between(Append(w, x))
      <3> DEFINE b == Between(w)
      <3>1. b \in Utf8State /\ b.mode = "between" /\ b.text = w
        BY <2>6, BetweenState
      <3> HIDE DEF b
      <3>2. After(Utf8Step, b, x) = Utf8Byte(b, x)
        BY <2>4, <3>1, ByteDecoded
      <3>3. Utf8Byte(b, x) = Between(Append(b.text, x))
        BY <2>1, <3>1, AsciiByte
      <3> QED
        BY <3>1, <3>2, <3>3 DEF b
    <2> QED
      BY <2>5, <2>7, <2>8, <2>9
  <1>3. Nat \subseteq X
    <2> HIDE DEF X
    <2> QED
      BY <1>1, <1>2, Induction
  <1>4. Len(s) \in Nat
    OBVIOUS
  <1> QED
    BY <1>3, <1>4

\* Two decoders stand at the same place of a character, the one of the
\* document (i) and the one of the field (p), and what the first has read is
\* a string whose text is what the second has read.
Alike(i, p) ==
  /\ i \in Utf8State /\ p \in Utf8State
  /\ i.mode = p.mode /\ i.left = p.left
  /\ i.value = p.value /\ i.least = p.least
  /\ p.mode = "between" => i = Between(i.text)
  /\ p.mode = "within" => p.least >= 128
  /\ Decode(i.text) = Plain(p.text)

\* A character above ASCII stands for itself in a string.
LEMMA HighCharacter ==
  ASSUME NEW t \in Seq(Nat), NEW s \in Seq(Nat), NEW c \in Nat, c >= 128,
         Decode(t) = Plain(s)
  PROVE  Decode(Append(t, c)) = Plain(Append(s, c))
  <1>1. Decode(Append(t, c)) = After(StringStep, Decode(t), c)
    BY ScanAppend DEF Decode
  <1>2. c >= 32 /\ c \notin {QUOTE, BACKSLASH}
    BY DEF QUOTE, BACKSLASH
  <1>3. After(StringStep, Plain(s), c) = Plain(Append(s, c))
    BY <1>2, PlainRead
  <1> QED
    BY <1>1, <1>3

\* Both decoders between characters again.
LEMMA AlikeBetween ==
  ASSUME NEW t \in Seq(Nat), NEW s \in Seq(Nat), Decode(t) = Plain(s)
  PROVE  Alike(Between(t), Between(s))
  <1>1. /\ Between(t) \in Utf8State /\ Between(s) \in Utf8State
        /\ Between(t).text = t /\ Between(s).text = s
        /\ Between(s).mode = "between"
    BY BetweenState
  <1>2. /\ Between(t).mode = Between(s).mode
        /\ Between(t).left = Between(s).left
        /\ Between(t).value = Between(s).value
        /\ Between(t).least = Between(s).least
    BY DEF Between
  <1> QED
    BY <1>1, <1>2 DEF Alike

\* Both decoders within the same character.
LEMMA AlikeWithin ==
  ASSUME NEW t \in Seq(Nat), NEW s \in Seq(Nat), Decode(t) = Plain(s),
         NEW l \in 0..3, NEW v \in Nat, NEW m \in Nat, m >= 128
  PROVE  Alike(Within(l, v, m, t), Within(l, v, m, s))
  <1> DEFINE i == Within(l, v, m, t)
             p == Within(l, v, m, s)
  <1>1. /\ i \in Utf8State /\ i.mode = "within" /\ i.left = l
        /\ i.value = v /\ i.least = m /\ i.text = t
    BY DEF Within, Utf8State
  <1>2. /\ p \in Utf8State /\ p.mode = "within" /\ p.left = l
        /\ p.value = v /\ p.least = m /\ p.text = s
    BY DEF Within, Utf8State
  <1> HIDE DEF i, p
  <1>3. Alike(i, p)
    BY <1>1, <1>2 DEF Alike
  <1> QED
    BY <1>3 DEF i, p

\* A byte from 80h on goes out as it is, and the decoders stay together.
LEMMA HighByte ==
  ASSUME NEW i, NEW p, Alike(i, p), NEW byte \in 128..255,
         Utf8Byte(p, byte).mode # "malformed"
  PROVE  Alike(Utf8Byte(i, byte), Utf8Byte(p, byte))
  <1> DEFINE d == Utf8Byte(p, byte)
             t == i.text
             s == p.text
  <1>1. /\ i \in Utf8State /\ p \in Utf8State
        /\ i.mode = p.mode /\ i.left = p.left
        /\ i.value = p.value /\ i.least = p.least
        /\ Decode(t) = Plain(s)
    BY DEF Alike
  <1>2. /\ t \in Seq(Nat) /\ s \in Seq(Nat) /\ p.left \in 0..3
        /\ p.value \in Nat /\ p.least \in Nat
    BY <1>1 DEF Utf8State
  <1>3. d # Malformed
    BY MalformedState
  <1>4. CASE p.mode = "between"
    <2>1. d = Begins(p, byte) /\ Utf8Byte(i, byte) = Begins(i, byte)
      BY <1>1, <1>4 DEF Utf8Byte
    <2>2. byte \in 192..223 \cup 224..239 \cup 240..247
      BY <1>3, <2>1 DEF Begins
    <2>3. PICK l \in 0..3, v \in Nat, m \in Nat :
            /\ Begins(p, byte) = Within(l, v, m, s)
            /\ Begins(i, byte) = Within(l, v, m, t)
            /\ m >= 128
      <3>1. CASE byte \in 192..223
        <4>1. byte - 192 \in Nat
          BY <3>1
        <4>2. /\ Begins(p, byte) = Within(1, byte - 192, 128, s)
              /\ Begins(i, byte) = Within(1, byte - 192, 128, t)
          BY <3>1 DEF Begins
        <4> QED
          BY <4>1, <4>2
      <3>2. CASE byte \in 224..239
        <4>1. byte - 224 \in Nat
          BY <3>2
        <4>2. /\ Begins(p, byte) = Within(2, byte - 224, 2048, s)
              /\ Begins(i, byte) = Within(2, byte - 224, 2048, t)
          BY <3>2 DEF Begins
        <4> QED
          BY <4>1, <4>2
      <3>3. CASE byte \in 240..247
        <4>1. byte - 240 \in Nat
          BY <3>3
        <4>2. /\ Begins(p, byte) = Within(3, byte - 240, 65536, s)
              /\ Begins(i, byte) = Within(3, byte - 240, 65536, t)
          BY <3>3 DEF Begins
        <4> QED
          BY <4>1, <4>2
      <3> QED
        BY <2>2, <3>1, <3>2, <3>3
    <2> QED
      BY <1>1, <1>2, <2>1, <2>3, AlikeWithin
  <1>5. CASE p.mode = "within" /\ byte \in 128..191
    <2> DEFINE v == 64 * p.value + byte - 128
               m == p.least
    <2>1. v \in Nat
      <3>1. \A a \in Nat, b \in 128..191 : 64 * a + b - 128 \in Nat
        OBVIOUS
      <3> QED
        BY <1>2, <1>5, <3>1
    <2>2. d = Continues(p, v) /\ Utf8Byte(i, byte) = Continues(i, v)
      BY <1>1, <1>2, <1>5 DEF Utf8Byte
    <2>3. m >= 128 /\ m \in Nat
      BY <1>2, <1>5 DEF Alike
    <2> HIDE DEF v, m
    <2>4. CASE p.left > 1
      <3> DEFINE l == p.left - 1
      <3>1. l \in 0..3
        BY <1>2, <2>4
      <3>2. /\ Continues(p, v) = Within(l, v, m, s)
            /\ Continues(i, v) = Within(l, v, m, t)
        BY <1>1, <2>4 DEF Continues, m
      <3> HIDE DEF l, t, s
      <3> QED
        BY <1>1, <1>2, <2>1, <2>2, <2>3, <3>1, <3>2, AlikeWithin
    <2>5. CASE ~(p.left > 1)
      <3>1. v >= m /\ IsScalarValue(v)
        BY <1>3, <2>2, <2>5 DEF Continues, m
      <3>2. /\ Continues(p, v) = Between(Append(s, v))
            /\ Continues(i, v) = Between(Append(t, v))
        BY <1>1, <2>5, <3>1 DEF Continues, m
      <3>3. v >= 128
        BY <2>1, <2>3, <3>1
      <3> HIDE DEF t, s, d
      <3>4. Decode(Append(t, v)) = Plain(Append(s, v))
        BY <1>1, <1>2, <2>1, <3>3, HighCharacter
      <3>5. Append(t, v) \in Seq(Nat) /\ Append(s, v) \in Seq(Nat)
        BY <1>2, <2>1
      <3>6. Alike(Continues(i, v), Continues(p, v))
        BY <3>2, <3>4, <3>5, AlikeBetween
      <3> QED
        BY <2>2, <3>6 DEF d
    <2> QED
      BY <2>4, <2>5
  <1>6. CASE p.mode # "between" /\ ~(p.mode = "within" /\ byte \in 128..191)
    BY <1>3, <1>6 DEF Utf8Byte
  <1> QED
    BY <1>4, <1>5, <1>6

\* A byte below 80h may take several characters in the document.
LEMMA LowByte ==
  ASSUME NEW i, NEW p, Alike(i, p), NEW byte \in 0..127,
         Utf8Byte(p, byte).mode # "malformed"
  PROVE  Alike(Scan(Utf8Step, i, Escaped(byte)), Utf8Byte(p, byte))
  <1> DEFINE e == Escaped(byte)
             t == i.text
             s == p.text
  <1>1. /\ i \in Utf8State /\ p \in Utf8State /\ i.mode = p.mode
        /\ Decode(t) = Plain(s)
    BY DEF Alike
  <1>2. t \in Seq(Nat) /\ s \in Seq(Nat)
    BY <1>1 DEF Utf8State
  <1>3. p.mode = "between"
    <2>1. ASSUME p.mode # "between" PROVE Utf8Byte(p, byte) = Malformed
      BY <2>1 DEF Utf8Byte
    <2> QED
      BY <2>1, MalformedState
  <1>4. i = Between(t)
    BY <1>3 DEF Alike
  <1>5. Utf8Byte(p, byte) = Between(Append(s, byte))
    BY <1>1, <1>3, AsciiByte
  <1>6. /\ e \in Seq(0..127)
        /\ Scan(StringStep, Plain(s), e) = Plain(Append(s, byte))
    BY <1>2, EscapedReads
  <1> HIDE DEF e, t, s
  <1>7. Scan(Utf8Step, i, e) = Between(t \o e)
    BY <1>2, <1>4, <1>6, AsciiDecoded
  <1>8. e \in Seq(Nat)
    <2>1. 0..127 \subseteq Nat
      OBVIOUS
    <2> QED
      BY <1>6, <2>1, WiderSeq
  <1>9. Decode(t \o e) = Plain(Append(s, byte))
    <2>1. Decode(t \o e) = Scan(StringStep, Decode(t), e)
      BY <1>2, <1>8, ScanConcat DEF Decode
    <2> QED
      BY <1>1, <1>6, <2>1
  <1>10. t \o e \in Seq(Nat) /\ Append(s, byte) \in Seq(Nat)
    BY <1>2, <1>8
  <1>11. Alike(Scan(Utf8Step, i, e), Utf8Byte(p, byte))
    BY <1>5, <1>7, <1>9, <1>10, AlikeBetween
  <1> QED
    BY <1>11 DEF e

\* The first n bytes of the field, none of them a NUL, have been taken, and as
\* long as they are UTF-8, inner says what they say.
Says(inner, n) ==
  LET taken == SubSeq(field, 1, n)
  IN  /\ inner \in Seq(Octet)
      /\ \A i \in 1..n : field[i] # NUL
      /\ Utf8(taken) \in Utf8State
      /\ Utf8(taken).mode # "malformed" => Alike(Utf8(inner), Utf8(taken))

\* Only padding is dropped from the field.
FieldKept ==
  /\ field \in Seq(Octet) /\ Len(field) = FieldSize
  /\ used \in 0..FieldSize
  /\ \A i \in used + 1..FieldSize : Padding(field[i])

\* The copy is what is left of the field, and none of it is padding at its end.
CopyKept ==
  copy # << >> =>
    /\ copy = Append(SubSeq(field, 1, used), NUL)
    /\ used > 0 => ~Padding(field[used])

\* What stands in the document says what was taken from the copy.
Opened(inner, n) == out = <<QUOTE>> \o inner /\ Says(inner, n)
\* The closing quote is written: n bytes were taken, the rest is no text.
Finished(inner, n) ==
  /\ out = <<QUOTE>> \o inner \o <<QUOTE>>
  /\ Says(inner, n)
  /\ n < used => field[n + 1] = NUL

\* Nothing is written, or the string is open, or it is finished.
OutKept ==
  \/ cursor = 0 /\ out = << >>
  \/ /\ cursor \in 1..used + 1 /\ copy # << >>
     /\ \E inner \in Seq(Octet) : Opened(inner, cursor - 1)
  \/ /\ cursor = -1 /\ copy # << >>
     /\ \E n \in 0..used : \E inner \in Seq(Octet) : Finished(inner, n)

\* The inductive invariant of the escaper.
TextKept == FieldKept /\ CopyKept /\ OutKept

\* The field as it comes from the drive satisfies the invariant.
LEMMA TextInit == EscapeInit => TextKept
  <1> SUFFICES ASSUME EscapeInit PROVE TextKept
    OBVIOUS
  <1>1. field \in [1..FieldSize -> Octet] /\ FieldSize \in Nat
    BY EscapeAssumption DEF EscapeInit, Octet
  <1>2. field \in Seq(Octet) /\ Len(field) = FieldSize
    BY <1>1
  <1>3. FieldKept
    BY <1>1, <1>2 DEF EscapeInit, FieldKept
  <1> QED
    BY <1>3 DEF EscapeInit, TextKept, CopyKept, OutKept

\* Escapes are bytes.
LEMMA EscapedOctets ==
  ASSUME NEW byte \in Octet
  PROVE  Escaped(byte) \in Seq(Octet)
  <1>1. CASE byte >= 128
    <2>1. byte \notin DOMAIN ShortEscape
      BY <1>1 DEF ShortEscape, QUOTE, BACKSLASH
    <2>2. Escaped(byte) = <<byte>>
      BY <1>1, <2>1 DEF Escaped, Octet
    <2> QED
      BY <2>2
  <1>2. CASE ~(byte >= 128)
    <2> DEFINE e == Escaped(byte)
    <2>1. << >> \in Seq(Nat) /\ 0..127 \subseteq Octet /\ byte \in 0..127
      BY <1>2 DEF Octet
    <2>2. e \in Seq(0..127)
      BY <2>1, EscapedReads
    <2> HIDE DEF e
    <2>3. e \in Seq(Octet)
      BY <2>1, <2>2, WiderSeq
    <2> QED
      BY <2>3 DEF e
  <1> QED
    BY <1>1, <1>2

\* One more byte of the field is said by one more escape.
LEMMA SaysMore ==
  ASSUME FieldKept, NEW n \in Nat, n < used, NEW inner, Says(inner, n),
         field[n + 1] # NUL
  PROVE  Says(inner \o Escaped(field[n + 1]), n + 1)
  <1> DEFINE byte == field[n + 1]
             s == SubSeq(field, 1, n)
             t == SubSeq(field, 1, n + 1)
             e == Escaped(byte)
  <1>1. byte \in Octet /\ s \in Seq(Octet) /\ t = Append(s, byte)
    <2>1. /\ field \in Seq(Octet) /\ n < Len(field) /\ n \in 0..Len(field)
          /\ n + 1 \in 1..Len(field)
      BY EscapeAssumption DEF FieldKept
    <2> QED
      BY <2>1, Prefix, PrefixMore
  <1>2. /\ inner \in Seq(Octet) /\ Utf8(s) \in Utf8State
        /\ Utf8(s).mode # "malformed" => Alike(Utf8(inner), Utf8(s))
    BY DEF Says
  <1>3. \A i \in 1..n + 1 : field[i] # NUL
    BY DEF Says
  <1> HIDE DEF byte, s, t
  <1>4. Utf8(t) = Utf8Byte(Utf8(s), byte)
    <2>1. Utf8(t) = After(Utf8Step, Utf8(s), byte)
      BY <1>1, ScanAppend DEF Utf8
    <2> QED
      BY <1>1, <1>2, <2>1, ByteDecoded
  <1>5. Utf8(t) \in Utf8State
    BY <1>1, <1>2, <1>4, ByteDecoded
  <1>6. Utf8(t).mode # "malformed" => Utf8(s).mode # "malformed"
    BY <1>1, <1>2, <1>4, ByteDecoded, MalformedState
  <1>7. CASE byte >= 128
    <2>1. byte \in 128..255
      BY <1>1, <1>7 DEF Octet
    <2>2. e = <<byte>>
      <3>1. byte \notin DOMAIN ShortEscape
        BY <2>1 DEF ShortEscape, QUOTE, BACKSLASH
      <3> QED
        BY <2>1, <3>1 DEF Escaped
    <2>3. inner \o e = Append(inner, byte) /\ inner \o e \in Seq(Octet)
      BY <1>1, <1>2, <2>2
    <2>4. Utf8(inner \o e) = After(Utf8Step, Utf8(inner), byte)
      BY <1>1, <1>2, <2>3, ScanAppend DEF Utf8
    <2> HIDE DEF e
    <2>5. ASSUME Utf8(t).mode # "malformed"
          PROVE  Alike(Utf8(inner \o e), Utf8(t))
      <3>1. Alike(Utf8(inner), Utf8(s))
        BY <1>2, <1>6, <2>5
      <3>2. Alike(Utf8Byte(Utf8(inner), byte), Utf8Byte(Utf8(s), byte))
        BY <1>4, <2>1, <2>5, <3>1, HighByte
      <3>3. Utf8(inner) \in Utf8State
        BY <3>1 DEF Alike
      <3>4. Utf8(inner \o e) = Utf8Byte(Utf8(inner), byte)
        BY <1>1, <2>4, <3>3, ByteDecoded
      <3> QED
        BY <1>4, <3>2, <3>4
    <2>6. Says(inner \o e, n + 1)
      BY <1>3, <1>5, <2>3, <2>5 DEF Says, t
    <2> QED
      BY <2>6 DEF e, byte
  <1>8. CASE ~(byte >= 128)
    <2>1. byte \in 0..127
      BY <1>1, <1>8 DEF Octet
    <2>2. e \in Seq(Octet)
      BY <1>1, EscapedOctets
    <2>3. inner \o e \in Seq(Octet)
      BY <1>2, <2>2
    <2>4. Utf8(inner \o e) = Scan(Utf8Step, Utf8(inner), e)
      BY <1>2, <2>2, ScanConcat DEF Utf8
    <2>5. ASSUME Utf8(t).mode # "malformed"
          PROVE  Alike(Utf8(inner \o e), Utf8(t))
      <3>1. Alike(Utf8(inner), Utf8(s))
        BY <1>2, <1>6, <2>5
      <3>2. Alike(Scan(Utf8Step, Utf8(inner), Escaped(byte)),
                  Utf8Byte(Utf8(s), byte))
        BY <1>4, <2>1, <2>5, <3>1, LowByte
      <3> QED
        BY <1>4, <2>4, <3>2
    <2> HIDE DEF e
    <2>6. Says(inner \o e, n + 1)
      BY <1>3, <1>5, <2>3, <2>5 DEF Says, t
    <2> QED
      BY <2>6 DEF e, byte
  <1> QED
    BY <1>7, <1>8

\* The byte of the copy at the cursor is that of the field, or the end.
LEMMA CopyRead ==
  ASSUME FieldKept, CopyKept, copy # << >>, NEW n \in 0..used
  PROVE  /\ n < used => copy[n + 1] = field[n + 1]
         /\ n = used => copy[n + 1] = NUL
  <1> DEFINE s == SubSeq(field, 1, used)
  <1>0. field \in Seq(Octet) /\ used \in 0..Len(field)
    BY DEF FieldKept
  <1>1. /\ s \in Seq(Octet) /\ Len(s) = used /\ used \in Nat
        /\ \A i \in 1..used : s[i] = field[i]
    BY <1>0, Prefix
  <1>2. copy = Append(s, NUL)
    BY DEF CopyKept
  <1> HIDE DEF s
  <1>3. /\ copy[used + 1] = NUL
        /\ \A i \in 1..used : copy[i] = s[i]
    <2>1. NUL \in Octet
      BY DEF NUL, Octet
    <2> QED
      BY <1>1, <1>2, <2>1, AppendOne
  <1> QED
    BY <1>1, <1>3

\* Every step of trim_copy and append_escaped keeps the invariant.
LEMMA TextStep == TextKept /\ [EscapeNext]_escvars => TextKept'
  <1> SUFFICES ASSUME TextKept, [EscapeNext]_escvars PROVE TextKept'
    OBVIOUS
  <1> USE EscapeAssumption
  <1>1. CASE Trim
    <2>1. cursor = 0 /\ out = << >>
      BY <1>1 DEF Trim, TextKept, OutKept
    <2>2. FieldKept'
      BY <1>1 DEF Trim, TextKept, FieldKept, Padding
    <2> QED
      BY <1>1, <2>1, <2>2 DEF Trim, TextKept, CopyKept, OutKept
  <1>2. CASE CopyField
    <2>1. cursor = 0 /\ out = << >>
      BY <1>2 DEF CopyField, TextKept, OutKept
    <2>2. FieldKept'
      BY <1>2 DEF CopyField, TextKept, FieldKept, Padding
    <2>3. CopyKept'
      BY <1>2 DEF CopyField, CopyKept, Padding
    <2> QED
      BY <1>2, <2>1, <2>2, <2>3 DEF CopyField, TextKept, OutKept
  <1>3. CASE OpeningQuote
    <2>1. FieldKept' /\ CopyKept'
      BY <1>3 DEF OpeningQuote, TextKept, FieldKept, CopyKept, Padding
    <2>2. Says(<< >>, 0)'
      <3> DEFINE e == << >>
                 s == SubSeq(field', 1, 0)
      <3>1. s = e
        <4>1. field' \in Seq(Octet) /\ 0 \in 0..Len(field')
          BY <2>1, EscapeAssumption DEF FieldKept
        <4>2. s \in Seq(Octet) /\ Len(s) = 0
          BY <4>1, Prefix
        <4> HIDE DEF s
        <4> QED
          BY <4>2, EmptySeq
      <3>2. e \in Seq(Octet) /\ e \in Seq(Nat)
            /\ \A i \in 1..0 : field'[i] # NUL
        OBVIOUS
      <3>3. Decode(e) = Plain(e)
        BY ScanEmpty DEF Decode
      <3>4. Utf8(e) = Between(e)
        BY ScanEmpty DEF Utf8
      <3> HIDE DEF e, s
      <3>5. Utf8(e) \in Utf8State /\ Alike(Utf8(e), Utf8(e))
        BY <3>2, <3>3, <3>4, BetweenState, AlikeBetween
      <3>6. /\ e \in Seq(Octet)
            /\ \A i \in 1..0 : field'[i] # NUL
            /\ Utf8(s) \in Utf8State /\ Alike(Utf8(e), Utf8(s))
        BY <3>1, <3>2, <3>5
      <3> QED
        BY <3>6 DEF Says, e, s
    <2>3. OutKept'
      <3> DEFINE e == << >>
      <3>1. /\ out' = <<QUOTE>> \o e /\ cursor' = 1 /\ cursor' - 1 = 0
            /\ e \in Seq(Octet) /\ copy' # << >> /\ 1 \in 1..used' + 1
        BY <1>3, <2>1, ConcatEmptySeq DEF OpeningQuote, FieldKept, QUOTE
      <3>2. Says(e, cursor - 1)'
        BY <2>2, <3>1
      <3> HIDE DEF e
      <3> QED
        BY <3>1, <3>2 DEF OutKept, Opened
    <2> QED
      BY <2>1, <2>3 DEF TextKept
  <1>4. CASE EscapeByte
    <2>1. FieldKept' /\ CopyKept'
      BY <1>4 DEF EscapeByte, TextKept, FieldKept, CopyKept, Padding
    <2>2. /\ cursor \in 1..used + 1 /\ copy # << >>
          /\ FieldKept /\ CopyKept
      BY <1>4 DEF EscapeByte, TextKept, OutKept
    <2>3. PICK inner \in Seq(Octet) :
            out = <<QUOTE>> \o inner /\ Says(inner, cursor - 1)
      <3>1. PICK inner \in Seq(Octet) : Opened(inner, cursor - 1)
        BY <1>4 DEF EscapeByte, TextKept, OutKept
      <3> QED
        BY <3>1 DEF Opened
    <2> DEFINE n == cursor - 1
               e == Escaped(field[cursor])
    <2>4. /\ n \in Nat /\ n < used /\ copy[cursor] = field[cursor]
          /\ field[cursor] # NUL /\ n + 1 = cursor
      <3>1. n \in 0..used /\ n + 1 = cursor
        BY <2>2 DEF FieldKept
      <3> HIDE DEF n
      <3>2. /\ n < used => copy[n + 1] = field[n + 1]
            /\ n = used => copy[n + 1] = NUL
        BY <2>2, <3>1, CopyRead
      <3>3. copy[cursor] # NUL
        BY <1>4 DEF EscapeByte
      <3>4. n # used
        BY <3>1, <3>2, <3>3
      <3>5. n < used
        BY <2>2, <3>1, <3>4 DEF FieldKept
      <3> QED
        BY <3>1, <3>2, <3>3, <3>5
    <2>5. Says(inner \o e, cursor)
      <3> HIDE DEF n
      <3>1. Says(inner, n)
        BY <2>3 DEF n
      <3>2. Says(inner \o Escaped(field[n + 1]), n + 1)
        BY <2>2, <2>3, <2>4, <3>1, SaysMore
      <3> QED
        BY <2>4, <3>2
    <2>6. inner \o e \in Seq(Octet)
      BY <2>5 DEF Says
    <2>7. out' = <<QUOTE>> \o (inner \o e)
      <3>1. out' = (<<QUOTE>> \o inner) \o e
        BY <1>4, <2>3, <2>4 DEF EscapeByte
      <3>2. <<QUOTE>> \in Seq(Octet) /\ inner \in Seq(Octet)
        BY <2>3 DEF QUOTE, Octet
      <3>3. e \in Seq(Octet)
        <4>1. field \in Seq(Octet) /\ cursor \in 1..Len(field)
          BY <2>2, <2>4 DEF FieldKept
        <4>2. field[cursor] \in Octet
          BY <4>1
        <4> QED
          BY <4>2, EscapedOctets
      <3> HIDE DEF e
      <3> QED
        BY <3>1, <3>2, <3>3
    <2>8. /\ field' = field /\ copy' = copy /\ used' = used
          /\ cursor' - 1 = cursor /\ cursor' \in 1..used + 1
      BY <1>4, <2>2, <2>4 DEF EscapeByte, FieldKept
    <2>9. PICK i \in Seq(Octet) : i = inner \o e
      BY <2>6
    <2> HIDE DEF n, e
    <2>10. OutKept'
      <3>1. Says(i, cursor - 1)'
        <4> DEFINE k == cursor' - 1
        <4>1. k = cursor
          BY <2>8
        <4> HIDE DEF k
        <4>2. Says(i, cursor)
          BY <2>5, <2>9
        <4> DEFINE s == SubSeq(field', 1, k)
        <4>3. /\ i \in Seq(Octet)
              /\ \A m \in 1..k : field'[m] # NUL
              /\ Utf8(s) \in Utf8State
              /\ Utf8(s).mode # "malformed" => Alike(Utf8(i), Utf8(s))
          BY <2>8, <4>1, <4>2 DEF Says
        <4> HIDE DEF s
        <4> QED
          BY <4>3 DEF Says, k, s
      <3>2. out' = <<QUOTE>> \o i
        BY <2>7, <2>9
      <3>3. /\ cursor' \in 1..used' + 1 /\ copy' # << >>
        BY <2>2, <2>8
      <3> QED
        BY <3>1, <3>2, <3>3 DEF OutKept, Opened
    <2> QED
      BY <2>1, <2>10 DEF TextKept
  <1>5. CASE ClosingQuote
    <2>1. FieldKept' /\ CopyKept'
      BY <1>5 DEF ClosingQuote, TextKept, FieldKept, CopyKept, Padding
    <2>2. /\ cursor \in 1..used + 1 /\ copy # << >>
          /\ FieldKept /\ CopyKept
      BY <1>5 DEF ClosingQuote, TextKept, OutKept
    <2>3. PICK inner \in Seq(Octet) :
            out = <<QUOTE>> \o inner /\ Says(inner, cursor - 1)
      <3>1. PICK inner \in Seq(Octet) : Opened(inner, cursor - 1)
        BY <1>5 DEF ClosingQuote, TextKept, OutKept
      <3> QED
        BY <3>1 DEF Opened
    <2> DEFINE n == cursor - 1
    <2>4. /\ n \in 0..used /\ n + 1 = cursor
          /\ n < used => field[n + 1] = NUL
      <3>1. n \in 0..used /\ n + 1 = cursor
        BY <2>2 DEF FieldKept
      <3> HIDE DEF n
      <3>2. n < used => copy[n + 1] = field[n + 1]
        BY <2>2, <3>1, CopyRead
      <3> QED
        BY <1>5, <3>1, <3>2 DEF ClosingQuote
    <2>5. out' = <<QUOTE>> \o inner \o <<QUOTE>>
      <3>1. <<QUOTE>> \o inner \in Seq(Octet)
        BY <2>3 DEF QUOTE, Octet
      <3>2. out' = Append(<<QUOTE>> \o inner, QUOTE)
        BY <1>5, <2>3 DEF ClosingQuote
      <3> DEFINE o == <<QUOTE>> \o inner
      <3> HIDE DEF o
      <3>3. Append(o, QUOTE) = o \o <<QUOTE>>
        BY <3>1 DEF o, QUOTE, Octet
      <3> QED
        BY <3>2, <3>3 DEF o
    <2>6. /\ field' = field /\ copy' = copy /\ used' = used /\ cursor' = -1
      BY <1>5 DEF ClosingQuote
    <2> HIDE DEF n
    <2>7. Says(inner, n)
      BY <2>3 DEF n
    <2>8. OutKept'
      <3> DEFINE s == SubSeq(field', 1, n)
      <3>1. /\ inner \in Seq(Octet)
            /\ \A k \in 1..n : field'[k] # NUL
            /\ Utf8(s) \in Utf8State
            /\ Utf8(s).mode # "malformed" => Alike(Utf8(inner), Utf8(s))
        BY <2>6, <2>7 DEF Says
      <3>2. /\ n \in 0..used' /\ (n < used' => field'[n + 1] = NUL)
            /\ cursor' = -1 /\ copy' # << >>
        BY <2>2, <2>4, <2>6
      <3> QED
        BY <2>5, <3>1, <3>2 DEF OutKept, Finished, Says
    <2> QED
      BY <2>1, <2>8 DEF TextKept
  <1>6. CASE UNCHANGED escvars
    BY <1>6 DEF escvars, TextKept, FieldKept, CopyKept, OutKept, Opened,
                Finished, Says, Padding
  <1> QED
    BY <1>1, <1>2, <1>3, <1>4, <1>5, <1>6 DEF EscapeNext

\* The bytes between the quotes of a string in quotes.
LEMMA Unquoted ==
  ASSUME NEW inner \in Seq(Octet), out = <<QUOTE>> \o inner \o <<QUOTE>>
  PROVE  Inner = inner
  <1>1. /\ out \in Seq(Octet) /\ Len(out) = Len(inner) + 2
        /\ \A i \in 1..Len(inner) : out[i + 1] = inner[i]
    <2> DEFINE a == <<QUOTE>>
    <2>1. a \in Seq(Octet) /\ Len(a) = 1 /\ a[1] = QUOTE
      BY DEF QUOTE, Octet
    <2> HIDE DEF a
    <2>2. out = (a \o inner) \o a
      BY DEF a
    <2> QED
      BY <2>1, <2>2
  <1> DEFINE t == SubSeq(out, 2, Len(out) - 1)
  <1>2. /\ t \in Seq(Octet) /\ Len(t) = Len(inner)
        /\ \A i \in 1..Len(inner) : t[i] = inner[i]
    <2> DEFINE m == Len(inner)
    <2>1. m \in Nat /\ Len(out) - 1 = m + 1
      BY <1>1
    <2> HIDE DEF m
    <2>2. 2 <= m + 2 /\ m + 1 <= Len(out) /\ m + 1 \in Nat
      BY <1>1, <2>1
    <2>3. /\ SubSeq(out, 2, m + 1) \in Seq(Octet)
          /\ Len(SubSeq(out, 2, m + 1)) = m
          /\ \A i \in 1..m : SubSeq(out, 2, m + 1)[i] = out[i + 1]
      BY <1>1, <2>1, <2>2
    <2> QED
      BY <1>1, <2>1, <2>3 DEF m
  <1> HIDE DEF t
  <1>3. t = inner
    BY <1>2, SeqEqual
  <1> QED
    BY <1>3 DEF Inner, t

\* A finished string that satisfies the invariant reads back as the text of
\* the field, where that is UTF-8.
LEMMA TextSays == TextKept => TextSurvives
  <1> SUFFICES ASSUME TextKept, cursor = -1
               PROVE  /\ out = <<QUOTE>> \o Inner \o <<QUOTE>>
                      /\ \E n \in 0..FieldSize :
                           LET text == SubSeq(field, 1, n)
                           IN  /\ IsTextOf(text, field)
                               /\ IsUtf8(text) =>
                                    /\ IsJsonString(Inner)
                                    /\ StringText(Inner) = CodePoints(text)
    BY DEF TextSurvives
  <1>1. PICK n \in 0..used : \E inner \in Seq(Octet) : Finished(inner, n)
    BY DEF TextKept, OutKept
  <1>2. PICK inner \in Seq(Octet) :
          /\ out = <<QUOTE>> \o inner \o <<QUOTE>>
          /\ Says(inner, n)
          /\ n < used => field[n + 1] = NUL
    BY <1>1 DEF Finished
  <1>3. Inner = inner
    BY <1>2, Unquoted
  <1> DEFINE s == SubSeq(field, 1, n)
  <1>4. n \in 0..FieldSize
    BY EscapeAssumption DEF TextKept, FieldKept
  <1>5. /\ s \in Seq(Octet) /\ Len(s) = n /\ n <= Len(field)
        /\ \A i \in 1..n : s[i] = field[i]
    <2>1. field \in Seq(Octet) /\ n \in 0..Len(field)
      BY EscapeAssumption DEF TextKept, FieldKept
    <2> QED
      BY <2>1, Prefix
  <1>6. IsTextOf(s, field)
    <2>1. NUL \notin {s[i] : i \in 1..Len(s)}
      BY <1>2, <1>5 DEF Says
    <2>2. \/ \A i \in n + 1..Len(field) : field[i] \in {SPACE, NUL}
          \/ field[n + 1] = NUL
      BY <1>2, EscapeAssumption DEF TextKept, FieldKept, Padding
    <2>3. (\A i \in n + 1..Len(field) : field[i] \in {SPACE, NUL}) =>
             n = 0 \/ field[n] # SPACE
      <3>1. used > 0 => field[used] \notin {SPACE, NUL}
        BY DEF TextKept, OutKept, CopyKept, Padding
      <3>2. used \in 0..Len(field) /\ n \in 0..used
        BY EscapeAssumption DEF TextKept, FieldKept
      <3> QED
        BY <3>1, <3>2
    <2>4. s = SubSeq(field, 1, Len(s))
      BY <1>5
    <2> HIDE DEF s
    <2> QED
      BY <1>5, <2>1, <2>2, <2>3, <2>4 DEF IsTextOf
  <1>7. ASSUME IsUtf8(s)
        PROVE  IsJsonString(Inner) /\ StringText(Inner) = CodePoints(s)
    <2>1. Alike(Utf8(inner), Utf8(s)) /\ Utf8(s).mode = "between"
      BY <1>2, <1>7 DEF Says, IsUtf8
    <2> HIDE DEF s
    <2>2. /\ Utf8(inner).mode = "between"
          /\ Decode(CodePoints(inner)) = Plain(CodePoints(s))
      BY <2>1 DEF Alike, CodePoints
    <2>3. /\ Plain(CodePoints(s)).mode = "plain"
          /\ Plain(CodePoints(s)).text = CodePoints(s)
      BY DEF Plain
    <2> QED
      BY <1>3, <2>2, <2>3 DEF IsJsonString, IsUtf8, StringText
  <1> QED
    BY <1>2, <1>3, <1>4, <1>6, <1>7

\* The text of every field that is UTF-8 is written as a JSON string of the
\* same characters, whatever the length of the field.
THEOREM TextSurvivesInvariant == EscapeSpec => []TextSurvives
  <1>1. EscapeInit => TextKept
    BY TextInit
  <1>2. TextKept /\ [EscapeNext]_escvars => TextKept'
    BY TextStep
  <1>3. TextKept => TextSurvives
    BY TextSays
  <1> QED
    BY <1>1, <1>2, <1>3, PTL DEF EscapeSpec
=============================================================================
