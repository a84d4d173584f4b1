-------------------------------- MODULE Scan --------------------------------
(***************************************************************************)
(* Reading a sequence element by element.  The step is a function from a   *)
(* state and an element to a state, so that facts about a scan can be      *)
(* stated for every step at once.                                          *)
(***************************************************************************)
EXTENDS Naturals, Sequences

After(step, q, x) == step[<<q, x>>]

\* The state in which s leaves a reader that starts in start.
Scan(step, start, s) ==
  LET at[n \in 0..Len(s)] ==
        IF n = 0 THEN start ELSE After(step, at[n - 1], s[n])
  IN  at[Len(s)]
=============================================================================
