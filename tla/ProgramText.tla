----------------------------- MODULE ProgramText -----------------------------
(***************************************************************************)
(* What the line editor (edit.c) promises: the program is a set of numbered *)
(* lines, no two with the same number, whatever order they were typed in.   *)
(***************************************************************************)
EXTENDS Naturals, FiniteSets

CONSTANTS
  Numbers,          \* line numbers a line may be entered under
  Texts             \* the texts of lines

VARIABLE program    \* a set of lines

Line == [number : Nat, text : Texts]

Init == program = {}

Others(n) == {l \in program : l.number # n}

\* Entering a line replaces the one that has its number.
Enter(n, t) == program' = Others(n) \cup {[number |-> n, text |-> t]}

Remove(n) == program' = Others(n)

Clear == program' = {}

\* RENUM keeps the order of the lines and numbers them 100, 110, 120...
Before(l) == {m \in program : m.number < l.number}
Renumber ==
  program' = {[number |-> 100 + 10 * Cardinality(Before(l)), text |-> l.text] : l \in program}

Next ==
  \/ \E n \in Numbers, t \in Texts : Enter(n, t)
  \/ \E n \in Numbers : Remove(n)
  \/ Clear
  \/ Renumber

Spec == Init /\ [][Next]_program
-----------------------------------------------------------------------------
\* A line number names at most one line.
NumbersUnique == \A l, m \in program : l.number = m.number => l = m
=============================================================================
