------------------------------- MODULE LineList -------------------------------
(***************************************************************************)
(* The line editor (edit.c) one level below ProgramText: the lines are a     *)
(* sequence, and a command finds its place in it with FindLineN, the first   *)
(* line whose number is not below the one asked for.  The bytes the lines    *)
(* are kept in are the business of EditBuffer.                               *)
(***************************************************************************)
EXTENDS Integers, Sequences

CONSTANTS
  Numbers,          \* line numbers a line may be entered under
  Texts,            \* the texts of lines
  MaxLines          \* bounds the number of lines, as the edit buffer does

ASSUME LineListAssumption == Numbers \subseteq Nat /\ MaxLines \in Nat

VARIABLE list

Line == [number : Nat, text : Texts]

TypeOK == list \in Seq(Line)

Init == list = <<>>

\* FindLineN stopped at place i of the sequence, one past its end if no line
\* has the number or a greater one.
FindLineN(n, i) ==
  /\ i \in 1 .. Len(list) + 1
  /\ \A j \in 1 .. i - 1 : list[j].number < n
  /\ i <= Len(list) => n <= list[i].number

Found(n, i) == i <= Len(list) /\ list[i].number = n

Inserted(i, l) ==
  [j \in 1 .. Len(list) + 1 |-> IF j < i THEN list[j] ELSE IF j = i THEN l ELSE list[j - 1]]

Deleted(i) == [j \in 1 .. Len(list) - 1 |-> IF j < i THEN list[j] ELSE list[j + 1]]

BufAddLineNMutant(n, t) ==              \* a line with the number is kept as well
  \E i \in 1 .. Len(list) + 1 :
    /\ FindLineN(n, i)
    /\ Len(list) < MaxLines
    /\ list' = Inserted(i, [number |-> n, text |-> t])

BufAddLineN(n, t) ==
  \E i \in 1 .. Len(list) + 1 :
    /\ FindLineN(n, i)
    /\ \/ /\ Found(n, i)
          /\ list' = [list EXCEPT ![i] = [number |-> n, text |-> t]]
       \/ /\ ~Found(n, i)
          /\ Len(list) < MaxLines
          /\ list' = Inserted(i, [number |-> n, text |-> t])

BufDeleteLineN(n) ==
  \E i \in 1 .. Len(list) : FindLineN(n, i) /\ Found(n, i) /\ list' = Deleted(i)

BufNew == list' = <<>>

DoRenumMutant ==                        \* the lines are numbered from the last one
  list' = [i \in 1 .. Len(list) |-> [number |-> 100 + 10 * (Len(list) - i), text |-> list[i].text]]

DoRenum ==
  list' = [i \in 1 .. Len(list) |-> [number |-> 100 + 10 * (i - 1), text |-> list[i].text]]

Next ==
  \/ \E n \in Numbers, t \in Texts : BufAddLineN(n, t)
  \/ \E n \in Numbers : BufDeleteLineN(n)
  \/ BufNew
  \/ DoRenum

Spec == Init /\ [][Next]_list
-----------------------------------------------------------------------------
\* LIST, RUN and SAVE go through the lines in ascending order of number, each
\* number once; FindLineN's early stop is right only because of it.
Increasing == \A i, j \in 1 .. Len(list) : i < j => list[i].number < list[j].number

\* The sequence implements the set of numbered lines.
LinesOf(s) == {s[i] : i \in 1 .. Len(s)}
Text == INSTANCE ProgramText WITH program <- LinesOf(list)
ImplementsProgramText == Text!Spec
=============================================================================
