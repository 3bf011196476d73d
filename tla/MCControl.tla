------------------------------ MODULE MCControl ------------------------------
(***************************************************************************)
(* Every program of Lines lines over one statement of each control kind,    *)
(* blocks in blocks, and loops with a STEP.                                 *)
(***************************************************************************)
EXTENDS MCSource

CONSTANT Lines

X == Id("x")
Y == Id("y")
Lower == LetLine(X, Bin("LT", Num(1), X))      \* 2, 1, 0, 0, ...

SetUp == <<{LetLine(X, Num(2))}, {LetLine(Y, Num(1))}>>

Openings ==
  {TestLine("if", X), ForLine("y", Num(1), X, <<>>), Line("do"), TestLine("dowhile", X),
   TestLine("dountil", Bin("LE", X, Num(0)))}

Turns == {Line("else"), TestLine("elseif", Bin("EQ", Y, Num(1)))}

Closings ==
  {Line("endif"), NextLine("y"), Line("loop"), TestLine("loopwhile", X),
   TestLine("loopuntil", Bin("LE", X, Num(1)))}

Statements == {LetLine(X, Num(2)), Lower} \cup Openings \cup Turns \cup Closings

\* x = 2, y = 1, then any Lines statements.
AnyProgram == SetUp \o [i \in 1 .. Lines |-> Statements]

\* x = 2, y = 1, then blocks in blocks with work inside, between and after.
NestedProgram ==
  SetUp \o <<Openings, Openings, {Lower, LetLine(Y, Bin("SUB", Num(3), Y))}, Turns \cup Closings,
             {Lower, LetLine(X, Num(0))} \cup Closings, Closings \cup {LetLine(Y, Num(0))}, Closings>>

\* FOR with a STEP: one, several or no turns, a step that the body changes, that is
\* negative, and that takes the variable past the end of a word.
StepProgram ==
  SetUp
    \o <<{ForLine("y", start, end, <<step>>) :
            start \in {Num(1), Num(40)}, end \in {Num(3), Num(12)},
            step \in {Num(4), X, Num(-20000), Bin("SHL", X, Num(1))}},
         {Lower, LetLine(X, Bin("ADD", X, Y)), LetLine(Y, Bin("ADD", Y, X)), ForLine("x", Num(1), Num(5), <<Num(3)>>)},
         {NextLine("y"), NextLine("x"), LetLine(Y, Bin("ADD", Y, Num(1)))},
         {LetLine(Y, Bin("SUB", X, Y)), NextLine("y")}>>

ControlPrograms == <<AnyProgram, NestedProgram, StepProgram>>
=============================================================================
