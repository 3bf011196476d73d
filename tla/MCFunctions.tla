----------------------------- MODULE MCFunctions -----------------------------
(***************************************************************************)
(* Programs with two functions: arguments, recursion, forward references,   *)
(* results that are used and results that are dropped; and programs that     *)
(* use functions and variables nothing stands behind.                       *)
(***************************************************************************)
EXTENDS MCSource

X == Id("x")
Y == Id("y")
A == Id("a")
B == Id("b")
Less(e) == Bin("SUB", e, Num(1))
Plus(l, r) == Bin("ADD", l, r)

FunctionProgram ==
  <<{LetLine(X, Num(2))},
    {LetLine(Y, Num(1))},
    {DefLine("f", <<"a", "b">>)},
      {TestLine("if", A), TestLine("dowhile", Bin("GT", A, Num(0)))},
        {ReturnLine(<<Fn("f", <<Less(A), Plus(A, B)>>)>>),
         LetLine(Y, Plus(Fn("f", <<Less(A), X>>), A)),
         CallLine(Fn("g", <<B>>)),
         ReturnLine(<<Plus(Fn("g", <<A>>), Bin("MUL", A, B))>>)},
        {LetLine(A, Less(A))},
      {Line("endif"), Line("loop")},
      {ReturnLine(<<B>>), ReturnLine(<<>>), LetLine(X, Plus(B, Y)), Line("rem")},
    {Line("endfunction")},
    {DefLine("g", <<"a">>)},
      {ReturnLine(<<Plus(Fn("f", <<Num(0), A>>), X)>>), LetLine(A, Plus(A, A)),
       ReturnLine(<<Fn("f", <<Num(1), A>>)>>)},
      {LetLine(Y, A), ReturnLine(<<Y>>)},
    {Line("endfunction")},
    {LetLine(X, Fn("f", <<X, Y>>)), CallLine(Fn("f", <<Y, Num(300)>>)),
     LetLine(Y, Plus(Fn("g", <<Fn("f", <<Num(1), X>>)>>), Fn("f", <<Num(0), Fn("g", <<Y>>)>>)))}>>

\* u and h, where u may be assigned to before what reads it or after it, in front of
\* the function that reads it, behind it or never; and h may be defined in the end, or
\* begun, or called in vain.
U == Id("u")
H(e) == Fn("h", <<e>>)
MissingProgram ==
  <<{LetLine(X, Num(0)), LetLine(U, Num(1)), CallLine(H(Num(1)))},
    {DefLine("g", <<"a">>)},
      {ReturnLine(<<U>>), ReturnLine(<<H(A)>>), LetLine(U, A), LetLine(A, U)},
    {Line("endfunction")},
    {TestLine("if", U), TestLine("if", Num(1))},
      {LetLine(X, U), LetLine(X, H(U)), LetLine(U, H(Num(1))), LetLine(Y, Fn("g", <<Num(7)>>))},
    {Line("endif")},
    {LetLine(X, Fn("g", <<U>>)), LetLine(U, Num(5)), LetLine(Y, H(H(U)))},
    {DefLine("h", <<"a">>), Line("rem")},
      {ReturnLine(<<A>>), LetLine(X, A)},
    {Line("endfunction"), Line("rem")}>>

FunctionPrograms == <<FunctionProgram, MissingProgram>>
=============================================================================
