------------------------------- MODULE MCData -------------------------------
(***************************************************************************)
(* One assignment of every operator over variables, literals and calls that *)
(* leave a trace; and programs that use arrays, PRINT and ASM.              *)
(***************************************************************************)
EXTENDS MCSource

X == Id("x")
Y == Id("y")
Z == Id("z")

\* The family of one program.
Only(lines) == [i \in 1 .. Len(lines) |-> {lines[i]}]

\* Operands on both sides of the byte and word limits of a literal.
Values == {-32768, -129, -128, -1, 0, 1, 3, 127, 128, 32767}

\* z counts the calls of t: an operand that is skipped or evaluated twice shows.
Trace == <<DefLine("t", <<"a">>), DimLine("b", <<>>), LetLine(Z, Bin("ADD", Bin("MUL", Z, Num(4)), Num(1))),
           ReturnLine(<<Id("a")>>), Line("endfunction")>>
T(e) == Fn("t", <<e>>)

BinaryNames == {name \in DOMAIN Op : Op[name] \in BinaryOps}
UnaryNames  == {name \in DOMAIN Op : Op[name] \in UnaryOps}

Expressions ==
  {Bin(op, X, Y) : op \in BinaryNames}
    \cup {Bin(op, X, Num(v)) : op \in {"ADD", "DIV", "REM", "SHL", "LT"}, v \in {-129, 0, 1, 127, 128}}
    \cup {Bin(op, Num(200), Bin(o, X, Num(3))) : op \in {"SUB", "GE"}, o \in {"BAND", "SHR"}}
    \cup {Un(op, X) : op \in UnaryNames}
    \cup {AnyOf(<<X, T(Y), T(X)>>), AllOf(<<T(X), Y, T(Y)>>),
          AnyOf(<<AllOf(<<T(X), T(Y)>>), T(Num(0))>>),
          Bin("SUB", T(X), Un("NEG", T(Bin("MUL", Y, Num(2)))))}

ExpressionProgram ==
  <<{LetLine(Z, Num(0))}>> \o Only(Trace)
    \o <<{LetLine(X, Num(v)) : v \in Values}, {LetLine(Y, Num(v)) : v \in {-1, 0, 2, 32767}},
         {LetLine(X, e) : e \in Expressions}>>

\* Both operands literal: the compiler computes the result.
Folded == {Bin(op, Num(l), Num(r)) : op \in BinaryNames, l \in Values, r \in Values}
            \cup {Un(op, Num(v)) : op \in UnaryNames, v \in Values}
FoldedProgram == <<{LetLine(X, e) : e \in Folded}>>
-----------------------------------------------------------------------------
\* io.bas, and code that reads and writes a byte, calls native code, waits for
\* a character and flushes.
Helper(f, xs, code) == <<DefLine(f, xs), AsmLine(code), Line("endfunction")>>
PrintHelper(f, trap) == Helper(f, <<"chn", "n">>, <<InstrOf("LREF", 1), InstrOf("TRAP", trap)>>)
PrintLibrary ==
  PrintHelper("printInt", Trap.PrintInt) \o Helper("printNL", <<"chn">>, <<InstrOf("TRAP", Trap.PrintNL)>>)
ByteLibrary ==
  Helper("lowbyte", <<"a">>, <<InstrOf("LREF", 0), Instr("LOADB"), Instr("RETURN")>>)
    \o Helper("setbyte", <<"a", "b">>, <<InstrOf("LREF", 1), InstrOf("LREF", 0), Instr("STOREB")>>)
    \o Helper("idle", <<>>, <<InstrOf("NATIVE", 0), InstrOf("TRAP", Trap.PrintFlush)>>)
    \o Helper("getchar", <<>>, <<InstrOf("TRAP", Trap.GetChar), Instr("RETURN")>>)

ArrayProgram ==
  <<{ArrayLine("v", 3, <<Num(2), Num(300), Num(-1)>>), ArrayLine("v", 3, <<>>),
     ArrayLine("v", 2, <<Num(1), Num(0)>>), ArrayLine("v", 3, <<Num(2)>>)},
    {DimLine("n", <<Bin("ADD", Num(100), Num(100))>>), DimLine("n", <<>>)}>>
    \o Only(PrintLibrary \o ByteLibrary)
    \o <<{LetLine(X, Num(1)), LetLine(X, Idx("v", Num(1))), LetLine(X, Fn("lowbyte", <<Id("v")>>))},
         {LetLine(Idx("v", X), Id("n")), LetLine(Idx("v", Num(0)), Idx("v", X)),
          CallLine(Fn("setbyte", <<Id("v"), Num(1)>>)), CallLine(Fn("idle", <<>>))},
         {LetLine(Id("n"), Idx("v", Idx("v", Num(1)))), LetLine(X, Fn("getchar", <<>>)),
          AsmLine(<<InstrOf("TRAP", 9)>>), AsmLine(<<InstrOf("LIT", 9999), Instr("RETURN")>>),
          AsmLine(<<InstrOf("SLIT", 0), Instr("CALL")>>)},
         {PrintLine(X), IfThenLine(X, Line("end")), PrintLine(Idx("v", Num(0))), PrintLine(Bin("MUL", X, Num(2)))}>>

\* Texts that are met once, again, and before and after other data; every form of
\* PRINT; declarations of several variables, right and wrong.
PrintProgram ==
  <<{DimsLine(<<Decl("n", <<Num(7)>>), ArrayDecl("v", <<Num(2)>>, <<Num(5), Num(6)>>), Decl("m", <<>>)>>),
     DimsLine(<<Decl("n", <<X>>)>>), DimsLine(<<ArrayDecl("v", <<Num(0)>>, <<>>)>>),
     DimsLine(<<ArrayDecl("v", <<>>, <<Num(1)>>)>>), DimsLine(<<ArrayDecl("v", <<>>, <<>>), Decl("n", <<>>)>>),
     DimsLine(<<ArrayDecl("v", <<Num(1)>>, <<Num(5), Num(6)>>)>>), DimsLine(<<ArrayDecl("v", <<X>>, <<>>)>>)}>>
    \o Only(PrintLibrary \o PrintHelper("printStr", Trap.PrintStr))
    \o <<{DefLine("printTab", <<"chn">>), DefLine("printTabs", <<"chn">>)},
         {AsmLine(<<InstrOf("TRAP", Trap.PrintTab)>>)}, {Line("endfunction")},
         {PrintItemsLine(<<>>, <<Str("x")>>), LetLine(X, Num(300)), LetLine(X, Bin("ADD", Str("x"), Num(1))),
          LetLine(X, Un("NEG", Str("")))},
         {PrintItemsLine(<<>>, <<Str(""), TabItem, Str("x\n"), JoinItem>>), LetLine(X, Idx("v", Num(1)))},
         {PrintItemsLine(<<Num(2)>>, <<Str("x"), Str("x\n"), IntItem(Num(3)), TabItem, IntItem(Idx("v", Num(0)))>>),
          PrintItemsLine(<<Id("n")>>, <<IntItem(Id("n")), JoinItem, Str("x")>>), PrintItemsLine(<<>>, <<>>),
          AsmLine(<<[op |-> "SLIT", arg |-> <<X>>]>>), AsmLine(<<InstrOf("SLIT", 1), Instr("DROP")>>)}>>

DataPrograms == <<ExpressionProgram, FoldedProgram, ArrayProgram, PrintProgram>>
=============================================================================
