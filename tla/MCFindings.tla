------------------------------ MODULE MCFindings ------------------------------
(***************************************************************************)
(* Programs that the README describes and the toolchain gets wrong.         *)
(***************************************************************************)
EXTENDS Toolchain, MCSource

X == Id("x")
Family(lines) == [i \in 1 .. Len(lines) |-> {lines[i]}]

\* A function with a local, called by a function that still needs its argument.
LocalPrograms ==
  <<Family(<<DefLine("h", <<"a">>), DimLine("b", <<Num(5)>>),
              ReturnLine(<<Bin("ADD", Id("a"), Id("b"))>>), Line("endfunction"),
            DefLine("f", <<"a">>), ReturnLine(<<Bin("ADD", Fn("h", <<Id("a")>>), Id("a"))>>),
              Line("endfunction"),
            LetLine(X, Fn("f", <<Num(1)>>))>>)>>

RECURSIVE FramesFrom(_)
FramesFrom(p) ==
  IF p = StackSize THEN TRUE
  ELSE p \in 1 .. StackSize - 1 /\ stack[p - 1] > p /\ FramesFrom(stack[p - 1])

\* The frame pointers that OP_FRAME saves lead, outwards, from the current frame to
\* the base of the stack: what FrameChainIntact says of trusted code, asked of all.
FramesReachBase ==
  status = "running" /\ expected.ctl # "error" => fp >= sp /\ FramesFrom(fp)

\* END before the last line.
EndPrograms ==
  <<Family(<<LetLine(X, Num(1)), TestLine("if", X), Line("end"), Line("endif"), LetLine(X, Num(2))>>)>>

\* A scalar that is declared and then used in an expression.
DimPrograms ==
  <<Family(<<DimLine("d", <<Num(5)>>), LetLine(X, Bin("ADD", Id("d"), Num(1)))>>)>>

\* A control variable that only its FOR names.
ForPrograms ==
  <<Family(<<LetLine(X, Num(0)), ForLine("i", Num(1), Num(3), <<>>),
              LetLine(X, Bin("BAND", Bin("ADD", X, Num(1)), Num(7))), NextLine("i")>>)>>
=============================================================================
