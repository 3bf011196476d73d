------------------------------- MODULE CodeGen -------------------------------
(***************************************************************************)
(* The code generator (generate.c) over the workspace record g.              *)
(* Parse trees are the records Parser builds.  The parts of an expression    *)
(* are nested, statements are indexes into the sequence nodes.               *)
(***************************************************************************)
EXTENDS Workspace

SetPV(g, f, v) == [g EXCEPT !.pv = [fcn |-> f, val |-> v]]

\* Only a variable is loaded or stored at its address: any other symbol's
\* value is the address, which nothing can be stored to.
CodeSymbolAccess(g, class, access) ==
  CASE class = "variable" -> PutByte(g, IF access = "load" THEN Op.LOAD ELSE Op.STORE)
    [] class # "variable" /\ access = "load"  -> g
    [] class # "variable" /\ access = "store" -> Fatal(g)

CodeGlobal(g, access) ==
  CodeSymbolAccess(CodeSymbolRef(g, g.pv.val), g.syms[g.pv.val].class, access)

CodeLocal(g, access) ==
  PutByte(PutByte(g, IF access = "load" THEN Op.LREF ELSE Op.LSET), g.pv.val)

CodeIndex(g, access) == PutByte(g, IF access = "load" THEN Op.LOAD ELSE Op.STORE)

Access(g, access) ==
  CASE g.pv.fcn = "global" -> CodeGlobal(g, access)
    [] g.pv.fcn = "local"  -> CodeLocal(g, access)
    [] g.pv.fcn = "index"  -> CodeIndex(g, access)
    [] g.pv.fcn = "null"   -> [g EXCEPT !.gen = "crash"]

RECURSIVE CodeExpr(_, _)

Loaded(g) == IF g.pv.fcn = "null" THEN g ELSE Access(g, "load")
RValue(g, e) == Loaded(CodeExpr(g, e))

\* Disjunctions and conjunctions: each operand but the last is followed by a
\* short-circuit branch to the end.
CodeShortCircuit(g, op, es) ==
  LET step(acc, e) == <<RValue(PutBranch(acc[1], op, acc[2]), e), CodeAddr(acc[1]) + 1>>
      end(acc) == FixupHere(acc[1], acc[2])
  IN  end(FoldLeft(step, <<RValue(g, Head(es)), 0>>, Tail(es)))

CodeClean(g, n) == IF n = 0 THEN g ELSE PutByte(PutByte(g, Op.CLEAN), n)
CodeCallMutant(g, e) ==                 \* leaves the actuals on the stack
  PutByte(RValue(FoldLeft(RValue, g, e.args), e.fcn), Op.CALL)
CodeCall(g, e) ==
  CodeClean(PutByte(RValue(FoldLeft(RValue, g, e.args), e.fcn), Op.CALL), Len(e.args))

CodeArrayRef(g, e) ==
  SetPV(PutByte(RValue(CodeExpr(g, e.array), e.index), Op.INDEX), "index", 0)

CodeIntegerLit(g, v) ==
  IF v \in -128 .. 127 THEN PutByte(PutByte(g, Op.SLIT), v)
  ELSE PutWord(PutByte(g, Op.LIT), v)

Value(g) == [g EXCEPT !.pv = NoPV]

CodeExpr(g, e) ==
  CASE e.k = "num"    -> Value(CodeIntegerLit(g, e.val))
    [] e.k = "str"    -> Value(PutWord(PutByte(g, Op.LIT), e.addr))
    [] e.k = "global" -> SetPV(g, "global", e.sym)
    [] e.k = "arg"    -> SetPV(g, "local", e.val)
    [] e.k = "local"  -> SetPV(g, "local", -1 - e.val)
    [] e.k = "un"     -> Value(PutByte(RValue(g, e.e), e.op))
    [] e.k = "bin"    -> Value(PutByte(RValue(RValue(g, e.l), e.r), e.op))
    [] e.k = "or"     -> Value(CodeShortCircuit(g, Op.BRTSC, e.es))
    [] e.k = "and"    -> Value(CodeShortCircuit(g, Op.BRFSC, e.es))
    [] e.k = "call"   -> Value(CodeCall(g, e))
    [] e.k = "idx"    -> CodeArrayRef(g, e)
-----------------------------------------------------------------------------
RECURSIVE CodeStmt(_, _, _)

\* Nothing follows a statement whose code generation ended the process.
CodeNext(g, nodes, n) == IF g.gen = "crash" THEN g ELSE CodeStmt(g, nodes, n)
CodeList(g, nodes, list) == FoldLeft(LAMBDA h, n : CodeNext(h, nodes, n), g, list)

CodeLet(g, s) == Access(CodeExpr(RValue(g, s.rvalue), s.lvalue), "store")

\* The parts of an IF, each after what precedes it; chn is the word of the
\* branch over the THEN part.
CodeElse(g, nodes, s, chn) ==
  FixupHere(CodeList(FixupHere(PutBranch(g, Op.BR, 0), chn), nodes, s.else), CodeAddr(g) + 1)
CodeThen(g, nodes, s) ==
  CodeElse(CodeList(PutBranch(g, Op.BRF, 0), nodes, s.then), nodes, s, CodeAddr(g) + 1)
CodeIf(g, nodes, s) == CodeThen(RValue(g, s.test), nodes, s)

\* What is coded after the branch that PutBranch(g, op, 0) puts starts here.
AfterBranch(g) == CodeAddr(g) + 1 + W

CodeStep(g, s) ==
  IF s.step = <<>> THEN PutByte(PutByte(g, Op.SLIT), 1) ELSE RValue(g, s.step[1])

\* The control variable's PVAL is coded once and used for its load and store.
CodeForLoop(g, nodes, s) ==
  LET again(h, access) == Access([h EXCEPT !.pv = g.pv], access)
      body == again(CodeList(PutBranch(g, Op.BR, 0), nodes, s.body), "load")
      upd  == FixupHere(PutByte(CodeStep(body, s), Op.ADD), CodeAddr(g) + 1)
      test == RValue(again(PutByte(upd, Op.DUP), "store"), s.end)
  IN  PutBranchBack(PutByte(test, Op.LE), Op.BRT, AfterBranch(g))
CodeFor(g, nodes, s) == CodeForLoop(CodeExpr(RValue(g, s.start), s.var), nodes, s)

CodeDoTest(g, nodes, s, op) ==
  LET body == FixupHere(CodeList(PutBranch(g, Op.BR, 0), nodes, s.body), CodeAddr(g) + 1)
  IN  PutBranchBack(RValue(body, s.test), op, AfterBranch(g))

CodeLoopTestMutant(g, nodes, s, op) ==  \* the sense of the test reversed
  PutBranchBack(RValue(CodeList(g, nodes, s.body), s.test),
                IF op = Op.BRT THEN Op.BRF ELSE Op.BRT, CodeAddr(g))
CodeLoopTest(g, nodes, s, op) ==
  PutBranchBack(RValue(CodeList(g, nodes, s.body), s.test), op, CodeAddr(g))

CodeReturn(g, s) ==
  IF s.expr = <<>> THEN PutByte(g, Op.RETURNZ)
  ELSE PutByte(RValue(g, s.expr[1]), Op.RETURN)

\* An END statement has a parse tree node that code_expr has no case for.
CodeStmt(g, nodes, n) ==
  LET s == nodes[n]
  IN  CASE s.k = "let"       -> CodeLet(g, s)
        [] s.k = "if"        -> CodeIf(g, nodes, s)
        [] s.k = "for"       -> CodeFor(g, nodes, s)
        [] s.k = "dowhile"   -> CodeDoTest(g, nodes, s, Op.BRT)
        [] s.k = "dountil"   -> CodeDoTest(g, nodes, s, Op.BRF)
        [] s.k = "loop"      -> PutBranchBack(CodeList(g, nodes, s.body), Op.BR, CodeAddr(g))
        [] s.k = "loopwhile" -> CodeLoopTest(g, nodes, s, Op.BRT)
        [] s.k = "loopuntil" -> CodeLoopTest(g, nodes, s, Op.BRF)
        [] s.k = "return"    -> CodeReturn(g, s)
        [] s.k = "callstmt"  -> PutByte(RValue(g, s.expr), Op.DROP)
        [] s.k = "asm"       -> PutBytes(g, s.code)
        [] s.k = "end"       -> g

\* Generate of a FUNCTION node: sym is 0 for the main function.
PlaceFunction(g, sym, entry) == IF sym = 0 THEN g ELSE PlaceSymbol(g, sym, entry)
StoreFunction(g, sym, entry) ==
  [PlaceFunction(g, sym, entry) EXCEPT
     !.funs = Append(@, [entry |-> entry, len |-> CodeAddr(g) - entry])]
CodeFunction(g, nodes, fn) ==
  LET f     == nodes[fn]
      entry == PutByte(PutByte(g, Op.FRAME), F_SIZE + Len(f.locals))
      body  == CodeList(entry, nodes, f.body)
  IN  StoreFunction(PutByte(body, IF f.sym = 0 THEN Op.HALT ELSE Op.RETURNZ), f.sym, CodeAddr(g))
=============================================================================
