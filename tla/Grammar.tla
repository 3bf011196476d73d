-------------------------------- MODULE Grammar --------------------------------
(***************************************************************************)
(* The grammar of parse.c and assemble.c: the tokens of a line read as a    *)
(* statement, one operator per function, from a parser state s to the one    *)
(* it leaves:                                                               *)
(*   tokens, at  the tokens of the line, and the next of them to be read     *)
(*   tkn, token, value   the token read last, its text and its value         *)
(*   node        the expression read last, as a tree of names                *)
(*   list        the actual arguments or parameters read last                *)
(*   stmt        the statement of the line; one that goes on over the next   *)
(*               lines (initializers in braces, ASM) has the kind "dim..."   *)
(*               or "asm..."                                                 *)
(*   err         ParseError was called: nothing is read any more             *)
(*   inComment   the next line starts inside a comment                       *)
(* What the names stand for, and whether the statement fits those before    *)
(* it, is up to Parser, which takes the statements read here.               *)
(***************************************************************************)
EXTENDS Scanner

NoStatement == [k |-> "none"]
NoNode      == [k |-> "num", val |-> 0]
\* What is kept from a line to the next.
InitScan    == [inComment |-> FALSE, stmt |-> NoStatement, err |-> FALSE]
StartParse(scanned, stmt) ==
  [tokens |-> scanned.tokens, at |-> 1, tkn |-> NONE, token |-> "", value |-> 0, node |-> NoNode,
   list |-> <<>>, stmt |-> stmt, err |-> scanned.err, inComment |-> scanned.inComment]

ParseError(s) == [s EXCEPT !.err = TRUE]

\* The next token; SaveToken has it read again.
TakeToken(s, t) == [s EXCEPT !.at = @ + 1, !.tkn = t.tkn, !.token = t.token, !.value = t.value]
GetToken(s) ==
  CASE s.err                                -> [s EXCEPT !.tkn = EOL]
    [] ~s.err /\ s.at <= Len(s.tokens)      -> TakeToken(s, s.tokens[s.at])
    [] ~s.err /\ s.at > Len(s.tokens)       -> [s EXCEPT !.at = @ + 1, !.tkn = EOL]
SaveToken(s) == [s EXCEPT !.at = @ - 1]
Require(s, tkn)  == IF s.err \/ s.tkn = tkn THEN s ELSE ParseError(s)
FRequire(s, tkn) == Require(GetToken(s), tkn)
-----------------------------------------------------------------------------
Node(s, n)    == [s EXCEPT !.node = n]
Is(s, stmt)   == [s EXCEPT !.stmt = stmt]
EndOfLineMutant(s, stmt) == Is(s, stmt)     \* what follows is ignored
EndOfLine(s, stmt) == Is(FRequire(s, EOL), stmt)

\* The operators, with their opcodes, of the levels from OR up to the multiplicative ones, each level
\* binding closer than the one before it.
ExprLevels ==
  <<{"OR"}, {"AND"},
    "^" :> "BXOR", "|" :> "BOR", "&" :> "BAND",
    ("=" :> "EQ") @@ ("<>" :> "NE"),
    ("<" :> "LT") @@ ("<=" :> "LE") @@ (">=" :> "GE") @@ (">" :> "GT"),
    ("<<" :> "SHL") @@ (">>" :> "SHR"),
    ("+" :> "ADD") @@ ("-" :> "SUB"),
    ("*" :> "MUL") @@ ("/" :> "DIV") @@ ("MOD" :> "REM")>>
UnarySigns == ("-" :> "NEG") @@ ("NOT" :> "NOT") @@ ("~" :> "BNOT")

RECURSIVE ParseLevel(_, _)
RECURSIVE Operands(_, _, _)
RECURSIVE Operators(_, _)
RECURSIVE Postfix(_)
RECURSIVE Actuals(_, _)
ParseExpr(s) == ParseLevel(s, 1)

\* The operands of a disjunction or a conjunction make one list.
OperandsFrom(r, t, es, n) ==
  IF t.tkn \in ExprLevels[n] THEN Operands(t, Append(es, r.node), n)
  ELSE Node(SaveToken(t), [k |-> IF n = 1 THEN "or" ELSE "and", es |-> Append(es, r.node)])
Operands(s, es, n) == LET r == ParseLevel(s, n + 1) IN OperandsFrom(r, GetToken(r), es, n)
Logical(s, t, n) == IF t.tkn \in ExprLevels[n] THEN Operands(t, <<s.node>>, n) ELSE SaveToken(t)

\* Operators of one level group to the left.
Applied(r, op, l) == Node(r, [k |-> "bin", op |-> op, l |-> l, r |-> r.node])
OperatorsFromMutant(s, t, n) ==         \* to the right
  IF t.tkn \in DOMAIN ExprLevels[n]
  THEN Applied(ParseLevel(t, n), ExprLevels[n][t.tkn], s.node)
  ELSE SaveToken(t)
OperatorsFrom(s, t, n) ==
  IF t.tkn \in DOMAIN ExprLevels[n]
  THEN Operators(Applied(ParseLevel(t, n + 1), ExprLevels[n][t.tkn], s.node), n)
  ELSE SaveToken(t)
Operators(s, n) == OperatorsFrom(s, GetToken(s), n)

\* ParsePrimary: calls and indexes after a simple primary.
CallOf(fcn, s) == Node(s, [k |-> "call", fcn |-> fcn, args |-> s.list])
ActualsFrom(e, t, es) ==
  IF t.tkn = "," THEN Actuals(t, Append(es, e.node))
  ELSE [Require(t, ")") EXCEPT !.list = Append(es, e.node)]
Actuals(s, es) == LET e == ParseExpr(s) IN ActualsFrom(e, GetToken(e), es)
ParseCall(t, fcn) ==
  CallOf(fcn, IF t.tkn = ")" THEN [t EXCEPT !.list = <<>>] ELSE Actuals(SaveToken(t), <<>>))
ParseArrayReference(e, array) ==
  Node(FRequire(e, "]"), [k |-> "idx", array |-> array, index |-> e.node])
PostfixFrom(s, t) ==
  CASE t.tkn = "(" -> Postfix(ParseCall(GetToken(t), s.node))
    [] t.tkn = "[" -> Postfix(ParseArrayReference(ParseExpr(t), s.node))
    [] t.tkn \notin {"(", "["} -> SaveToken(t)
Postfix(s) == PostfixFrom(s, GetToken(s))

ParseSimplePrimary(t) ==
  CASE t.tkn = "(" -> FRequire(ParseExpr(t), ")")
    [] t.tkn = NUMBER -> Node(t, [k |-> "num", val |-> t.value])
    [] t.tkn = QUOTED -> Node(t, [k |-> "str", text |-> t.token])
    [] t.tkn = IDENTIFIER -> Node(t, [k |-> "id", name |-> t.token])
    [] t.tkn \notin {"(", NUMBER, QUOTED, IDENTIFIER} -> ParseError(t)
ParsePrimary(s) == Postfix(ParseSimplePrimary(GetToken(s)))

Negated(d, op) == Node(d, [k |-> "un", op |-> op, e |-> d.node])
ParseUnary(t) ==
  CASE t.tkn \in DOMAIN UnarySigns -> Negated(ParsePrimary(t), UnarySigns[t.tkn])
    [] t.tkn = "+" -> ParsePrimary(t)
    [] t.tkn \notin DOMAIN UnarySigns \cup {"+"} -> ParsePrimary(SaveToken(t))

LogicalFrom(s, n) == Logical(s, GetToken(s), n)
ParseLevel(s, n) ==
  CASE n \in 1 .. 2 -> LogicalFrom(ParseLevel(s, n + 1), n)
    [] n \in 3 .. Len(ExprLevels) -> Operators(ParseLevel(s, n + 1), n)
    [] n > Len(ExprLevels) -> ParseUnary(GetToken(s))
-----------------------------------------------------------------------------
IncludeFile(s) == EndOfLine(s, [k |-> "include", name |-> s.token])
ParseInclude(s) == IncludeFile(FRequire(s, QUOTED))

\* The name of a function and its parameters.
RECURSIVE Parameters(_, _)
ParametersFrom(t, xs) ==
  IF t.tkn = "," THEN Parameters(t, xs) ELSE [Require(t, ")") EXCEPT !.list = xs]
ParameterThen(d, xs) == ParametersFrom(GetToken(d), Append(xs, d.token))
Parameters(s, xs) == ParameterThen(FRequire(s, IDENTIFIER), xs)
AfterParenthesis(t) ==
  IF t.tkn = ")" THEN [t EXCEPT !.list = <<>>] ELSE Parameters(SaveToken(t), <<>>)
AfterName(t) ==
  IF t.tkn = "(" THEN AfterParenthesis(GetToken(t)) ELSE [SaveToken(t) EXCEPT !.list = <<>>]
FunctionLine(s, name) == EndOfLine(s, [k |-> "function", name |-> name, args |-> s.list])
NamedFunction(s) == FunctionLine(AfterName(GetToken(s)), s.token)
ParseFunction(s) == NamedFunction(FRequire(s, IDENTIFIER))

\* The declarations of a DIM, the last of them being read.  Initializers in
\* braces go on until the brace is closed.
RECURSIVE Declaration(_, _)
RECURSIVE Initializers(_, _, _)
Scalar(name)      == [name |-> name, array |-> FALSE, size |-> <<>>, given |-> FALSE, init |-> <<>>]
Vector(name, es)  == [Scalar(name) EXCEPT !.array = TRUE, !.size = es]
Initialized(d, es) == [d EXCEPT !.given = TRUE, !.init = es]

DeclaredFrom(t, decls) ==
  IF t.tkn = "," THEN Declaration(t, decls)
  ELSE Is(Require(t, EOL), [k |-> "dim", decls |-> decls])
Declared(s, decls, d) == DeclaredFrom(GetToken(s), Append(decls, d))
InitializersFrom(t, decls, d) ==
  CASE t.tkn = ","  -> Initializers(t, decls, d)
    [] t.tkn = "}"  -> Declared(t, decls, d)
    [] t.tkn = EOL  -> Is(t, [k |-> "dim...", decls |-> decls, decl |-> d])
    [] t.tkn \notin {",", "}", EOL} -> ParseError(t)
InitializerThen(e, decls, d) ==
  InitializersFrom(GetToken(e), decls, Initialized(d, Append(d.init, e.node)))
Initializers(s, decls, d) == InitializerThen(ParseExpr(s), decls, d)

\* At the start of the braces, and of a line inside them.
InitializerLineMutant(t, decls, d) ==   \* each line starts the list anew
  CASE t.tkn = EOL -> Is(t, [k |-> "dim...", decls |-> decls, decl |-> d])
    [] t.tkn = "}" -> Declared(t, decls, d)
    [] t.tkn \notin {"}", EOL} -> Initializers(SaveToken(t), decls, Initialized(d, <<>>))
InitializerLine(t, decls, d) ==
  CASE t.tkn = EOL -> Is(t, [k |-> "dim...", decls |-> decls, decl |-> d])
    [] t.tkn = "}" -> Declared(t, decls, d)
    [] t.tkn \notin {"}", EOL} -> Initializers(SaveToken(t), decls, d)
OpenBrace(s, decls, d) == InitializerLine(GetToken(FRequire(s, "{")), decls, Initialized(d, <<>>))
ScalarInitializer(e, decls, d) == Declared(e, decls, Initialized(d, <<e.node>>))
InitialValue(t, decls, d) ==
  CASE t.tkn = "=" /\ d.array  -> OpenBrace(t, decls, d)
    [] t.tkn = "=" /\ ~d.array -> ScalarInitializer(ParseExpr(t), decls, d)
    [] t.tkn # "="             -> Declared(SaveToken(t), decls, d)
InitialValueOf(s, decls, d) == InitialValue(GetToken(s), decls, d)
Sized(e, decls, name) == InitialValueOf(FRequire(e, "]"), decls, Vector(name, <<e.node>>))
ArraySize(t, decls, name) ==
  IF t.tkn = "]" THEN InitialValueOf(t, decls, Vector(name, <<>>))
  ELSE Sized(ParseExpr(SaveToken(t)), decls, name)
Declarator(t, decls, name) ==
  IF t.tkn = "[" THEN ArraySize(GetToken(t), decls, name)
  ELSE InitialValueOf(SaveToken(t), decls, Scalar(name))
NamedDeclaration(s, decls) == Declarator(GetToken(s), decls, s.token)
Declaration(s, decls) == NamedDeclaration(FRequire(s, IDENTIFIER), decls)
ParseDim(s) == Declaration(s, <<>>)

LetStatement(lvalue, e) == EndOfLine(e, [k |-> "let", lvalue |-> lvalue, rvalue |-> e.node])
LetOrCall(s, t) ==
  IF t.tkn = "=" THEN LetStatement(s.node, ParseExpr(t))
  ELSE EndOfLine(SaveToken(t), [k |-> "call", expr |-> s.node])
ImpliedLetOrCall(s) == LetOrCall(s, GetToken(s))
ParseImpliedLetOrFunctionCall(t) == ImpliedLetOrCall(ParsePrimary(SaveToken(t)))
LetTo(s) == LetStatement(s.node, ParseExpr(FRequire(s, "=")))
ParseLet(s) == LetTo(ParsePrimary(s))

\* IF test THEN statement looks for the end of the line in the token that began
\* the statement, and refuses it.
Tested(kind, e) == [k |-> kind, test |-> e.node]
ParseIf(e) == Is(Require(GetToken(FRequire(e, "THEN")), EOL), Tested("if", e))
ParseElseIf(e) == EndOfLine(FRequire(e, "THEN"), Tested("elseif", e))
TestLine(kind, e) == EndOfLine(e, Tested(kind, e))

ForStep(var, a, b, t) ==
  IF t.tkn = "STEP"
  THEN LET st == ParseExpr(t)
       IN  EndOfLine(st, [k |-> "for", var |-> var, start |-> a, end |-> b, step |-> <<st.node>>])
  ELSE Is(Require(t, EOL), [k |-> "for", var |-> var, start |-> a, end |-> b, step |-> <<>>])
ForEnd(var, a, e) == ForStep(var, a, e.node, GetToken(e))
ForStart(var, e) == ForEnd(var, e.node, ParseExpr(FRequire(e, "TO")))
ForVariable(s) == ForStart(s.token, ParseExpr(FRequire(s, "=")))
ParseFor(s) == ForVariable(FRequire(s, IDENTIFIER))

NextVariable(s) == EndOfLine(s, [k |-> "next", var |-> s.token])
ParseNext(s) == NextVariable(FRequire(s, IDENTIFIER))

ReturnValue(e) == EndOfLine(e, [k |-> "return", expr |-> <<e.node>>])
ParseReturn(t) ==
  IF t.tkn = EOL THEN Is(t, [k |-> "return", expr |-> <<>>]) ELSE ReturnValue(ParseExpr(SaveToken(t)))

\* The items of a PRINT, with nothing required between them.
RECURSIVE PrintItems(_, _, _)
PrintExpr(e, dev, items) == PrintItems(e, dev, Append(items, [k |-> "int", expr |-> e.node]))
PrintItemsFrom(t, dev, items) ==
  CASE t.tkn = EOL    -> Is(t, [k |-> "print", dev |-> dev, items |-> items])
    [] t.tkn = ","    -> PrintItems(t, dev, Append(items, [k |-> "tab"]))
    [] t.tkn = ";"    -> PrintItems(t, dev, Append(items, [k |-> "join"]))
    [] t.tkn = QUOTED -> PrintItems(t, dev, Append(items, [k |-> "str", text |-> t.token]))
    [] t.tkn \notin {EOL, ",", ";", QUOTED} -> PrintExpr(ParseExpr(SaveToken(t)), dev, items)
PrintItems(s, dev, items) == PrintItemsFrom(GetToken(s), dev, items)
PrintTo(e) == PrintItems(FRequire(e, ","), <<e.node>>, <<>>)
ParsePrint(t) ==
  IF t.tkn = "#" THEN PrintTo(ParseExpr(t)) ELSE PrintItems(SaveToken(t), <<>>, <<>>)
-----------------------------------------------------------------------------
\* The instructions ASM can assemble: those with no operand or with a number.
Opcode(name) == IF name = "RETURNX" THEN "RETURN" ELSE name
InAsm(s, code) == Is(s, [k |-> "asm...", code |-> code])
Instruction(op, es) == [op |-> op, arg |-> es]
AssembleWord(e, op, code) == InAsm(FRequire(e, EOL), Append(code, Instruction(op, <<e.node>>)))
AssembleOp(s, op, code) ==
  CASE Op[op] \in BranchOps -> ParseError(s)
    [] Op[op] \in (WordOps \cup ByteOps) \ BranchOps -> AssembleWord(ParseExpr(s), op, code)
    [] Op[op] \notin WordOps \cup ByteOps -> InAsm(FRequire(s, EOL), Append(code, Instruction(op, <<>>)))
Assemble(s, op, code) == IF op \in DOMAIN Op THEN AssembleOp(s, op, code) ELSE ParseError(s)
AsmLine(t, code) ==
  CASE t.tkn = "END ASM"  -> EndOfLine(t, [k |-> "asm", code |-> code])
    [] t.tkn = EOL        -> InAsm(t, code)
    [] t.tkn = IDENTIFIER -> Assemble(t, Opcode(Folded(t.token)), code)
    [] t.tkn \notin {"END ASM", EOL, IDENTIFIER} -> ParseError(t)
-----------------------------------------------------------------------------
\* The first token of a line says which statement it is.  Nothing of the line is
\* read after REM and END FUNCTION.
SimpleStatements ==
  ("ELSE" :> "else") @@ ("END IF" :> "endif") @@ ("DO" :> "do") @@ ("LOOP" :> "loop") @@ ("END" :> "end")
TestStatements ==
  ("DO WHILE" :> "dowhile") @@ ("DO UNTIL" :> "dountil")
    @@ ("LOOP WHILE" :> "loopwhile") @@ ("LOOP UNTIL" :> "loopuntil")
ParseStatement(t) ==
  CASE t.tkn = "INCLUDE"      -> ParseInclude(t)
    [] t.tkn = "REM"          -> Is(t, [k |-> "rem"])
    [] t.tkn = "FUNCTION"     -> ParseFunction(t)
    [] t.tkn = "END FUNCTION" -> Is(t, [k |-> "endfunction"])
    [] t.tkn = "DIM"          -> ParseDim(t)
    [] t.tkn = "LET"          -> ParseLet(t)
    [] t.tkn = "IF"           -> ParseIf(ParseExpr(t))
    [] t.tkn = "ELSE IF"      -> ParseElseIf(ParseExpr(t))
    [] t.tkn \in DOMAIN SimpleStatements -> EndOfLine(t, [k |-> SimpleStatements[t.tkn]])
    [] t.tkn \in DOMAIN TestStatements -> TestLine(TestStatements[t.tkn], ParseExpr(t))
    [] t.tkn = "FOR"          -> ParseFor(t)
    [] t.tkn = "NEXT"         -> ParseNext(t)
    [] t.tkn = "RETURN"       -> ParseReturn(GetToken(t))
    [] t.tkn = "PRINT"        -> ParsePrint(GetToken(t))
    [] t.tkn = "ASM"          -> InAsm(FRequire(t, EOL), <<>>)
    [] OTHER                  -> ParseImpliedLetOrFunctionCall(t)

FirstToken(t) == IF t.tkn = EOL THEN Is(t, NoStatement) ELSE ParseStatement(t)

\* A line, which may continue the statement of the line before it.
ContinuedBy(s, t) ==
  CASE s.stmt.k = "dim..." -> InitializerLine(t, s.stmt.decls, s.stmt.decl)
    [] s.stmt.k = "asm..." -> AsmLine(t, s.stmt.code)
    [] s.stmt.k \notin {"dim...", "asm..."} -> FirstToken(t)
Parsed(s) == [inComment |-> s.inComment, stmt |-> s.stmt, err |-> s.err]
Continued(s) == Parsed(ContinuedBy(s, GetToken(s)))
ParseLine(line, scan) == Continued(StartParse(ScanLine(line, scan.inComment), scan.stmt))
=============================================================================
