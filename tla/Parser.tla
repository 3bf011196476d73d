-------------------------------- MODULE Parser --------------------------------
(***************************************************************************)
(* The statement parser (parse.c, assemble.c) with the symbol table         *)
(* (symbols.c): one operator per handler, each from a parse context c to    *)
(* the parse context it leaves.                                             *)
(*   g        the workspace record of CodeGen                               *)
(*   nodes    the parse tree, statement nodes only; nodes[1] is main        *)
(*   blocks   blockBuf up to bptr: the block's type, its node, and which of *)
(*            that node's statement lists pNextStatement is at the end of   *)
(*   current  currentFunction                                               *)
(*   node     the expression node the last Elab built                       *)
(*   err      ParseError was called                                         *)
(*   stale    the type field that the i-th global symbol finds in the arena *)
(*   strings  the string table: texts and where they are                    *)
(* Statements are those Grammar reads: records, with expressions as trees    *)
(* of names not yet resolved.                                               *)
(***************************************************************************)
EXTENDS Arith, CodeGen, Characters

CONSTANTS
  MaxBlocks,        \* the length of blockBuf
  SymbolSize,       \* bytes of a Symbol in low memory
  StringSize,       \* bytes of a String before its characters
  Untyped           \* the type of a node or symbol that is none of those below

ASSUME ParserAssumption == MaxBlocks \in Nat \ {0, 1} /\ SymbolSize \in Nat /\ StringSize \in Nat

Int32 == "int"      \* &c->integerType
Fun   == "fun"      \* &c->integerFunctionType
Text  == "text"     \* &c->stringType

ParseError(c) == [c EXCEPT !.err = TRUE]
Check(c, ok)  == IF ok THEN c ELSE ParseError(c)

IndexOf(names, name) == SelectInSeq(names, LAMBDA n : n = name)
FindGlobal(c, name)  == SelectInSeq(c.g.syms, LAMBDA s : s.name = name)
Function(c)          == c.nodes[c.current]

Zeros(n) == [i \in 1 .. n |-> 0]

\* AddGlobal does not store the type it is given.
AddGlobal(c, name, class, value) ==
  [c EXCEPT !.g = AddSymbol(PutBytes(@, Zeros(SymbolSize)),
                            NewSymbol(name, class, value, c.stale[Len(@.syms) + 1]))]

Node(c, n) == [c EXCEPT !.node = n]
IntegerLit(v) == [k |-> "num", val |-> v, type |-> Int32]
GlobalRef(c, i) ==
  IF c.g.syms[i].class = "constant" THEN IntegerLit(c.g.syms[i].value)
  ELSE [k |-> "global", sym |-> i, type |-> c.g.syms[i].type]

FindLocal(c, name)    == IF c.current # 1 THEN IndexOf(Function(c).locals, name) ELSE 0
FindArgument(c, name) == IF c.current # 1 THEN IndexOf(Function(c).args, name) ELSE 0
NewGlobalRef(c) == Node(c, GlobalRef(c, Len(c.g.syms)))

SymbolRef(c, name, local, arg, global) ==
  CASE local > 0 -> Node(c, [k |-> "local", val |-> local - 1, type |-> Int32])
    [] local = 0 /\ arg > 0 -> Node(c, [k |-> "arg", val |-> arg - 1, type |-> Int32])
    [] local = 0 /\ arg = 0 /\ global > 0 -> Node(c, GlobalRef(c, global))
    [] OTHER -> NewGlobalRef(AddGlobal(c, name, "unknown", 0))
GetSymbolRef(c, name) ==
  SymbolRef(c, name, FindLocal(c, name), FindArgument(c, name), FindGlobal(c, name))

Resolve(c, n, class, type) ==
  IF n.k = "global" /\ c.g.syms[n.sym].class = "unknown"
  THEN [c EXCEPT !.g = SetClass(@, n.sym, class, type)]
  ELSE c
ResolveVariableRef(c, n) == Resolve(c, n, "variable", Int32)
ResolveFunctionRef(c, n) == Resolve(c, n, "function", Fun)

MakeUnaryOpNode(c, op, e) ==
  IF e.k = "num" THEN Node(c, IntegerLit(UnaryOp(op, e.val)))
  ELSE Node(Check(ResolveVariableRef(c, e), e.type = Int32),
            [k |-> "un", op |-> op, e |-> e, type |-> Int32])

\* Literals are folded; a literal division by zero is refused, which the VM's
\* DIV and REM answer with 0.  What C does not define may end the process.
FoldBinary(c, op, l, r) ==
  IF op \in {Op.DIV, Op.REM} /\ r = 0 THEN ParseError(c)
  ELSE IF Defined(op, l, r) THEN Node(c, IntegerLit(BinaryOp(op, l, r)))
  ELSE [c EXCEPT !.g.gen = "crash"]
MakeBinaryOpNode(c, op, l, r) ==
  IF l.k = "num" /\ r.k = "num" THEN FoldBinary(c, op, l.val, r.val)
  ELSE Node(Check(ResolveVariableRef(ResolveVariableRef(c, l), r), l.type = Int32 /\ r.type = Int32),
            [k |-> "bin", op |-> op, l |-> l, r |-> r, type |-> Int32])

\* AllocateLowMemory rounds sizes up.
Rounded(bytes) == bytes \o Zeros((-Len(bytes)) % W)

\* AddString: a text is in low memory once, where it is first met.
StringLit(addr) == [k |-> "str", addr |-> addr, type |-> Text]
StoreString(c, text) ==
  [c EXCEPT !.g       = PutBytes(@, Rounded(Zeros(StringSize) \o Codes(text) \o <<0>>)),
            !.strings = Append(@, [text |-> text, addr |-> CodeAddr(c.g) + StringSize])]
FindString(c, text) == SelectInSeq(c.strings, LAMBDA s : s.text = text)
StringRefMutant(c, text) ==             \* the last string, not the one found
  IF FindString(c, text) > 0 THEN Node(c, StringLit(Last(c.strings).addr))
  ELSE Node(StoreString(c, text), StringLit(CodeAddr(c.g) + StringSize))
StringRef(c, text) ==
  IF FindString(c, text) > 0 THEN Node(c, StringLit(c.strings[FindString(c, text)].addr))
  ELSE Node(StoreString(c, text), StringLit(CodeAddr(c.g) + StringSize))

RECURSIVE Elab(_, _)

\* The operands of a list, left to right: <<context, their nodes>>.
ElabList(c, es) ==
  FoldLeft(LAMBDA acc, e : LET d == Elab(acc[1], e) IN <<d, Append(acc[2], d.node)>>,
           <<c, <<>>>>, es)

\* ParseCall conses each actual onto args: they are pushed last to first.
ElabCallMutant(c, e) ==                 \* the actuals in the order they are written
  LET f    == Elab(c, e.fcn)
      list == ElabList(ResolveFunctionRef(f, f.node), e.args)
  IN  Node(list[1], [k |-> "call", fcn |-> f.node, args |-> list[2], type |-> Int32])
ElabCall(c, e) ==
  LET f    == Elab(c, e.fcn)
      list == ElabList(ResolveFunctionRef(f, f.node), e.args)
  IN  Node(list[1], [k |-> "call", fcn |-> f.node, args |-> Reverse(list[2]), type |-> Int32])

ElabBinary(c, e) ==
  LET l == Elab(c, e.l)
      r == Elab(l, e.r)
  IN  MakeBinaryOpNode(r, Op[e.op], l.node, r.node)

ElabUnary(c, e) == LET d == Elab(c, e.e) IN MakeUnaryOpNode(d, Op[e.op], d.node)

ElabLogical(c, e) ==
  LET list == ElabList(c, e.es)
  IN  Node(list[1], [k |-> e.k, es |-> list[2], type |-> Untyped])

ElabIndex(c, e) ==
  LET a == Elab(c, e.array)
      i == Elab(a, e.index)
  IN  Node(i, [k |-> "idx", array |-> a.node, index |-> i.node, type |-> Untyped])

Elab(c, e) ==
  CASE e.k = "num"           -> Node(c, IntegerLit(e.val))
    [] e.k = "str"           -> StringRef(c, e.text)
    [] e.k = "id"            -> GetSymbolRef(c, e.name)
    [] e.k = "un"            -> ElabUnary(c, e)
    [] e.k = "bin"           -> ElabBinary(c, e)
    [] e.k \in {"or", "and"} -> ElabLogical(c, e)
    [] e.k = "call"          -> ElabCall(c, e)
    [] e.k = "idx"           -> ElabIndex(c, e)
-----------------------------------------------------------------------------
TopBlock(c) == Last(c.blocks)
NewNode(c, rec) == [c EXCEPT !.nodes = Append(@, rec)]
AddNodeToList(c, n) == [c EXCEPT !.nodes[TopBlock(c).node][TopBlock(c).list] = Append(@, n)]
AddStatement(c, rec) == AddNodeToList(NewNode(c, rec), Len(c.nodes) + 1)

PushBlockMutant(c, type, list) ==       \* one block beyond blockBuf
  IF Len(c.blocks) > MaxBlocks THEN ParseError(c)
  ELSE [c EXCEPT !.blocks = Append(@, [type |-> type, node |-> Len(c.nodes), list |-> list])]
PushBlock(c, type, list) ==
  IF Len(c.blocks) = MaxBlocks THEN ParseError(c)
  ELSE [c EXCEPT !.blocks = Append(@, [type |-> type, node |-> Len(c.nodes), list |-> list])]
PopBlock(c) == [c EXCEPT !.blocks = Front(@)]

StartFunction(c, sym, args) ==
  LET d == NewNode(c, [k |-> "function", sym |-> sym, args |-> args, locals |-> <<>>, body |-> <<>>])
  IN  [PushBlock(d, "FUNCTION", "body") EXCEPT !.current = Len(d.nodes)]

ParseFunction(c, s) ==
  LET old   == FindGlobal(c, s.name)
      d     == IF old = 0 THEN AddGlobal(c, s.name, "function", 0) ELSE c
      sym   == FindGlobal(d, s.name)
      legal == /\ c.current = 1
               /\ TopBlock(c).type = "FUNCTION"
               /\ old > 0 => /\ c.g.syms[old].class = "function"
                             /\ c.g.syms[old].type = Fun
                             /\ ~c.g.syms[old].placed
  IN  IF legal THEN StartFunction(d, sym, s.args) ELSE ParseError(c)

ParseEndFunction(c, s) ==
  IF c.current = 1 \/ TopBlock(c).type # "FUNCTION" THEN ParseError(c)
  ELSE [PopBlock([c EXCEPT !.g = CodeFunction(@, c.nodes, c.current)]) EXCEPT !.current = 1]

\* The size and the initializers of a global are constant expressions; an array
\* with fewer initializers than elements is not padded.
Literals(nodes) == \A n \in Range(nodes) : n.k = "num"
SizeOf(nodes)   == IF nodes = <<>> THEN 0 ELSE nodes[1].val
InitialData(decl, size, nodes) ==
  IF decl.given THEN [i \in DOMAIN nodes |-> nodes[i].val]
  ELSE Zeros(IF decl.array THEN SizeOf(size) ELSE 1)
StoreDim(c, decl, size, nodes) ==
  LET legal == Literals(nodes) /\ (decl.array => Len(nodes) <= SizeOf(size))
      class == IF decl.array THEN "constant" ELSE "variable"
  IN  IF legal
      THEN [AddGlobal([c EXCEPT !.g = FoldLeft(PutData, @, InitialData(decl, size, nodes))],
                      decl.name, class, CodeAddr(c.g)) EXCEPT !.g = MarkPlaced(@)]
      ELSE ParseError(c)
ParseGlobalDim(c, decl, size) ==
  LET store(list) == StoreDim(list[1], decl, size, list[2]) IN store(ElabList(c, decl.init))

AddLet(c, lvalue, rvalue) == AddStatement(c, [k |-> "let", lvalue |-> lvalue, rvalue |-> rvalue])
LetLocal(c, name) == LET v == GetSymbolRef(c, name) IN AddLet(v, v.node, c.node)
ParseLocalDim(c, decl) ==
  LET d == [c EXCEPT !.nodes[c.current].locals = Append(@, decl.name)]
  IN  CASE decl.array -> ParseError(c)
        [] ~decl.array /\ ~decl.given -> d
        [] ~decl.array /\ decl.given -> LetLocal(Elab(d, decl.init[1]), decl.name)

\* ParseVariableDecl: the size of an array is a positive constant, when it is given.
SizedDim(c, decl, size) ==
  CASE ~Literals(size) \/ (size # <<>> /\ SizeOf(size) <= 0) -> ParseError(c)
    [] OTHER -> IF c.current = 1 THEN ParseGlobalDim(c, decl, size) ELSE ParseLocalDim(c, decl)
DimVariable(c, decl) ==
  LET sized(list) == SizedDim(list[1], decl, list[2])
  IN  IF c.err THEN c ELSE sized(ElabList(c, decl.size))
ParseDim(c, s) == FoldLeft(DimVariable, c, s.decls)

LetTo(c, lvalue, e) == LET r == Elab(c, e) IN AddLet(r, lvalue, r.node)
ParseLet(c, s) ==
  LET l == Elab(c, s.lvalue) IN LetTo(ResolveVariableRef(l, l.node), l.node, s.rvalue)

ParseFunctionCall(c, s) ==
  LET d == Elab(c, s.expr)
  IN  AddStatement(ResolveVariableRef(d, d.node), [k |-> "callstmt", expr |-> d.node])

IfNode(test) == [k |-> "if", test |-> test, then |-> <<>>, else |-> <<>>]

ParseIf(c, s) ==
  LET d == Elab(c, s.test) IN PushBlock(AddStatement(d, IfNode(d.node)), "IF", "then")

\* IF test THEN statement: the token the final Require looks at is the first of
\* the statement, which is never T_EOL.
ParseIfLine(c, s) == ParseError(c)

\* The new IF node goes into the ELSE list of the block's node and becomes the
\* block's node.
AddElseIf(c) ==
  LET n == Len(c.nodes) + 1
  IN  NewNode([c EXCEPT !.nodes[TopBlock(c).node].else = <<n>>,
                        !.blocks[Len(c.blocks)] = [type |-> "IF", node |-> n, list |-> "then"]],
              IfNode(c.node))
ParseElseIf(c, s) ==
  IF TopBlock(c).type # "IF" THEN ParseError(c) ELSE AddElseIf(Elab(c, s.test))

ParseElse(c, s) ==
  IF TopBlock(c).type # "IF" THEN ParseError(c)
  ELSE [c EXCEPT !.blocks[Len(c.blocks)].type = "ELSE", !.blocks[Len(c.blocks)].list = "else"]

CloseBlockMutant(c, types) == PopBlock(c)  \* the kind of block is not looked at
CloseBlock(c, types) == IF TopBlock(c).type \in types THEN PopBlock(c) ELSE ParseError(c)

ParseEndIf(c, s) == CloseBlock(c, {"IF", "ELSE"})
ParseNext(c, s)  == CloseBlock(c, {"FOR"})      \* the variable is not compared
ParseLoop(c, s)  == CloseBlock(c, {"DO"})

\* The variable is looked up as any name is; the step is optional.
ForNode(nodes) ==
  [k |-> "for", var |-> nodes[1], start |-> nodes[2], end |-> nodes[3],
   step |-> SubSeq(nodes, 4, Len(nodes)), body |-> <<>>]
ParseFor(c, s) ==
  LET open(list) == PushBlock(AddStatement(list[1], ForNode(list[2])), "FOR", "body")
  IN  open(ElabList(c, <<[k |-> "id", name |-> s.var], s.start, s.end>> \o s.step))

DoNode(kind, test) == [k |-> kind, test |-> test, body |-> <<>>]

ParseDoMutant(c, s) == PushBlock(c, "DO", "body")       \* the block opens in the node before
ParseDo(c, s) == PushBlock(AddStatement(c, DoNode("loop", IntegerLit(0))), "DO", "body")
ParseDoTest(c, s, kind) ==
  LET d == Elab(c, s.test) IN PushBlock(AddStatement(d, DoNode(kind, d.node)), "DO", "body")

ParseLoopTest(c, s, kind) ==
  LET d == Elab(c, s.test)
      n == TopBlock(c).node
  IN  IF TopBlock(c).type = "DO" /\ c.nodes[n].k = "loop"
      THEN PopBlock([d EXCEPT !.nodes[n].k = kind, !.nodes[n].test = d.node])
      ELSE ParseError(c)

ParseReturn(c, s) ==
  LET list == ElabList(c, s.expr) IN AddStatement(list[1], [k |-> "return", expr |-> list[2]])

ParseEnd(c, s) == AddStatement(c, [k |-> "end"])

\* The instructions are assembled at nextLow, where they stay; the statement
\* gets a second copy when its function is generated.
Operand(op, nodes) ==
  CASE Op[op] \in WordOps -> CodeWord(nodes[1].val)
    [] Op[op] \in ByteOps -> <<nodes[1].val % 256>>
    [] Op[op] \notin WordOps \cup ByteOps -> <<>>
AssembleWith(c, op, nodes) ==
  IF Literals(nodes) THEN [c EXCEPT !.g = PutBytes(@, <<Op[op]>> \o Operand(op, nodes))] ELSE ParseError(c)
Assemble(c, instruction) ==
  LET with(list) == AssembleWith(list[1], instruction.op, list[2])
  IN  IF c.err THEN c ELSE with(ElabList(c, instruction.arg))
AsmStatement(c, start) ==
  AddStatement(c, [k |-> "asm", code |-> SubSeq(c.g.mem, start + 1, Len(c.g.mem))])
ParseAsm(c, s) == AsmStatement(FoldLeft(Assemble, c, s.code), CodeAddr(c.g))

\* PRINT: a call of a helper for each item, and of printNL unless the last one is
\* a comma or a semicolon.  The arguments are pushed first to last.
BuildHandlerCall(c, name, args) ==
  LET f == FindGlobal(c, name)
  IN  IF f = 0 THEN ParseError(c)
      ELSE AddStatement(c, [k |-> "callstmt",
             expr |-> [k |-> "call", fcn |-> [k |-> "global", sym |-> f, type |-> Untyped],
                       args |-> args, type |-> Untyped]])
PrintValue(c, name, dev) == BuildHandlerCall(c, name, <<c.node, dev>>)
PrintItem(c, item, dev) ==
  CASE item.k = "tab"  -> BuildHandlerCall(c, "printTab", <<dev>>)
    [] item.k = "join" -> c
    [] item.k = "str"  -> PrintValue(StringRef(c, item.text), "printStr", dev)
    [] item.k = "int"  -> PrintValue(Elab(c, item.expr), "printInt", dev)
NeedNewline(items) == items = <<>> \/ Last(items).k \in {"str", "int"}
PrintItems(c, items, dev) ==
  LET d == FoldLeft(LAMBDA e, item : IF e.err THEN e ELSE PrintItem(e, item, dev), c, items)
  IN  IF NeedNewline(items) /\ ~d.err THEN BuildHandlerCall(d, "printNL", <<dev>>) ELSE d
PrintTo(c, items) == PrintItems(c, items, c.node)
ParsePrint(c, s) ==
  PrintTo(IF s.dev = <<>> THEN Node(c, IntegerLit(0)) ELSE Elab(c, s.dev[1]), s.items)
=============================================================================
