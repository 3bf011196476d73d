------------------------------ MODULE Toolchain ------------------------------
(***************************************************************************)
(* RUN from the first source line to the end of Execute: the compiler and   *)
(* the virtual machine in sequence (Compile in compile.c), against what the  *)
(* program means (BasicSemantics).                                           *)
(***************************************************************************)
EXTENDS Compiler, Discipline, BasicSemantics

CONSTANT Fuel       \* loop iterations and calls the reference may take

VARIABLE expected   \* what BasicSemantics says of the source, once it is compiled

vars == <<program, source, c, phase, expected, mvars>>

Init ==
  /\ CompilerInit
  /\ MachineIdle
  /\ expected = [ctl |-> "none"]

CompileStep ==
  /\ CompilerNext
  /\ expected' = IF phase' = "compiled" THEN Reference(source, Fuel) ELSE expected
  /\ UNCHANGED mvars

\* The shape of the code generated: the instructions of each function one after
\* the other, the depth of each from the one before it.  After an unconditional
\* branch there is a statement, which finds nothing but the frame.
RECURSIVE Scan(_, _, _, _, _)
Scan(image, entry, a, end, depth) ==
  IF a >= end THEN <<>>
  ELSE LET i == [op |-> image[a + 1], arg |-> Argument(image, a), entry |-> entry, depth |-> depth]
       IN  (a :> i) @@ Scan(image, entry, a + InstructionLength(i.op), end,
                            CASE i.op = Op.FRAME -> i.arg
                              [] i.op = Op.BR -> image[entry + 2]
                              [] OTHER -> depth - Takes(i) + Gives(i))

ArgsNamed(code) ==
  {SignedByte(i.arg) + 1 : i \in {j \in Range(code) : j.op \in {Op.LREF, Op.LSET}}}

ShapeOf(w) ==
  LET code == [f \in DOMAIN w.funs |->
                 Scan(w.mem, w.funs[f].entry, w.funs[f].entry, w.funs[f].entry + w.funs[f].len, 0)]
      main == Last(w.funs).entry
  IN  [code |-> FoldLeft(LAMBDA all, part : all @@ part, <<>>, code),
       functions |-> [e \in {w.funs[f].entry : f \in DOMAIN w.funs} |->
                        LET part == code[CHOOSE f \in DOMAIN w.funs : w.funs[f].entry = e]
                        IN  [frame |-> part[e].arg, args |-> Max({0} \cup ArgsNamed(part))]],
       main |-> main]

\* Execute starts at the code of the last function generated, the main program.
Start ==
  /\ phase = "compiled" /\ status = "idle"
  /\ StartMachine(g.mem, ShapeOf(g))
  /\ UNCHANGED <<program, source, c, phase, expected>>

RunStep == MachineStep /\ UNCHANGED <<program, source, c, phase, expected>>

Over == phase \in {"error", "crash"} \/ status \notin {"idle", "running"}
Finished == Over /\ UNCHANGED vars

Next == CompileStep \/ Start \/ RunStep \/ Finished

\* Once compiled, the program is executed without waiting for anything.
Execution ==
  \/ phase = "compiled" /\ status = "idle" /\ StartInterpreter(g.mem, Last(g.funs).entry)
  \/ InterpreterNext
Spec == Init /\ [][Next]_vars /\ WF_vmvars(Execution)
-----------------------------------------------------------------------------
NodesOf(type) ==
  CASE type = "FUNCTION"       -> {"function"}
    [] type \in {"IF", "ELSE"} -> {"if"}
    [] type = "FOR"            -> {"for"}
    [] type = "DO"             -> {"loop", "dowhile", "dountil"}

\* Shape of the compiler's state: each open block refers to a statement that was built,
\* of the kind whose closing statement the block waits for, and the current function
\* to a function.
TypeOK ==
  /\ phase \in {"parsing", "compiled", "error", "crash"}
  /\ \A b \in Range(c.blocks) : /\ b.node \in 1 .. Len(c.nodes)
                                /\ c.nodes[b.node].k \in NodesOf(b.type)
  /\ c.current \in 1 .. Len(c.nodes) /\ Function(c).k = "function"
  /\ g.gen \in {"ok", "fatal"}

Ended == status \notin {"idle", "running"}

GlobalVariables == {s \in Range(g.syms) : s.class = "variable"}
Word(a) == DataWordValue(Bytes(mem, a, W))

\* The values the program leaves behind are those the source describes: every
\* global variable, every element of every array, and everything printed, in
\* order.  A program with a meaning never ends in an abort, a stack overflow or
\* a wild access, and one whose loops or calls do not end never halts: it can
\* only run out of stack.
MatchesReference ==
  /\ Ended /\ expected.ctl = "fuel" => status = "overflow"
  /\ Ended /\ expected.ctl = "run" =>
    /\ status = "halted"
    /\ out = expected.out
    /\ \A s \in GlobalVariables : s.placed /\ Word(s.value) = Lookup(expected.vars, s.name)
    /\ \A x \in DOMAIN expected.arrs :
         LET s == g.syms[FindGlobal(c, x)]
         IN  \A i \in 1 .. Len(expected.arrs[x]) : Word(s.value + (i - 1) * W) = expected.arrs[x][i]

\* The code generator obeys what the machine relies on: whatever is wrong with a
\* program, if its source means anything the code generated for it is trusted, and
\* remains so.
CodeTrusted == status # "idle" /\ expected.ctl # "error" => trusted

\* What the statements alone say of their nesting: each closing statement meets
\* the opening statement of its kind, by counting openers and closers between
\* them, and no more than MaxBlocks blocks are ever open.
Opener(src, j) ==
  LET open == {i \in 1 .. j - 1 : src[i].k \in Openers /\ Depth(src, i, j - 1) = 1
                                  /\ \A n \in i .. j - 1 : Depth(src, i, n) >= 1}
  IN  IF open = {} THEN 0 ELSE Max(open)
OpenerKind(src, j) == IF Opener(src, j) = 0 THEN "none" ELSE src[Opener(src, j)].k
HasElse(src, j) ==
  \E n \in Opener(src, j) + 1 .. j - 1 : src[n].k = "else" /\ Opener(src, n) = Opener(src, j)

\* What is refused in an expression: a literal division by zero, and arithmetic
\* on a string.
DividesByZero(e) ==
  e.k = "bin" /\ e.op \in {"DIV", "REM"} /\ e.l.k = "num" /\ e.r = [k |-> "num", val |-> 0]
UsesText(e) ==
  \/ e.k = "bin" /\ "str" \in {e.l.k, e.r.k}
  \/ e.k = "un" /\ e.e.k = "str"
Constant(e) == e.k \in {"num"} \/ (e.k = "bin" /\ e.l.k = "num" /\ e.r.k = "num" /\ ~DividesByZero(e))
\* What a DIM and a PRINT ask for.
LegalDim(src, j, decl) ==
  /\ \A n \in DOMAIN decl.init : InFunction(src, j) \/ Constant(decl.init[n])
  /\ decl.array => /\ ~InFunction(src, j)
                   /\ \A n \in DOMAIN decl.size : decl.size[n].k = "num" /\ decl.size[n].val > 0
                   /\ Len(decl.init) <= IF decl.size = <<>> THEN 0 ELSE decl.size[1].val
HelperOf == [tab |-> {"printTab"}, join |-> {}, str |-> {"printStr"}, int |-> {"printInt"}]
HelpersFor(items) ==
  UNION {HelperOf[items[n].k] : n \in DOMAIN items} \cup IF LineDone(items) THEN {} ELSE {"printNL"}
FunctionsSoFar(src, j) == {src[i].name : i \in {n \in 1 .. j : src[n].k = "function"}}

Legal(src, j) ==
  CASE src[j].k \in {"endif"}                  -> OpenerKind(src, j) = "if"
    [] src[j].k \in {"else", "elseif"}         -> OpenerKind(src, j) = "if" /\ ~HasElse(src, j)
    [] src[j].k = "next"                       -> OpenerKind(src, j) = "for"
    [] src[j].k = "loop"                       -> OpenerKind(src, j) \in {"do", "dowhile", "dountil"}
    [] src[j].k \in {"loopwhile", "loopuntil"} -> OpenerKind(src, j) = "do"
    [] src[j].k = "endfunction"                -> OpenerKind(src, j) = "function"
    [] src[j].k = "function" -> Opener(src, j) = 0 /\ Depth(src, 1, j) < MaxBlocks
    [] src[j].k \in Openers \ {"function"}     -> Depth(src, 1, j) < MaxBlocks
    [] src[j].k = "let"                        -> ~DividesByZero(src[j].rvalue) /\ ~UsesText(src[j].rvalue)
    [] src[j].k = "dim" -> \A n \in DOMAIN src[j].decls : LegalDim(src, j, src[j].decls[n])
    [] src[j].k = "print" -> HelpersFor(src[j].items) \subseteq FunctionsSoFar(src, j)
    [] src[j].k = "asm" -> \A n \in DOMAIN src[j].code : \A e \in Range(src[j].code[n].arg) : e.k = "num"
    [] src[j].k = "ifline"                     -> FALSE
    [] OTHER                                   -> TRUE

\* A statement is refused exactly when it does not nest in those before it, when
\* it divides two literals by zero or computes with a string, when a size, an
\* initializer of a global or an operand of ASM is no constant, when a PRINT has
\* no helper, or when it is a one-line IF: the block stack neither rejects a
\* well-nested program nor lets a badly nested one by.
RefusedIffIllNested ==
  status = "idle" /\ source # <<>> => (phase = "error" <=> ~Legal(source, Len(source)))

NamesPlaced(b) == {s.name : s \in {t \in Range(g.syms) : t.placed = b}}

\* No statement leaves a branch open.  When compilation ends, the names that have a
\* place are those the source gives one: the functions it defines, the variables it
\* declares and those it assigns to (a name that nothing gives is refused in arithmetic,
\* as long as its symbol's memory is fresh).  Any other name, a function that is called and
\* never defined or a variable that is only read, is accepted and left without one
\* (compile.c:63 places variables alone), and its references are run as they are.  A
\* program with a meaning has no such name, but for variables that only count loops:
\* none of its other references dangles when it starts.
AllPlaced ==
  /\ Open = {}
  /\ phase = "compiled" /\ status = "idle" =>
       /\ g.gen = "ok" /\ ~InFunction(source, Len(source)) => NamesPlaced(TRUE) = Provided(source)
       /\ expected.ctl # "error" => NamesPlaced(FALSE) \subseteq Counters(source, Len(source))
-----------------------------------------------------------------------------
\* Once its code runs, a program that has an end comes to it.
Terminates == phase = "compiled" /\ expected.ctl = "run" ~> status = "halted"

BlockOf(b) ==
  IF b.type = "DO" /\ c.nodes[b.node].k \in {"dowhile", "dountil"} THEN "DOTEST" ELSE b.type

\* The parser implements the block discipline of BlockStack.
Nesting == INSTANCE BlockStack WITH
  blocks  <- [i \in DOMAIN c.blocks |-> BlockOf(c.blocks[i])],
  current <- IF c.current = 1 THEN "main" ELSE "nested",
  phase   <- CASE phase = "parsing"  -> "parsing"
               [] phase = "compiled" -> "done"
               [] phase \in {"error", "crash"} -> "error"
ImplementsNesting == Nesting!Spec
=============================================================================
