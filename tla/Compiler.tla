------------------------------- MODULE Compiler -------------------------------
(***************************************************************************)
(* Compile (compile.c) as a state machine: the source arrives statement by  *)
(* statement, one action per statement handler of the parser, and the end of *)
(* the source generates the main function and places the implicit globals.  *)
(* A family of programs is a sequence of sets: its i-th statement is any     *)
(* member of the i-th set.                                                   *)
(***************************************************************************)
EXTENDS Parser, References

CONSTANTS
  Programs,         \* families of programs
  StaleTypes,       \* what a new symbol's type field may hold
  MaxSymbols        \* bounds the number of global symbols of a program

VARIABLES
  program,          \* which family the program in the edit buffer is of
  source,           \* the statements read so far
  phase             \* "parsing", "compiled", "error" or "crash"

cvars == <<program, source, c, phase>>

EmptyContext(stale) ==
  [g |-> EmptyWorkspace,
   nodes |-> <<>>, blocks |-> <<>>, current |-> 1,
   node |-> IntegerLit(0), err |-> FALSE, strings |-> <<>>, stale |-> stale]

CompilerInit ==
  /\ program \in DOMAIN Programs
  /\ source = <<>>
  /\ \E stale \in [1 .. MaxSymbols -> StaleTypes] :
       c = StartFunction(EmptyContext(stale), 0, <<>>)
  /\ phase = "parsing"

Outcome(d) == IF d.err THEN "error" ELSE IF d.g.gen = "crash" THEN "crash" ELSE "parsing"

\* ParseError leaves by longjmp: nothing of the statement matters any more.
Parsed(d) ==
  /\ phase' = Outcome(d)
  /\ c' = IF Outcome(d) = "parsing" THEN [d EXCEPT !.node = IntegerLit(0)] ELSE c

Statement(kind, Handler(_, _)) ==
  /\ phase = "parsing"
  /\ Len(source) < Len(Programs[program])
  /\ \E s \in Programs[program][Len(source) + 1] :
       /\ s.k = kind
       /\ source' = Append(source, s)
       /\ Parsed(Handler(c, s))
  /\ UNCHANGED program

Rem         == Statement("rem", LAMBDA d, s : d)
Function_   == Statement("function", ParseFunction)
EndFunction == Statement("endfunction", ParseEndFunction)
Dim         == Statement("dim", ParseDim)
Let         == Statement("let", ParseLet)
CallStmt    == Statement("call", ParseFunctionCall)
If          == Statement("if", ParseIf)
IfLine      == Statement("ifline", ParseIfLine)
ElseIf      == Statement("elseif", ParseElseIf)
Else        == Statement("else", ParseElse)
EndIf       == Statement("endif", ParseEndIf)
For         == Statement("for", ParseFor)
NextStmt    == Statement("next", ParseNext)
Do          == Statement("do", ParseDo)
DoWhile     == Statement("dowhile", LAMBDA d, s : ParseDoTest(d, s, "dowhile"))
DoUntil     == Statement("dountil", LAMBDA d, s : ParseDoTest(d, s, "dountil"))
Loop        == Statement("loop", ParseLoop)
LoopWhile   == Statement("loopwhile", LAMBDA d, s : ParseLoopTest(d, s, "loopwhile"))
LoopUntil   == Statement("loopuntil", LAMBDA d, s : ParseLoopTest(d, s, "loopuntil"))
ReturnStmt  == Statement("return", ParseReturn)
Print_      == Statement("print", ParsePrint)
End         == Statement("end", ParseEnd)
Asm         == Statement("asm", ParseAsm)

\* AllocateLowMemory leaves nextLow where it is and rounds the size up.
StoreVector(w, v) == PutData(w, v)

PlaceGlobalsMutant(w) == w              \* implicit globals get no storage
PlaceGlobals(w) ==
  LET place(h, s) ==
        IF h.syms[s].class = "variable" /\ ~h.syms[s].placed
        THEN PlaceSymbol(StoreVector(h, 0), s, CodeAddr(h)) ELSE h
  IN  FoldLeft(place, w, [s \in 1 .. Len(w.syms) |-> s])

Generated(w) ==
  /\ phase' = IF w.gen = "crash" THEN "crash" ELSE "compiled"
  /\ c' = IF w.gen = "crash" THEN c ELSE [c EXCEPT !.g = PlaceGlobals(w)]

\* Blocks still open are generated as they are.
EndOfSource ==
  /\ phase = "parsing"
  /\ Len(source) = Len(Programs[program])
  /\ Generated(CodeFunction(g, c.nodes, 1))
  /\ UNCHANGED <<program, source>>

CompilerNext ==
  \/ Rem \/ Function_ \/ EndFunction \/ Dim \/ Let \/ CallStmt
  \/ If \/ IfLine \/ ElseIf \/ Else \/ EndIf \/ For \/ NextStmt
  \/ Do \/ DoWhile \/ DoUntil \/ Loop \/ LoopWhile \/ LoopUntil
  \/ ReturnStmt \/ Print_ \/ End \/ Asm
  \/ EndOfSource
=============================================================================
