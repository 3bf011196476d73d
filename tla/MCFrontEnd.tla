------------------------------ MODULE MCFrontEnd ------------------------------
(***************************************************************************)
(* FrontEnd on programs written by SourceText: expressions of two           *)
(* operators, every statement in every layout, lines with comments across   *)
(* them, files that include each other, and statements with a word too       *)
(* many, too few or another one.                                            *)
(***************************************************************************)
EXTENDS FrontEnd, FiniteSetsExt

T == INSTANCE SourceText

X == [k |-> "id", name |-> "x"]
Y == [k |-> "id", name |-> "Y1"]
Num(v) == [k |-> "num", val |-> v]
Let(x, e) == [k |-> "let", lvalue |-> [k |-> "id", name |-> x], rvalue |-> e]

\* Programs: the kind of what they hold, and what that is.
Family(kind, of) == [kind : {kind}, of : of]
-----------------------------------------------------------------------------
\* Expressions: every operator over every other, on either side.
BinaryOps ==
  {"ADD", "SUB", "MUL", "DIV", "REM", "BAND", "BOR", "BXOR", "SHL", "SHR", "LT", "LE", "EQ", "NE", "GE", "GT"}
Binary(op, l, r) == [k |-> "bin", op |-> op, l |-> l, r |-> r]
Inner ==
  {Binary(op, X, Y) : op \in BinaryOps}
    \cup {[k |-> "un", op |-> op, e |-> X] : op \in {"NEG", "NOT", "BNOT"}}
    \cup {[k |-> k, es |-> <<X, Y, Num(0)>>] : k \in {"or", "and"}}
    \cup {[k |-> "call", fcn |-> X, args |-> <<Y, Num(1)>>], [k |-> "call", fcn |-> Y, args |-> <<>>],
          [k |-> "idx", array |-> X, index |-> Num(1)]}
Outer(e) ==
  {Binary(op, e, Num(2)) : op \in BinaryOps} \cup {Binary(op, Num(2), e) : op \in BinaryOps}
    \cup {[k |-> "un", op |-> op, e |-> e] : op \in {"NEG", "NOT", "BNOT"}}
    \cup {[k |-> k, es |-> <<e, Num(2)>>] : k \in {"or", "and"}}
    \cup {[k |-> k, es |-> <<Num(2), e>>] : k \in {"or", "and"}}
    \cup {[k |-> "call", fcn |-> e, args |-> <<Num(2)>>], [k |-> "call", fcn |-> X, args |-> <<Num(2), e>>],
          [k |-> "idx", array |-> e, index |-> Num(2)], [k |-> "idx", array |-> X, index |-> e]}
Expressions == Inner \cup UNION {Outer(e) : e \in Inner}

Tight == [T!Plain EXCEPT !.gap = ""]
ExpressionPrograms == Family("statement", {<<Let("x", e), Tight>> : e \in Expressions})

\* Statements in layouts.
E == Binary("SUB", Binary("MUL", X, Num(10)), [k |-> "call", fcn |-> Y, args |-> <<X>>])
Decl(x) == [name |-> x, array |-> FALSE, size |-> <<>>, given |-> FALSE, init |-> <<>>]
Array(x, size) == [Decl(x) EXCEPT !.array = TRUE, !.size = size]
Given(d, init) == [d EXCEPT !.given = TRUE, !.init = init]
Dim(decls) == [k |-> "dim", decls |-> decls]
PrintOf(dev, items) == [k |-> "print", dev |-> dev, items |-> items]
Value(e) == [k |-> "int", expr |-> e]
Str(text) == [k |-> "str", text |-> text]
Simple ==
  {Let("x", E), Let("a$%_", Num(37)), [k |-> "call", expr |-> [k |-> "call", fcn |-> X, args |-> <<E, [k |-> "str", text |-> "THEN"]>>]],
   [k |-> "let", lvalue |-> [k |-> "idx", array |-> X, index |-> E], rvalue |-> Num(0)],
   [k |-> "if", test |-> Binary("LE", E, Num(16))], [k |-> "elseif", test |-> Binary("NE", X, Y)],
   [k |-> "for", var |-> "i", start |-> Num(1), end |-> E, step |-> <<>>],
   [k |-> "for", var |-> "i", start |-> X, end |-> Num(10), step |-> <<[k |-> "un", op |-> "NEG", e |-> Num(1)]>>],
   [k |-> "next", var |-> "i"], [k |-> "return", expr |-> <<>>], [k |-> "return", expr |-> <<E>>],
   [k |-> "function", name |-> "f", args |-> <<>>], [k |-> "function", name |-> "f", args |-> <<"x", "Y1">>],
   Dim(<<Decl("x"), Given(Decl("Y1"), <<E>>), Array("a", <<E>>), Array("b", <<>>)>>),
   PrintOf(<<>>, <<>>), PrintOf(<<X>>, <<Str("x"), [k |-> "join"]>>),
   PrintOf(<<>>, <<Value(E), [k |-> "tab"], Value(Y), [k |-> "join"], Str("{")>>)}
    \cup {[k |-> k] : k \in {"else", "endif", "do", "loop", "end"}}
    \cup {[k |-> k, test |-> Binary("GE", X, Num(0))] : k \in {"dowhile", "dountil", "loopwhile", "loopuntil"}}
Several ==
  {[k |-> "endfunction"], [k |-> "rem"],
   Dim(<<Given(Array("a", <<Num(3)>>), <<Num(1), E>>), Decl("x"), Given(Array("b", <<>>), <<Num(0)>>)>>),
   [k |-> "asm", code |-> <<>>],
   [k |-> "asm", code |-> <<[op |-> "LIT", arg |-> <<E>>], [op |-> "ADD", arg |-> <<>>],
                            [op |-> "TRAP", arg |-> <<Num(2)>>], [op |-> "RETURN", arg |-> <<>>]>>]}
Layouts ==
  {T!Plain, Tight}
    \cup {[T!Plain EXCEPT !.gap = gap, !.lower = TRUE, !.radix = radix] :
            gap \in {" ", "\t  ", " /*/ ' */", "/* x */ "}, radix \in {"hex", "binary", "zeros"}}
    \cup {[T!Plain EXCEPT !.margin = margin, !.tail = tail] :
            margin \in {"", "\t/**/", "/* LET */ "}, tail \in {"", "// THEN", "\t/* open */ // \""}}
StatementPrograms == Family("statement", (Simple \cup Several) \X Layouts)
-----------------------------------------------------------------------------
\* Comments from one line to another.
Rem == [k |-> "rem"]
None == [k |-> "none"]
SourceLine(begin, stmt, finish) == [begin |-> begin, stmt |-> stmt, finish |-> finish]
Finishes == {"", " /* more", " // /* end", " /* // */"}
FirstLines == {SourceLine("", stmt, finish) : stmt \in {Let("A", Num(1)), Rem}, finish \in Finishes}
MoreLines ==
  {SourceLine(begin, stmt, finish) : begin \in {"", "*/"}, stmt \in {Let("B", Num(2)), None}, finish \in Finishes}

\* Files: each includes what the others do, and leaves off somewhere.
Include(name) == SourceLine("", [k |-> "include", name |-> name], "")
Assign(x) == SourceLine("", Let(x, Num(1)), "")
Open(x) == SourceLine("", [k |-> "open", decl |-> Given(Array(x, <<Num(3)>>), <<>>)], "")
Close == SourceLine("", [k |-> "close"], "")
SourceFiles ==
  ("a"     :> <<Assign("A"), Include("b"), Assign("A2")>>)
    @@ ("b"     :> <<Include("a"), Include("b"), Assign("B")>>)
    @@ ("note"  :> <<SourceLine("", Let("C", Num(1)), " /* more"), Assign("C2")>>)
    @@ ("array" :> <<Open("D")>>)
    @@ ("wrong" :> <<Include("empty"), SourceLine("", [k |-> "wrong", text |-> "W ="], "")>>)
    @@ ("empty" :> <<>>)
MainChoices ==
  {Include(name) : name \in DOMAIN SourceFiles \cup {"gone"}}
    \cup {Assign("M"), Close, SourceLine("*/", Let("M", Num(2)), ""),
          SourceLine("", [k |-> "include", name |-> "a"], " /* more")}

TextOf(line) == T!LineText(line)
Texts(lines) == [i \in 1 .. Len(lines) |-> TextOf(lines[i])]
CommentPrograms == Family("lines", {<<l, m, n>> : l \in FirstLines, m \in MoreLines, n \in MoreLines})
IncludePrograms == Family("files", UNION {[1 .. n -> MainChoices] : n \in 1 .. 3})
-----------------------------------------------------------------------------
\* Statements of one line with a word left out, put in, or replaced.
Alphabet == {"x", "1", "=", "(", ",", "TO", "IF", "-"}
Edit == [stmt : Simple, remove : 0 .. 1, at : 1 .. 20, words : {<<>>} \cup {<<w>> : w \in Alphabet}]
Edited(ws, e) == SubSeq(ws, 1, e.at - 1) \o e.words \o SubSeq(ws, e.at + e.remove, Len(ws))
EditedPrograms == Family("words", {e \in Edit : e.at <= Len(T!ShowStatement(e.stmt))})
WordsOf(p) == Edited(T!ShowStatement(p.of.stmt), p.of)
-----------------------------------------------------------------------------
MCNewProgram == [kind |-> "lines", of |-> <<>>]
MCPrograms ==
  UNION {{MCNewProgram}, ExpressionPrograms, StatementPrograms, CommentPrograms, IncludePrograms,
         EditedPrograms}
MCEdits(p) == IF p = MCNewProgram THEN MCPrograms ELSE IF p.kind = "files" THEN {p} ELSE {}
MCNames == DOMAIN SourceFiles \cup {"gone", "x"}
MCReadable == DOMAIN SourceFiles
LinesOf(p) ==
  CASE p.kind = "statement"         -> T!TextLines(p.of[1], p.of[2])
    [] p.kind \in {"lines", "files"} -> Texts(p.of)
    [] p.kind = "words"             -> <<T!Spaced(WordsOf(p), T!Plain)>>
TextOfProgram == [p \in MCPrograms |-> LinesOf(p)]
MCProgramText(p) == TextOfProgram[p]
MCFileText == [name \in MCNames |-> IF name \in MCReadable THEN Texts(SourceFiles[name]) ELSE <<>>]
MCMainLines(p) == Len(MCProgramText(p))
MCFileLines == [name \in MCNames |-> Len(MCFileText[name])]
-----------------------------------------------------------------------------
\* Whatever the layout, the comments, the way its lines are spread over files and
\* the state an earlier RUN ended in, the compiler reads the statements that were
\* written, in the order they were written, and stops at the first wrong line.
Written(p) ==
  IF p.kind = "statement" THEN [statements |-> <<p.of[1]>>, bad |-> "none"] ELSE T!MeaningOf(p.of, SourceFiles)
ReadsSo(means) ==
  /\ IsPrefix(source, means.statements)
  /\ phase = "done" => source = means.statements /\ means.bad = "none"
  /\ scan.err => source = means.statements /\ means.bad = "syntax"
ReadsAsWritten == program.kind # "words" => ReadsSo(Written(program))

\* A line that is accepted says no more than the statement it is taken for: every
\* word counts, but for LET, redundant parentheses and a plus sign, and what
\* follows REM or END FUNCTION.
Counted(ws) == SelectSeq(ws, LAMBDA w : w \notin {"LET", "(", ")", "+"})
TailIgnored(ws) == IsPrefix(<<"REM">>, ws) \/ IsPrefix(<<"END", "FUNCTION">>, ws)
NothingIgnored ==
  phase = "done" /\ program.kind = "words" /\ ~TailIgnored(WordsOf(program)) =>
    Counted(FlattenSeq([i \in 1 .. Len(source) |-> T!ShowStatement(source[i])])) = Counted(WordsOf(program))
=============================================================================
