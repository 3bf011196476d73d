------------------------------ MODULE SourceText ------------------------------
(***************************************************************************)
(* What a program's text means, said the other way round from Scanner and   *)
(* Grammar: how a statement is written, in any of several layouts, and what  *)
(* statements the lines of a program stand for once comments are left out   *)
(* and INCLUDEs replaced by the files they name.                            *)
(***************************************************************************)
EXTENDS Image, Characters, TLC

\* Operators from the loosest to the closest, with the names of their opcodes.
Precedence ==
  <<"OR" :> "or", "AND" :> "and", "^" :> "BXOR", "|" :> "BOR", "&" :> "BAND",
    "=" :> "EQ" @@ "<>" :> "NE", "<" :> "LT" @@ "<=" :> "LE" @@ ">=" :> "GE" @@ ">" :> "GT",
    "<<" :> "SHL" @@ ">>" :> "SHR", "+" :> "ADD" @@ "-" :> "SUB",
    "*" :> "MUL" @@ "/" :> "DIV" @@ "MOD" :> "REM">>
Unary   == Len(Precedence) + 1
Primary == Unary + 1
Signs   == "-" :> "NEG" @@ "NOT" :> "NOT" @@ "~" :> "BNOT"

LevelOf(op)  == SelectInSeq(Precedence, LAMBDA ops : op \in Range(ops))
Spelling(op) == CHOOSE s \in DOMAIN Precedence[LevelOf(op)] : Precedence[LevelOf(op)][s] = op
Sign(op)     == CHOOSE s \in DOMAIN Signs : Signs[s] = op
Level(e) ==
  CASE e.k = "or" -> 1 [] e.k = "and" -> 2 [] e.k = "bin" -> LevelOf(e.op)
    [] e.k = "un" -> Unary [] e.k \in {"num", "id", "str", "call", "idx"} -> Primary

Quoted(text) == "\"" \o text \o "\""
Join(parts, sep) ==
  FlattenSeq([i \in 1 .. Len(parts) |-> IF i = 1 THEN parts[1] ELSE <<sep>> \o parts[i]])

\* The words of an expression, with the parentheses it needs and no others.
RECURSIVE Show(_)
ShowAt(e, n) == IF Level(e) < n THEN <<"(">> \o Show(e) \o <<")">> ELSE Show(e)
ShowAll(es, n, sep) == Join([i \in 1 .. Len(es) |-> ShowAt(es[i], n)], sep)
Show(e) ==
  CASE e.k = "num"  -> <<ToString(e.val)>>
    [] e.k = "id"   -> <<e.name>>
    [] e.k = "str"  -> <<Quoted(e.text)>>
    [] e.k = "or"   -> ShowAll(e.es, 2, "OR")
    [] e.k = "and"  -> ShowAll(e.es, 3, "AND")
    [] e.k = "bin"  -> ShowAt(e.l, Level(e)) \o <<Spelling(e.op)>> \o ShowAt(e.r, Level(e) + 1)
    [] e.k = "un"   -> <<Sign(e.op)>> \o ShowAt(e.e, Primary)
    [] e.k = "call" -> ShowAt(e.fcn, Primary) \o <<"(">> \o ShowAll(e.args, 1, ",") \o <<")">>
    [] e.k = "idx"  -> ShowAt(e.array, Primary) \o <<"[">> \o Show(e.index) \o <<"]">>

\* The words of a statement; "\n" where it goes on in the next line.
Optional(word, es) == IF es = <<>> THEN <<>> ELSE <<word>> \o Show(es[1])
ShowDecl(d) ==
  <<d.name>>
    \o (IF d.array THEN <<"[">> \o (IF d.size = <<>> THEN <<>> ELSE Show(d.size[1])) \o <<"]">> ELSE <<>>)
    \o (IF ~d.given THEN <<>>
        ELSE IF d.array THEN <<"=", "{", "\n">> \o ShowAll(d.init, 1, "\n") \o <<"\n", "}">>
        ELSE <<"=">> \o Show(d.init[1]))
ShowItem(i) ==
  CASE i.k = "int" -> Show(i.expr) [] i.k = "str" -> <<Quoted(i.text)>>
    [] i.k = "tab" -> <<",">> [] i.k = "join" -> <<";">>
Mnemonic(op) == IF op = "RETURN" THEN "RETURNX" ELSE op      \* RETURN is a keyword
ShowInstruction(i) == IF i.arg = <<>> THEN <<Mnemonic(i.op)>> ELSE Optional(i.op, i.arg)
Spelled ==
  [else |-> <<"ELSE">>, endif |-> <<"END", "IF">>, do |-> <<"DO">>, loop |-> <<"LOOP">>,
   end |-> <<"END">>, endfunction |-> <<"END", "FUNCTION">>, rem |-> <<"REM", "IF", "/*">>,
   dowhile |-> <<"DO", "WHILE">>, dountil |-> <<"DO", "UNTIL">>,
   loopwhile |-> <<"LOOP", "WHILE">>, loopuntil |-> <<"LOOP", "UNTIL">>]
ShowStatement(s) ==
  CASE s.k = "none"     -> <<>>
    [] s.k = "include"  -> <<"INCLUDE", Quoted(s.name)>>
    [] s.k = "dim"      -> <<"DIM">> \o Join([i \in 1 .. Len(s.decls) |-> ShowDecl(s.decls[i])], ",")
    [] s.k = "let"      -> Show(s.lvalue) \o <<"=">> \o Show(s.rvalue)
    [] s.k = "call"     -> Show(s.expr)
    [] s.k = "if"       -> <<"IF">> \o Show(s.test) \o <<"THEN">>
    [] s.k = "elseif"   -> <<"ELSE", "IF">> \o Show(s.test) \o <<"THEN">>
    [] s.k \in {"dowhile", "dountil", "loopwhile", "loopuntil"} -> Spelled[s.k] \o Show(s.test)
    [] s.k = "for"      -> <<"FOR", s.var, "=">> \o Show(s.start) \o <<"TO">> \o Show(s.end) \o Optional("STEP", s.step)
    [] s.k = "next"     -> <<"NEXT", s.var>>
    [] s.k = "return"   -> IF s.expr = <<>> THEN <<"RETURN">> ELSE Optional("RETURN", s.expr)
    [] s.k = "print"    ->
         <<"PRINT">> \o (IF s.dev = <<>> THEN <<>> ELSE Optional("#", s.dev) \o <<",">>)
           \o FlattenSeq([i \in 1 .. Len(s.items) |-> ShowItem(s.items[i])])
    [] s.k = "function" -> <<"FUNCTION", s.name>> \o (IF s.args = <<>> THEN <<>>
                             ELSE <<"(">> \o Join([i \in 1 .. Len(s.args) |-> <<s.args[i]>>], ",") \o <<")">>)
    [] s.k = "asm"      ->
         <<"ASM", "\n">> \o Join([i \in 1 .. Len(s.code) |-> ShowInstruction(s.code[i])], "\n")
           \o (IF s.code = <<>> THEN <<>> ELSE <<"\n">>) \o <<"END", "ASM">>
    [] s.k \in {"else", "endif", "do", "loop", "end", "endfunction", "rem"} -> Spelled[s.k]
-----------------------------------------------------------------------------
\* A layout: what stands between words, how keywords and numbers are written, and
\* what ends a line.
WordChars == Upper \cup Lower \cup Digits \cup {"$", "%", "_"}
Keywords ==
  {"INCLUDE", "REM", "DIM", "FUNCTION", "LET", "IF", "THEN", "ELSE", "END", "FOR", "TO", "STEP",
   "NEXT", "DO", "WHILE", "UNTIL", "LOOP", "MOD", "AND", "OR", "NOT", "RETURN", "PRINT", "ASM"}
    \cup DOMAIN Op \cup {"RETURNX"}
Lowered(text) ==
  FoldLeft(LAMBDA acc, ch : acc \o (IF ch \in Upper THEN SubSeq(LowerCase, Place(UpperCase, ch), Place(UpperCase, ch)) ELSE ch),
           "", Chars(text))
RECURSIVE InBase(_, _)
InBase(v, b) ==
  (IF v < b THEN "" ELSE InBase(v \div b, b) \o "_") \o SubSeq("0123456789aBcDeF", (v % b) + 1, (v % b) + 1)
Numeral(word, radix) ==
  LET v == CHOOSE n \in 0 .. 255 : ToString(n) = word
  IN  CASE radix = "decimal" -> word
        [] radix = "hex"     -> "0x" \o InBase(v, 16)
        [] radix = "binary"  -> "0B" \o InBase(v, 2)
        [] radix = "zeros"   -> "00" \o InBase(v, 10)
Written(word, layout) ==
  CASE word \in Keywords -> IF layout.lower THEN Lowered(word) ELSE word
    [] SubSeq(word, 1, 1) \in Digits -> Numeral(word, layout.radix)
    [] OTHER -> word

Apart(a, b) == SubSeq(a, Len(a), Len(a)) \in WordChars /\ SubSeq(b, 1, 1) \in WordChars
Gap(a, b, layout) == IF layout.gap # "" THEN layout.gap ELSE IF Apart(a, b) THEN " " ELSE ""
Spaced(words, layout) ==
  IF words = <<>> THEN ""
  ELSE FoldLeft(LAMBDA text, i : text \o Gap(words[i - 1], words[i], layout) \o Written(words[i], layout),
                Written(words[1], layout), [i \in 1 .. Len(words) - 1 |-> i + 1])
InLines(words) ==
  FoldLeft(LAMBDA ls, w : IF w = "\n" THEN Append(ls, <<>>) ELSE [ls EXCEPT ![Len(ls)] = Append(@, w)],
           <<<<>>>>, words)
Laid(lines, layout) ==
  [i \in 1 .. Len(lines) |-> layout.margin \o Spaced(lines[i], layout) \o layout.tail]
TextLines(stmt, layout) == Laid(InLines(ShowStatement(stmt)), layout)
Plain == [gap |-> " ", lower |-> FALSE, radix |-> "decimal", margin |-> "", tail |-> ""]
-----------------------------------------------------------------------------
\* A line of a program that is more than one statement: `begin' ends a comment
\* when there is one, `finish' is a comment; the statement may open an array's
\* initializers ("open"), or go on with them and close them ("close").
Statement1(stmt) ==
  CASE stmt.k = "open"  -> "DIM " \o stmt.decl.name \o "[3] = { 1"
    [] stmt.k = "close" -> "2 }"
    [] stmt.k = "wrong" -> stmt.text
    [] OTHER -> Spaced(ShowStatement(stmt), Plain)
LineText(line) == line.begin \o Statement1(line.stmt) \o line.finish

\* How the rest of a line leaves the comments.
Finished(c, finish) ==
  CASE finish = " /* more"     -> TRUE
    [] finish = " // /* end"   -> c
    [] finish = " /* // */"    -> FALSE
    [] finish = ""             -> c

\* The statements of the lines, and how reading them ends; c is being in a comment,
\* open the declaration whose braces are open, seen the names included so far.
AsElement(stmt) ==
  [k |-> "bin", op |-> "EQ", l |-> stmt.lvalue, r |-> stmt.rvalue]
Opened(stmt) == [stmt.decl EXCEPT !.init = <<[k |-> "num", val |-> 1]>>]
Closed(d) == [k |-> "dim", decls |-> <<[d EXCEPT !.init = Append(@, [k |-> "num", val |-> 2])]>>]
Outcome(out, bad) == [statements |-> out, bad |-> bad]

RECURSIVE Meaning(_, _, _)
Then(st, rest, files, fields) == Meaning(rest, files, fields @@ st)
OfLine(line, st, rest, files) ==
  LET stmt == line.stmt
      c    == [c |-> IF stmt.k = "rem" THEN FALSE ELSE Finished(FALSE, line.finish)]
  IN  IF st.c /\ line.begin = "" THEN Then(st, rest, files, [c |-> Finished(TRUE, line.finish)])
      ELSE IF st.c # (line.begin # "") \/ stmt.k = "wrong" THEN Outcome(st.out, "syntax")
      ELSE IF st.open # <<>> THEN
        CASE stmt.k = "close" -> Then(st, rest, files, [open |-> <<>>, out |-> Append(st.out, Closed(st.open[1]))] @@ c)
          [] stmt.k = "let"   -> Then(st, rest, files, [open |-> <<[st.open[1] EXCEPT !.init = Append(@, AsElement(stmt))]>>] @@ c)
          [] stmt.k = "none"  -> Then(st, rest, files, c)
          [] OTHER            -> Outcome(st.out, "syntax")
      ELSE
        CASE stmt.k = "close" -> Outcome(st.out, "syntax")
          [] stmt.k = "open"  -> Then(st, rest, files, [open |-> <<Opened(stmt)>>] @@ c)
          [] stmt.k = "none"  -> Then(st, rest, files, c)
          [] stmt.k = "include" /\ stmt.name \in st.seen -> Then(st, rest, files, c)
          [] stmt.k = "include" /\ stmt.name \notin st.seen /\ stmt.name \notin DOMAIN files -> Outcome(st.out, "file")
          [] stmt.k = "include" /\ stmt.name \in DOMAIN files \ st.seen ->
               Then(st, files[stmt.name] \o rest, files, [seen |-> st.seen \cup {stmt.name}] @@ c)
          [] OTHER -> Then(st, rest, files, [out |-> Append(st.out, stmt)] @@ c)
Meaning(lines, files, st) ==
  IF lines = <<>> THEN Outcome(st.out, IF st.open = <<>> THEN "none" ELSE "syntax")
  ELSE OfLine(Head(lines), st, Tail(lines), files)
MeaningOf(lines, files) == Meaning(lines, files, [c |-> FALSE, open |-> <<>>, seen |-> {}, out |-> <<>>])
=============================================================================
