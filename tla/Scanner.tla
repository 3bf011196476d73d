-------------------------------- MODULE Scanner --------------------------------
(***************************************************************************)
(* The token scanner (scan.c), one operator per function, each from a       *)
(* scanner state s to the scanner state it leaves:                          *)
(*   line, pos   lineBuf and the place of linePtr in it                     *)
(*   inComment   inside a comment that began on an earlier line             *)
(*   ch          the character the last of the character readers returned   *)
(*   tkn         the token the last of the token readers returned           *)
(*   token       the text of the last word or string                        *)
(*   value       tokenValue                                                 *)
(*   err         ParseError was called                                      *)
(*   tokens      the tokens of the line so far                              *)
(* A token is its spelling in capitals, or one of the names in angle         *)
(* brackets for the classes.  The tokens of a line do not depend on what    *)
(* the parser makes of them, so a line is scanned as a whole: a line with a  *)
(* token that cannot be read is an error wherever the parser stands.        *)
(***************************************************************************)
EXTENDS Image, Characters

CONSTANT MaxToken       \* MAXTOKEN

ASSUME ScannerAssumption == MaxToken \in Nat \ {0}

EOF        == "eof"
NONE       == "<NONE>"
EOL        == "<EOL>"
IDENTIFIER == "<IDENTIFIER>"
NUMBER     == "<NUMBER>"
QUOTED     == "<STRING>"

\* The words of the keyword table.
ktab ==
  {"INCLUDE", "REM", "DIM", "FUNCTION", "SUB", "AS", "LET", "IF", "THEN", "ELSE", "END", "FOR",
   "TO", "STEP", "NEXT", "DO", "WHILE", "UNTIL", "LOOP", "GOTO", "MOD", "AND", "OR", "NOT",
   "RETURN", "PRINT", "ASM"}

\* Pairs of keywords that make one token.
Pairs ==
  {"END FUNCTION", "END SUB", "END IF", "END ASM", "ELSE IF", "DO WHILE", "DO UNTIL",
   "LOOP WHILE", "LOOP UNTIL"}
PairStarts == {"END", "ELSE", "DO", "LOOP"}

StartOfLine(line, inComment) ==
  [line |-> line, pos |-> 1, inComment |-> inComment, ch |-> EOF, tkn |-> NONE, token |-> "",
   value |-> 0, err |-> FALSE, tokens |-> <<>>]

ScanError(s) == [s EXCEPT !.err = TRUE]
-----------------------------------------------------------------------------
XGetC(s) ==
  IF s.pos > Len(s.line) THEN [s EXCEPT !.ch = EOF]
  ELSE [s EXCEPT !.ch = s.line[s.pos], !.pos = @ + 1]

UngetC(s) == [s EXCEPT !.pos = @ - 1]

\* Up to the end of the comment, or of the line inside it.
RECURSIVE SkipCommentAfter(_, _)
CommentChar(d, lastch) ==
  IF d.ch = EOF THEN [d EXCEPT !.inComment = TRUE]
  ELSE IF lastch = "*" /\ d.ch = "/" THEN [d EXCEPT !.inComment = FALSE]
  ELSE SkipCommentAfter(d, d.ch)
SkipCommentAfter(s, lastch) == CommentChar(XGetC(s), lastch)
SkipCommentMutant(s) == SkipCommentAfter(s, "*")    \* /*/ is a whole comment
SkipComment(s) == SkipCommentAfter(s, NONE)

\* The next character that is not in a comment.
RECURSIVE GetCode(_)
AfterSlash(d) ==
  CASE d.ch = "/" -> [d EXCEPT !.pos = Len(d.line) + 1, !.ch = EOF]
    [] d.ch = "*" -> GetCode(SkipComment(d))
    [] d.ch \notin {"/", "*"} -> [UngetC(d) EXCEPT !.ch = "/"]
CodeChar(d) == IF d.ch = "/" THEN AfterSlash(XGetC(d)) ELSE d
GetCode(s) == IF s.inComment THEN [s EXCEPT !.ch = EOF] ELSE CodeChar(XGetC(s))
GetChar(s) == GetCode(IF s.inComment THEN SkipComment(s) ELSE s)

RECURSIVE SkipSpaces(_)
AfterSpaces(d) == IF d.ch \in Spaces THEN SkipSpaces(d) ELSE d
SkipSpaces(s) == AfterSpaces(GetChar(s))

LiteralChar(s) ==
  LET d == XGetC(s)
  IN  [d EXCEPT !.ch = CASE d.ch = "n" -> "\n" [] d.ch = "r" -> "\r" [] d.ch = "t" -> "\t"
                         [] d.ch = EOF -> "\\" [] OTHER -> d.ch]
-----------------------------------------------------------------------------
IdentifierChars == Upper \cup Lower \cup Digits \cup {"$", "%", "_"}

\* Adds to the token the characters in keep, passing over those in skip.
RECURSIVE Collect(_, _, _)
Collected(d, keep, skip) ==
  CASE d.ch \in keep -> Collect([d EXCEPT !.token = @ \o d.ch], keep, skip)
    [] d.ch \in skip -> Collect(d, keep, skip)
    [] d.ch \notin keep \cup skip -> UngetC(d)
Collect(s, keep, skip) == Collected(GetChar(s), keep, skip)

Word(d) ==
  IF Len(d.token) > MaxToken THEN ScanError(d)
  ELSE [d EXCEPT !.tkn = IF Folded(d.token) \in ktab THEN Folded(d.token) ELSE IDENTIFIER]
IdentifierToken(s) == Word(Collect([s EXCEPT !.token = s.ch], IdentifierChars, {}))

\* The digits of the token in a base; letters count from ten.
DigitValue(ch) == IF ch \in Digits THEN Code(ch) - Code("0") ELSE Code(ToUpper(ch)) - Code("A") + 10
Number(d, base) ==
  [d EXCEPT !.tkn = NUMBER,
            !.value = Wrap(FoldLeft(LAMBDA v, ch : v * base + DigitValue(ch), 0, Chars(d.token)))]
NumberToken(s) == Number(Collect([s EXCEPT !.token = s.ch], Digits, {"_"}), 10)
HexNumberToken(s) == Number(Collect([s EXCEPT !.token = ""], HexDigits, {"_"}), 16)
BinaryNumberToken(s) == Number(Collect([s EXCEPT !.token = ""], {"0", "1"}, {"_"}), 2)
AfterZero(d) ==
  CASE d.ch \in {"x", "X"} -> HexNumberToken(d)
    [] d.ch \in {"b", "B"} -> BinaryNumberToken(d)
    [] d.ch \notin {"x", "X", "b", "B"} -> NumberToken([UngetC(d) EXCEPT !.ch = "0"])

RECURSIVE StringFrom(_)
StringChar(d) ==
  CASE d.ch = "\"" -> [d EXCEPT !.tkn = QUOTED]
    [] d.ch = EOF \/ Len(d.token) = MaxToken -> ScanError(d)
    [] OTHER -> LET e == IF d.ch = "\\" THEN LiteralChar(d) ELSE d
                IN  StringFrom([e EXCEPT !.token = @ \o e.ch])
StringFrom(s) == StringChar(XGetC(s))
StringToken(s) == StringFrom([s EXCEPT !.token = ""])

CharToken(s) ==
  LET d == LiteralChar(s)
      q == XGetC(d)
  IN  IF q.ch # "'" THEN ScanError(q)
      ELSE [q EXCEPT !.tkn = NUMBER, !.token = d.ch, !.value = Code(d.ch)]

\* After the first word of a pair.  When the second is not the one looked for,
\* linePtr goes back to it; inComment does not.
LookaheadMutant(s, w, pair) ==          \* linePtr does not go back
  [w EXCEPT !.tkn = IF pair \in Pairs THEN pair ELSE s.tkn]
Lookahead(s, w, pair) ==
  IF pair \in Pairs THEN [w EXCEPT !.tkn = pair] ELSE [w EXCEPT !.tkn = s.tkn, !.pos = s.pos]
NextWord(d) == IF d.ch \in IdentifierChars THEN IdentifierToken(d) ELSE [d EXCEPT !.tkn = NONE]
Paired(s, w) == Lookahead(s, w, s.tkn \o " " \o w.tkn)
Keyword(s) == IF s.tkn \in PairStarts THEN Paired(s, NextWord(SkipSpaces(s))) ELSE s

\* An operator of two characters, or of the first of them.
Operator(s, d) ==
  IF s.ch \o d.ch \in {"<=", "<>", "<<", ">=", ">>"} THEN [d EXCEPT !.tkn = s.ch \o d.ch]
  ELSE [UngetC(d) EXCEPT !.tkn = s.ch]

TokenFrom(s) ==
  CASE s.ch = EOF -> [s EXCEPT !.tkn = EOL]
    [] s.ch = "\"" -> StringToken(s)
    [] s.ch = "'" -> CharToken(s)
    [] s.ch \in {"<", ">"} -> Operator(s, GetChar(s))
    [] s.ch = "0" -> AfterZero(GetChar(s))
    [] s.ch \in Digits \ {"0"} -> NumberToken(s)
    [] s.ch \in IdentifierChars \ Digits -> Keyword(IdentifierToken(s))
    [] s.ch \notin IdentifierChars \cup {EOF, "\"", "'", "<", ">"} -> [s EXCEPT !.tkn = s.ch]
GetToken1(s) == TokenFrom(SkipSpaces(s))

\* The tokens up to the end of the line; the parser asks for none after a REM or
\* END FUNCTION that starts it.
RECURSIVE TokensFrom(_)
LastToken(s) == s.tkn = EOL \/ (Len(s.tokens) = 1 /\ s.tkn \in {"REM", "END FUNCTION"})
TokenThen(s) == IF LastToken(s) THEN s ELSE TokensFrom(s)
TokenRead(t) ==
  IF t.err THEN t
  ELSE TokenThen([t EXCEPT !.tokens = Append(@, [tkn |-> t.tkn, token |-> t.token, value |-> t.value])])
TokensFrom(s) == TokenRead(GetToken1(s))
ScanLine(line, inComment) == TokensFrom(StartOfLine(line, inComment))
=============================================================================
