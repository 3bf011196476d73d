------------------------------- MODULE Console -------------------------------
(***************************************************************************)
(* What is typed at the editor's prompt (EditWorkspace and the commands of   *)
(* edit.c), as characters: a line number and a text for the buffer, a line   *)
(* number alone, or the name of a command and the name of a program.  The    *)
(* buffer is LineList's; the walk of each command through its lines is       *)
(* EditBuffer's, so LIST and SAVE are one step here.  Answers such as OK and *)
(* Unknown command are left out.                                             *)
(***************************************************************************)
EXTENDS Characters, LineList, TLC

CONSTANTS
  Typed,            \* the lines typed at the prompt
  MaxToken,         \* the size of NextToken's token
  MaxLine,          \* the size of lineBuf
  Disk              \* the files there are at first, by name

ASSUME ConsoleAssumption == MaxToken \in Nat /\ MaxToken > 1 /\ MaxLine \in Nat /\ MaxLine > 2
                            /\ \A s \in Typed : Len(s) < MaxLine - 1

VARIABLES
  programName, files,
  loading,          \* the lines LOAD has still to enter
  lineNumber,       \* and the number of the next one
  listing           \* what the last command printed, if it was LIST

consoleVars == <<list, programName, files, loading, lineNumber, listing>>

NL == "\n"
NothingListed == listing' = ""

ConsoleInit ==
  /\ Init
  /\ programName = "" /\ files = Disk /\ loading = <<>> /\ lineNumber = 0
  /\ listing = ""
-----------------------------------------------------------------------------
From(s, i) == SubSeq(s, i, Len(s))
IsBlank(s) == Range(Chars(s)) \subseteq Spaces

\* The word at the start of s, of which token holds the first characters, and
\* what follows it.
Split(s, k) == [token |-> SubSeq(s, 1, Min({k, MaxToken - 1})), rest |-> From(s, k + 1)]
WordOf(s) ==
  LET space == SelectInSeq(Chars(s), LAMBDA ch : ch \in Spaces)
  IN  Split(s, IF space = 0 THEN Len(s) ELSE space - 1)
NextToken(s) ==
  WordOf(From(s, IF IsBlank(s) THEN Len(s) + 1
                 ELSE SelectInSeq(Chars(s), LAMBDA ch : ch \notin Spaces)))

IsNumber(token) == Range(Chars(token)) \subseteq Digits
ParseNumber(token) == FoldLeft(LAMBDA n, ch : n * 10 + Code(ch) - Code("0"), 0, Chars(token))

\* One space separates a line number from its text.
AfterSpaceMutant(s) == From(s, SelectInSeq(Chars(s), LAMBDA ch : ch \notin Spaces))  \* every space
AfterSpace(s) == IF SubSeq(s, 1, 1) \in Spaces THEN From(s, 2) ELSE s
-----------------------------------------------------------------------------
Held(n) == \E i \in 1 .. Len(list) : FindLineN(n, i) /\ Found(n, i)
Full(n) == Len(list) = MaxLines /\ ~Held(n)

DeleteLine(n) ==
  \/ BufDeleteLineN(n)
  \/ ~Held(n) /\ UNCHANGED list
EnterLine(n, t) ==
  \/ BufAddLineN(n, t)
  \/ Full(n) /\ UNCHANGED list
NumberedLine(word) ==
  /\ word.token # "" /\ IsNumber(word.token)
  /\ IF IsBlank(word.rest) THEN DeleteLine(ParseNumber(word.token))
     ELSE EnterLine(ParseNumber(word.token), AfterSpace(word.rest))
  /\ NothingListed
  /\ UNCHANGED <<programName, files, loading, lineNumber>>

BlankLine(word) == word.token = "" /\ UNCHANGED consoleVars

Names(word, command) ==
  word.token # "" /\ ~IsNumber(word.token) /\ Folded(word.token) = command

\* The name a command gives stays that of the program, also when nothing can be
\* read or written under it.
WithExtension(name) == IF "." \in Range(Chars(name)) THEN name ELSE name \o ".bas"
SetProgramName(rest) ==
  LET name == NextToken(rest).token
  IN  programName' = IF name = "" THEN programName ELSE WithExtension(name)

DoNew(word) ==
  /\ Names(word, "NEW")
  /\ SetProgramName(word.rest) /\ BufNew
  /\ NothingListed
  /\ UNCHANGED <<files, loading, lineNumber>>

Listed(l) == ToString(l.number) \o " " \o l.text
TextOf(pieces) == FoldLeft(LAMBDA text, piece : text \o piece, "", pieces)
DoList(word) ==
  /\ Names(word, "LIST")
  /\ listing' = TextOf([i \in DOMAIN list |-> Listed(list[i])])
  /\ UNCHANGED <<list, programName, files, loading, lineNumber>>

Renum(word) ==
  /\ Names(word, "RENUM")
  /\ DoRenum /\ NothingListed
  /\ UNCHANGED <<programName, files, loading, lineNumber>>

\* Every name can be written to here; EditBuffer has one that cannot.
DoSave(word) ==
  /\ Names(word, "SAVE")
  /\ SetProgramName(word.rest)
  /\ files' = IF programName' = "" THEN files
              ELSE (programName' :> TextOf([i \in DOMAIN list |-> list[i].text])) @@ files
  /\ NothingListed
  /\ UNCHANGED <<list, loading, lineNumber>>

\* What fgets makes of a text, call after call.
Fgets(text, size) ==
  LET ends(line) == Len(line) = size - 1 \/ From(line, Len(line)) = NL
  IN  FoldLeft(LAMBDA lines, ch :
                 IF lines = <<>> \/ ends(Last(lines)) THEN Append(lines, ch)
                 ELSE Append(Front(lines), Last(lines) \o ch),
               <<>>, Chars(text))
DoLoad(word) ==
  /\ Names(word, "LOAD")
  /\ SetProgramName(word.rest)
  /\ IF programName' \in DOMAIN files
     THEN BufNew /\ loading' = Fgets(files[programName'], MaxLine) /\ lineNumber' = 100
     ELSE UNCHANGED <<list, loading, lineNumber>>
  /\ NothingListed
  /\ UNCHANGED files

\* RUN and CAT leave the lines as they are.
OtherCommand(word) ==
  /\ Names(word, "RUN") \/ Names(word, "CAT")
  /\ NothingListed
  /\ UNCHANGED <<list, programName, files, loading, lineNumber>>

Commands == {"NEW", "LIST", "RUN", "RENUM", "LOAD", "SAVE", "CAT"}
UnknownCommand(word) ==
  /\ word.token # "" /\ ~IsNumber(word.token) /\ Folded(word.token) \notin Commands
  /\ NothingListed
  /\ UNCHANGED <<list, programName, files, loading, lineNumber>>

TypeLine(s) ==
  /\ loading = <<>>
  /\ LET word == NextToken(s)
     IN  \/ NumberedLine(word) \/ BlankLine(word) \/ UnknownCommand(word) \/ OtherCommand(word)
         \/ DoNew(word) \/ DoList(word) \/ Renum(word) \/ DoSave(word) \/ DoLoad(word)

\* LOAD enters a line; it does not look at the answer.
LoadLine ==
  /\ loading # <<>>
  /\ BufAddLineN(lineNumber, Head(loading)) \/ (Full(lineNumber) /\ UNCHANGED list)
  /\ loading' = Tail(loading) /\ lineNumber' = lineNumber + 10
  /\ UNCHANGED <<programName, files, listing>>

ConsoleNext == LoadLine \/ \E s \in Typed : TypeLine(s)

ConsoleSpec == ConsoleInit /\ [][ConsoleNext]_consoleVars
-----------------------------------------------------------------------------
\* What a typed line does to a program, whatever it was before.
Retype(lines, s) ==
  LET word   == NextToken(s)
      n      == ParseNumber(word.token)
      others == {l \in lines : l.number # n}
  IN  IF IsBlank(word.rest) THEN others
      ELSE others \cup {[number |-> n, text |-> AfterSpace(word.rest)]}

\* A listing typed in again, after NEW, is the program that was listed, its
\* indentation included; except for the empty lines and the missing last newline
\* that only LOAD brings in, and for lines too long to be typed with their number.
Typeable(l) ==
  /\ ~IsBlank(l.text) /\ From(l.text, Len(l.text)) = NL
  /\ Len(Listed(l)) < MaxLine - 1
ListingIsProgram ==
  listing # "" /\ (\A l \in LinesOf(list) : Typeable(l)) =>
    FoldLeft(Retype, {}, Fgets(listing, MaxLine - 1)) = LinesOf(list)
=============================================================================
