------------------------------- MODULE FrontEnd -------------------------------
(***************************************************************************)
(* Compile's parse loop (compile.c): the lines Reader brings, scanned and   *)
(* parsed by Grammar, give the statements of the program one after the      *)
(* other.  Between two lines the scanner remembers whether it is inside a   *)
(* comment, and the grammar a statement that goes on: both carry over from  *)
(* a file to the one that includes it.  A statement read here may still be  *)
(* refused, for what Parser makes of it or for want of memory.              *)
(***************************************************************************)
EXTENDS Reader, Grammar

CONSTANTS
  ProgramText(_),       \* the lines of the programs, as texts
  FileText              \* and of the files

VARIABLES
  scan,                 \* the state of the scanner and of the statement being read
  source                \* the statements read by this RUN
vars == <<readerVars, scan, source>>

Pending(s) == s.stmt.k \in {"dim...", "asm..."}

\* The line brought last.  It ends in a newline: its own, or the one ParseGetLine
\* adds to it.
Text ==
  IF currentFile = <<>> THEN ProgramText(program)[mainLine] ELSE FileText[Top.name][Top.lineNumber]
LineBuf == Chars(Text) \o <<"\n">>

Init == ReaderInit /\ scan = InitScan /\ source = <<>>

\* Compile starts with InitScan, in a context that InitParseContext has cleared.
StartMutant(p) == Run(p) /\ scan' = [scan EXCEPT !.err = FALSE, !.stmt = NoStatement] /\ source' = <<>>
Start(p) == Run(p) /\ scan' = InitScan /\ source' = <<>>

ReadLine == (GetLine \/ GetFileLine \/ PopFile) /\ UNCHANGED <<scan, source>>

\* ParseStatement on the statement the line holds or ends; a line that leaves it
\* open, and one with no statement, gives none.
Taken(s) == source' = IF Pending(s) \/ s.stmt = NoStatement THEN source ELSE Append(source, s.stmt)
Accept(s) ==
  \/ s.err /\ Error /\ UNCHANGED source
  \/ ~s.err /\ s.stmt.k = "include" /\ (\E space \in Space : PushFile(s.stmt.name, space)) /\ UNCHANGED source
  \/ ~s.err /\ s.stmt.k # "include" /\ Statement /\ Taken(s)
  \/ ~s.err /\ s.stmt.k # "include" /\ Error /\ UNCHANGED source
HandleLine == \E s \in {ParseLine(LineBuf, scan)} : Accept(s) /\ scan' = s

\* The source may end inside a comment, but not inside a statement.
Finish ==
  \/ ~Pending(scan) /\ EndOfSource("done") /\ UNCHANGED <<scan, source>>
  \/ Pending(scan) /\ EndOfSource("failed") /\ scan' = [scan EXCEPT !.err = TRUE] /\ UNCHANGED source

\* The prompt waits for a command.
Wait == AtPrompt /\ UNCHANGED vars

Next ==
  \/ \E p \in Edits(program) : Start(p)
  \/ ReadLine
  \/ phase = "line" /\ HandleLine
  \/ Finish
  \/ Wait

Spec == Init /\ [][Next]_vars
=============================================================================
