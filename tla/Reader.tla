-------------------------------- MODULE Reader --------------------------------
(***************************************************************************)
(* The source of a program as the compiler reads it (compile.c, system.c):  *)
(* the lines of the edit buffer, and in place of an INCLUDE the lines of    *)
(* the file it names.  ParseGetLine takes the next line from the file on    *)
(* top of a stack; PushFile opens a file unless this RUN has included it    *)
(* already.  What a line says is FrontEnd's; here a line may be anything:   *)
(* a statement, an INCLUDE of any name, an error.  An error leaves by       *)
(* longjmp and closes nothing.  The heap is what is left of it: the number  *)
(* of PushFile's two records that still fit.                                *)
(***************************************************************************)
EXTENDS Integers, Sequences

CONSTANTS
  Programs,         \* what the edit buffer may hold when RUN is typed
  NewProgram,       \* the one it holds at first
  Edits(_),         \* what a program may be edited into before the next RUN
  Names,            \* names of files
  Readable,         \* those VM_open can open
  MainLines(_),     \* the number of lines of a program
  FileLines,        \* and of a file
  Space,            \* numbers of records the heap may have room for at an INCLUDE
  MaxRuns           \* bounds the RUNs of a session

ASSUME ReaderAssumption ==
  /\ NewProgram \in Programs
  /\ \A p \in Programs : Edits(p) \subseteq Programs /\ MainLines(p) \in Nat
  /\ Readable \subseteq Names
  /\ FileLines \in [Names -> Nat]
  /\ Space \subseteq 0 .. 2
  /\ MaxRuns \in Nat

VARIABLES
  phase,            \* at the prompt ("idle", "done", "failed"), before or at a line
  program,          \* the program being compiled
  mainLine,         \* its lines read so far
  currentFile,      \* the stack of files being read, the innermost one last
  includedFiles,    \* the names this RUN has included
  open,             \* the files the process has open
  opened,           \* counts the files it has opened
  before,           \* the files that were open when RUN was typed
  runs
readerVars == <<phase, program, mainLine, currentFile, includedFiles, open, opened, before, runs>>

AtPrompt == phase \in {"idle", "done", "failed"}
Top == currentFile[Len(currentFile)]
ParseFile == [name : Names, fp : Nat, lineNumber : Nat]

ReaderTypeOK ==
  /\ phase \in {"idle", "reading", "line", "done", "failed"}
  /\ program \in Programs
  /\ mainLine \in 0 .. MainLines(program)
  /\ currentFile \in Seq(ParseFile)
  /\ \A i \in 1 .. Len(currentFile) : currentFile[i].lineNumber <= FileLines[currentFile[i].name]
  /\ includedFiles \subseteq Names
  /\ open \subseteq 1 .. opened
  /\ opened \in Nat
  /\ before \subseteq open
  /\ runs \in 0 .. MaxRuns

ReaderInit ==
  /\ phase = "idle"
  /\ program = NewProgram
  /\ mainLine = 0
  /\ currentFile = <<>>
  /\ includedFiles = {}
  /\ open = {}
  /\ opened = 0
  /\ before = {}
  /\ runs = 0

\* RUN: InitParseContext clears the context, whatever the last RUN left in it.
Run(p) ==
  /\ AtPrompt
  /\ runs < MaxRuns
  /\ phase' = "reading"
  /\ program' = p
  /\ mainLine' = 0
  /\ currentFile' = <<>>
  /\ includedFiles' = {}
  /\ before' = open
  /\ runs' = runs + 1
  /\ UNCHANGED <<open, opened>>

\* ParseGetLine, one turn of its loop at a time: a line of the program, the end
\* of the program, a line of the innermost file, the end of that file.
GetLineMutant ==                        \* the end of the program is not looked for
  /\ phase = "reading"
  /\ currentFile = <<>>
  /\ mainLine' = mainLine + 1
  /\ phase' = "line"
  /\ UNCHANGED <<program, currentFile, includedFiles, open, opened, before, runs>>

GetLine ==
  /\ phase = "reading"
  /\ currentFile = <<>>
  /\ mainLine < MainLines(program)
  /\ mainLine' = mainLine + 1
  /\ phase' = "line"
  /\ UNCHANGED <<program, currentFile, includedFiles, open, opened, before, runs>>

EndOfSource(outcome) ==
  /\ phase = "reading"
  /\ currentFile = <<>>
  /\ mainLine = MainLines(program)
  /\ phase' = outcome
  /\ UNCHANGED <<program, mainLine, currentFile, includedFiles, open, opened, before, runs>>

AfterLine(f) == [f EXCEPT !.lineNumber = @ + 1]
GetFileLine ==
  /\ phase = "reading"
  /\ currentFile # <<>>
  /\ Top.lineNumber < FileLines[Top.name]
  /\ currentFile' = [currentFile EXCEPT ![Len(currentFile)] = AfterLine(Top)]
  /\ phase' = "line"
  /\ UNCHANGED <<program, mainLine, includedFiles, open, opened, before, runs>>

PopFileMutant ==                        \* the file stays on the stack
  /\ phase = "reading"
  /\ currentFile # <<>>
  /\ Top.lineNumber = FileLines[Top.name]
  /\ open' = open \ {Top.fp}
  /\ UNCHANGED <<phase, program, mainLine, currentFile, includedFiles, opened, before, runs>>

PopFile ==
  /\ phase = "reading"
  /\ currentFile # <<>>
  /\ Top.lineNumber = FileLines[Top.name]
  /\ currentFile' = SubSeq(currentFile, 1, Len(currentFile) - 1)
  /\ open' = open \ {Top.fp}
  /\ UNCHANGED <<phase, program, mainLine, includedFiles, opened, before, runs>>

\* What becomes of the line: a statement is added to the program, or an error
\* ends the RUN with the files as they are.
Statement ==
  /\ phase = "line"
  /\ phase' = "reading"
  /\ UNCHANGED <<program, mainLine, currentFile, includedFiles, open, opened, before, runs>>

Error ==
  /\ phase = "line"
  /\ phase' = "failed"
  /\ UNCHANGED <<program, mainLine, currentFile, includedFiles, open, opened, before, runs>>

\* The file is opened, and pushed if its ParseFile fits.
OpenFile(name, space) ==
  /\ opened' = opened + 1
  /\ open' = open \cup {opened + 1}
  /\ IF space = 2
     THEN /\ currentFile' = Append(currentFile, [name |-> name, fp |-> opened + 1, lineNumber |-> 0])
          /\ phase' = "reading"
     ELSE /\ phase' = "failed"
          /\ UNCHANGED currentFile

PushFileMutant(name, space) ==          \* the name is listed when the file ends up pushed
  /\ phase = "line"
  /\ \/ /\ name \in includedFiles \/ name \notin Readable
        /\ phase' = IF name \in Readable THEN "reading" ELSE "failed"
        /\ UNCHANGED <<currentFile, includedFiles, open, opened>>
     \/ /\ name \in Readable \ includedFiles
        /\ OpenFile(name, space)
        /\ UNCHANGED includedFiles
  /\ UNCHANGED <<program, mainLine, before, runs>>

PushFile(name, space) ==
  /\ phase = "line"
  /\ \/ /\ name \in includedFiles
        /\ phase' = "reading"
        /\ UNCHANGED <<currentFile, includedFiles, open, opened>>
     \/ /\ name \notin includedFiles
        /\ space = 0
        /\ phase' = "failed"
        /\ UNCHANGED <<currentFile, includedFiles, open, opened>>
     \/ /\ name \notin includedFiles \cup Readable
        /\ space > 0
        /\ includedFiles' = includedFiles \cup {name}
        /\ phase' = "failed"
        /\ UNCHANGED <<currentFile, open, opened>>
     \/ /\ name \in Readable \ includedFiles
        /\ space > 0
        /\ includedFiles' = includedFiles \cup {name}
        /\ OpenFile(name, space)
  /\ UNCHANGED <<program, mainLine, before, runs>>

\* What the compiler does by itself between a RUN and the prompt.
Reading ==
  \/ GetLine
  \/ \E outcome \in {"done", "failed"} : EndOfSource(outcome)
  \/ GetFileLine
  \/ PopFile
  \/ Statement
  \/ Error
  \/ \E name \in Names, space \in Space : PushFile(name, space)

ReaderNext == (\E p \in Edits(program) : Run(p)) \/ Reading

ReaderSpec == ReaderInit /\ [][ReaderNext]_readerVars

\* The compiler is one process that waits for nothing but the prompt.
ReaderFairSpec == ReaderSpec /\ WF_readerVars(Reading)
-----------------------------------------------------------------------------
\* No file is read inside itself, however the files include each other: the
\* stack holds no name twice, and none that a later INCLUDE would open again.
IncludedOnce ==
  /\ \A i, j \in 1 .. Len(currentFile) : currentFile[i].name = currentFile[j].name => i = j
  /\ ~AtPrompt => \A i \in 1 .. Len(currentFile) : currentFile[i].name \in includedFiles

\* While a program is read, the files open are those on the stack, each under a
\* handle of its own, and those an earlier RUN leaked; a RUN that gets to the end
\* of its program leaks none.
Handles == {currentFile[i].fp : i \in 1 .. Len(currentFile)}
HandlesAccounted ==
  /\ \A i, j \in 1 .. Len(currentFile) : currentFile[i].fp = currentFile[j].fp => i = j
  /\ ~AtPrompt => open = before \cup Handles /\ before \cap Handles = {}
  /\ phase = "done" => open = before

\* RUN comes back to the prompt: files that include each other do not keep the
\* compiler reading for ever.
RunEnds == ~AtPrompt ~> AtPrompt
=============================================================================
