------------------------------ MODULE EditBuffer ------------------------------
(***************************************************************************)
(* The line editor (edit.c) as it keeps its lines: records laid end to end   *)
(* below bufferTop, the buffer growing downwards into the memory the         *)
(* compiler uses.  An edit is one step.  LIST, SAVE, LOAD and RUN go line by *)
(* line, and a step is one line of theirs.                                   *)
(* Addresses are cells: a line has a cell for its number, one for its length *)
(* and one for each character, with a null after the last.  Characters are   *)
(* numbers, as the cells are.  The cells below the buffer are the compiler's *)
(* and hold nothing an edit may rely on.                                     *)
(***************************************************************************)
EXTENDS Integers, Sequences, SequencesExt, FiniteSets

CONSTANTS
  Top,              \* bufferTop; the cells from 0, freeSpace, to Top are free
  LineSize,         \* sizeof(Line): number, length and a null
  Align,            \* ALIGN_MASK + 1
  MaxLine,          \* the size of lineBuf
  ContextSize,      \* cells InitCompileContext takes
  CodeSizes,        \* cells of low memory that compiling a line may take
  Chars,            \* the characters of a line other than its newline
  Typed,            \* the texts entered at the console
  Numbers,          \* the line numbers entered at the console
  Disk,             \* the files there are at first, by name
  Names,            \* the names of programs
  Unwritable        \* names that cannot be opened for writing

NL == 10
NUL == 0

\* A line of text as fgets returns one: no newline but its last character.
TextsUpTo(k) ==
  {t \in UNION {[1 .. i -> Chars \cup {NL}] : i \in 1 .. k} :
     \A i \in 1 .. Len(t) - 1 : t[i] # NL}

ASSUME EditAssumption ==
  /\ Top \in Nat /\ ContextSize \in Nat /\ 0 \in CodeSizes /\ CodeSizes \subseteq Nat
  /\ LineSize \in Nat /\ LineSize >= 3
  /\ Align \in Nat \ {0} /\ MaxLine \in Nat /\ MaxLine > 2
  /\ NUL \notin Chars /\ NL \notin Chars
  /\ Typed \subseteq TextsUpTo(MaxLine - 2)
  /\ Numbers \subseteq Nat
  /\ DOMAIN Disk \subseteq Names /\ Unwritable \subseteq Names
  /\ \A f \in DOMAIN Disk : Disk[f] \in Seq(Chars \cup {NL})

VARIABLES
  mem,              \* the cells from buffer to bufferTop
  buffer,           \* where the first line is
  currentLine,      \* where BufGetLine reads next
  nextLow,          \* where the compiler's low memory ended
  mode,             \* "command", the command that is going on, or "lost"
  passed,           \* the lines LIST, SAVE or RUN has been given
  loading,          \* what LOAD has still to read of its file
  lineNumber,       \* and the number of the next line
  programName,
  files,            \* the characters of each file
  reply             \* what the last edit answered

edit == <<mem, buffer>>
io   == <<passed, loading, lineNumber>>
vars == <<mem, buffer, currentLine, nextLow, mode, passed, loading, lineNumber,
          programName, files, reply>>

Init ==
  /\ mem = [a \in Top .. Top - 1 |-> 0]
  /\ buffer = Top /\ currentLine = Top /\ nextLow = 0
  /\ mode = "command"
  /\ passed = <<>> /\ loading = <<>> /\ lineNumber = 0
  /\ programName = "" /\ files = Disk
  /\ reply = "OK"
-----------------------------------------------------------------------------
Number(p) == mem[p]
Length(p) == mem[p + 1]

\* strcpy from a line: its characters up to the null.
Text(p) ==
  LET end == CHOOSE e \in p + 2 .. Top - 1 :
               mem[e] = NUL /\ \A a \in p + 2 .. e - 1 : mem[a] # NUL
  IN  [i \in 1 .. end - (p + 2) |-> mem[p + 1 + i]]

Line == [p \in Nat |-> [number |-> Number(p), text |-> Text(p)]]

\* What a step makes of something, done over and over.
Repeated(step, from) ==
  LET at[i \in Nat] == IF i = 0 THEN from ELSE step[at[i - 1]] IN at

\* A walk goes from line to line by their lengths, from b until it has reached
\* bufferTop, which takes MaxLines at most.
MaxLines == Top \div LineSize
After(m) == [p \in Nat |-> IF p < Top THEN p + m[p + 1] ELSE p]
Walk(m, b) == Repeated(After(m), b)
LineAt == Walk(mem, buffer)

Starts == {LineAt[i] : i \in 0 .. MaxLines}
LineCount == Cardinality({i \in 0 .. MaxLines : LineAt[i] < Top})
Program == [i \in 1 .. LineCount |-> Line[LineAt[i - 1]]]

\* The first place with a number that is not below n, or bufferTop.
StopsAt(n) == [p \in Nat |-> p >= Top \/ n <= Number(p)]
FindLineN(n) == LineAt[Min({i \in 0 .. MaxLines : StopsAt(n)[LineAt[i]]})]
Found(n) == FindLineN(n) < Top /\ Number(FindLineN(n)) = n

\* The buffer, starting at b, once count cells have been moved.
Memmove(b, to, from, count) ==
  [a \in b .. Top - 1 |-> IF a \in to .. to + count - 1 THEN mem[a - to + from]
                          ELSE IF a \in DOMAIN mem THEN mem[a] ELSE 0]
Store(m, p, cells) ==
  [a \in DOMAIN m |-> IF a \in p .. p + Len(cells) - 1 THEN cells[a - p + 1] ELSE m[a]]

RoundUp(size) == ((size + Align - 1) \div Align) * Align

NewLength(t) == RoundUp(LineSize + Len(t))
SpaceNeeded(n, t) == NewLength(t) - IF Found(n) THEN Length(FindLineN(n)) ELSE 0
Fits(n, t) == buffer - SpaceNeeded(n, t) >= nextLow

\* The lines below the place of the new one move down, or up if it is shorter
\* than the one it replaces.
BufAddLineNMutant(n, t) ==              \* moves them by the whole length of the new line
  LET line  == FindLineN(n)
      moved == Memmove(buffer - NewLength(t), buffer - NewLength(t), buffer, line - buffer)
  IN  /\ buffer - NewLength(t) >= nextLow
      /\ buffer' = buffer - NewLength(t)
      /\ mem' = Store(moved, line - NewLength(t), <<n, NewLength(t)>> \o t \o <<NUL>>)
BufAddLineN(n, t) ==
  LET line  == FindLineN(n)
      space == SpaceNeeded(n, t)
      moved == Memmove(buffer - space, buffer - space, buffer, line - buffer)
  IN  /\ Fits(n, t)
      /\ buffer' = buffer - space
      /\ mem' = Store(moved, line - space, <<n, NewLength(t)>> \o t \o <<NUL>>)

BufDeleteLineNMutant(n) ==              \* only the buffer's start moves
  /\ buffer' = buffer + Length(FindLineN(n))
  /\ mem' = Memmove(buffer', buffer', buffer', 0)
BufDeleteLineN(n) ==
  LET freed == Length(FindLineN(n))
  IN  /\ mem' = Memmove(buffer + freed, buffer + freed, buffer, FindLineN(n) - buffer)
      /\ buffer' = buffer + freed

BufNew == buffer' = Top /\ currentLine' = Top /\ mem' = [a \in Top .. Top - 1 |-> 0]

\* BufSeekN(buf, 0)
BufSeekMutant == UNCHANGED currentLine  \* goes on from where the last command stopped
BufSeek == currentLine' = buffer

\* How many characters fgets takes from s into lineBuf: up to a newline, to the
\* end of s, or as many as there is room for.
Chunk(s) == Min({k \in 1 .. Len(s) : s[k] = NL \/ k = Len(s) \/ k = MaxLine - 1})
Fgets(s) == SubSeq(s, 1, Chunk(s))
AfterFgets(s) == SubSeq(s, Chunk(s) + 1, Len(s))
-----------------------------------------------------------------------------
Command == mode = "command"

EnterLine(n, t) ==
  /\ Command
  /\ \/ BufAddLineN(n, t) /\ reply' = "OK"
     \/ ~Fits(n, t) /\ reply' = "out of edit buffer space" /\ UNCHANGED edit
  /\ UNCHANGED <<currentLine, nextLow, mode, io, programName, files>>

\* A number with nothing after it.
DeleteLine(n) ==
  /\ Command
  /\ \/ Found(n) /\ BufDeleteLineN(n) /\ reply' = "OK"
     \/ ~Found(n) /\ reply' = "no line" /\ UNCHANGED edit
  /\ UNCHANGED <<currentLine, nextLow, mode, io, programName, files>>

\* The name a command gives, if it gives one.
SetProgramName == programName' \in Names \cup {programName}

DoNew ==
  /\ Command
  /\ SetProgramName
  /\ BufNew
  /\ reply' = "OK"
  /\ UNCHANGED <<nextLow, mode, io, files>>

Renumbered ==
  [a \in DOMAIN mem |-> IF a \in Starts THEN 100 + 10 * CHOOSE i \in 0 .. MaxLines : LineAt[i] = a
                        ELSE mem[a]]
DoRenum ==
  /\ Command
  /\ mem' = Renumbered
  /\ reply' = "OK"
  /\ UNCHANGED <<buffer, currentLine, nextLow, mode, io, programName, files>>

DoList ==
  /\ Command
  /\ BufSeek
  /\ mode' = "list" /\ reply' = "OK"
  /\ UNCHANGED <<edit, nextLow, io, programName, files>>

\* A file that is opened for writing is emptied.
DoSave ==
  /\ Command
  /\ SetProgramName
  /\ IF programName' = "" \/ programName' \in Unwritable
     THEN UNCHANGED <<currentLine, mode, files>>
     ELSE /\ BufSeek
          /\ mode' = "save"
          /\ files' = [f \in DOMAIN files \cup {programName'} |->
                         IF f = programName' THEN <<>> ELSE files[f]]
  /\ reply' = "OK"
  /\ UNCHANGED <<edit, nextLow, io>>

DoLoad ==
  /\ Command
  /\ SetProgramName
  /\ IF programName' \notin DOMAIN files
     THEN UNCHANGED <<edit, currentLine, mode, loading, lineNumber>>
     ELSE /\ BufNew
          /\ mode' = "load"
          /\ loading' = files[programName']
          /\ lineNumber' = 100
  /\ reply' = "OK"
  /\ UNCHANGED <<nextLow, passed, files>>

\* The compiler's memory is taken before Compile sets an error target: when
\* there is not enough, Abort jumps to one that no call of Compile stands behind.
DoRun ==
  /\ Command
  /\ nextLow' = 0
  /\ IF buffer < ContextSize THEN mode' = "lost" /\ UNCHANGED currentLine
     ELSE mode' = "run" /\ BufSeek
  /\ reply' = "OK"
  /\ UNCHANGED <<edit, io, programName, files>>
-----------------------------------------------------------------------------
Compiling ==
  \E size \in CodeSizes : nextLow' = nextLow + size /\ nextLow' <= buffer - ContextSize

\* BufGetLine, and what the command does with the line.
BufGetLineMutant ==                     \* a line saved replaces the lines before it
  /\ mode \in {"list", "save", "run"} /\ currentLine < Top
  /\ passed' = Append(passed, Line[currentLine])
  /\ currentLine' = currentLine + Length(currentLine)
  /\ IF mode = "save"
     THEN files' = [files EXCEPT ![programName] = Text(currentLine)]
     ELSE UNCHANGED files
  /\ IF mode = "run" THEN Compiling ELSE UNCHANGED nextLow
  /\ UNCHANGED <<edit, mode, loading, lineNumber, programName, reply>>
BufGetLine ==
  /\ mode \in {"list", "save", "run"} /\ currentLine < Top
  /\ passed' = Append(passed, Line[currentLine])
  /\ currentLine' = currentLine + Length(currentLine)
  /\ IF mode = "save"
     THEN files' = [files EXCEPT ![programName] = @ \o Text(currentLine)]
     ELSE UNCHANGED files
  /\ IF mode = "run" THEN Compiling ELSE UNCHANGED nextLow
  /\ UNCHANGED <<edit, mode, loading, lineNumber, programName, reply>>

\* The last line has been read; RUN goes on to generate and execute the program.
EndOfBufferMutant ==                    \* bufferTop is taken for a line
  /\ mode \in {"list", "save", "run"} /\ currentLine > Top
  /\ mode' = "command" /\ passed' = <<>>
  /\ IF mode = "run" THEN Compiling ELSE UNCHANGED nextLow
  /\ UNCHANGED <<edit, currentLine, loading, lineNumber, programName, files, reply>>
EndOfBuffer ==
  /\ mode \in {"list", "save", "run"} /\ currentLine >= Top
  /\ mode' = "command" /\ passed' = <<>>
  /\ IF mode = "run" THEN Compiling ELSE UNCHANGED nextLow
  /\ UNCHANGED <<edit, currentLine, loading, lineNumber, programName, files, reply>>

\* An error ends the compilation wherever it is.
CompileError ==
  /\ mode = "run"
  /\ mode' = "command" /\ passed' = <<>>
  /\ Compiling
  /\ UNCHANGED <<edit, currentLine, loading, lineNumber, programName, files, reply>>

\* LOAD enters the next line of the file, whose refusal it does not notice.
LoadLineMutant ==                       \* a refused line takes no number
  /\ mode = "load" /\ loading # <<>>
  /\ \/ BufAddLineN(lineNumber, Fgets(loading)) /\ lineNumber' = lineNumber + 10
     \/ ~Fits(lineNumber, Fgets(loading)) /\ UNCHANGED <<edit, lineNumber>>
  /\ loading' = AfterFgets(loading)
  /\ UNCHANGED <<currentLine, nextLow, mode, passed, programName, files, reply>>
LoadLine ==
  /\ mode = "load" /\ loading # <<>>
  /\ \/ BufAddLineN(lineNumber, Fgets(loading))
     \/ ~Fits(lineNumber, Fgets(loading)) /\ UNCHANGED edit
  /\ loading' = AfterFgets(loading)
  /\ lineNumber' = lineNumber + 10
  /\ UNCHANGED <<currentLine, nextLow, mode, passed, programName, files, reply>>

EndOfFile ==
  /\ mode = "load" /\ loading = <<>>
  /\ mode' = "command" /\ lineNumber' = 0
  /\ UNCHANGED <<edit, currentLine, nextLow, passed, loading, programName, files, reply>>

Progress == BufGetLine \/ EndOfBuffer \/ LoadLine \/ EndOfFile

Next ==
  \/ \E n \in Numbers, t \in Typed : EnterLine(n, t)
  \/ \E n \in Numbers : DeleteLine(n)
  \/ DoNew \/ DoRenum \/ DoList \/ DoSave \/ DoLoad \/ DoRun
  \/ BufGetLine \/ EndOfBuffer \/ CompileError \/ LoadLine \/ EndOfFile

\* A command, once begun, runs to its end without waiting for the console.
Spec == Init /\ [][Next]_vars /\ WF_vars(Progress)
-----------------------------------------------------------------------------
TextsOf(lines) == [i \in DOMAIN lines |-> lines[i].text]

\* The lines fill the space from buffer to bufferTop exactly, each as long as
\* its text needs and no longer, and never reach down into what the compiler
\* has left below nextLow.
BufferSound ==
  /\ nextLow <= buffer
  /\ Top \in Starts
  /\ \A p \in Starts \ {Top} : Length(p) = NewLength(Text(p))

\* LIST and SAVE are given every line of the program, in order; a RUN is given
\* a prefix of it.
EveryLineOnce ==
  [][/\ mode \in {"list", "save"} /\ mode' = "command" => passed = Program
     /\ mode = "run" => IsPrefix(passed, Program)]_vars

\* What is left of s after so many calls of fgets, and the lines they give.
Fgotten == [s \in Seq(Chars \cup {NL}) |-> IF s = <<>> THEN s ELSE AfterFgets(s)]
Rest(s) == Repeated(Fgotten, s)
FileLines(s) ==
  [i \in 1 .. Cardinality({j \in 0 .. Len(s) : Rest(s)[j] # <<>>}) |-> Fgets(Rest(s)[i - 1])]

\* The cells that the first of these lines take.
CellsOf(lines) ==
  LET cells[i \in 0 .. Len(lines)] == IF i = 0 THEN 0 ELSE cells[i - 1] + NewLength(lines[i])
  IN  cells

\* What SAVE leaves in the file is the program's text, and when every line ends
\* with its newline a LOAD of the file finds these lines again.
SavedFile ==
  [][mode = "save" /\ mode' = "command" =>
       /\ files'[programName] = FlattenSeq(TextsOf(Program))
       /\ (\A t \in Range(TextsOf(Program)) : Last(t) = NL) =>
            FileLines(files'[programName]) = TextsOf(Program)]_vars

\* After a LOAD each line stands under the number of its place in the file, and
\* none is missing unless the file as a whole does not fit.
LoadedFile ==
  [][mode = "load" /\ mode' = "command" =>
       LET lines == FileLines(files[programName])
       IN  /\ \A l \in Range(Program) :
                 l.number % 10 = 0 /\ l.text = lines[(l.number - 90) \div 10]
           /\ CellsOf(lines)[Len(lines)] <= Top - nextLow => Len(Program) = Len(lines)]_vars

\* A command that goes through the lines comes to the end of them.
CommandsEnd == mode \in {"list", "save", "load"} ~> mode = "command"

\* How many lines and characters a program or a file can have.
Lengths == 0 .. Top \cup UNION {0 .. Len(Disk[f]) : f \in DOMAIN Disk}

\* The bytes implement the ordered list of lines.
Ordered == INSTANCE LineList WITH
  list     <- Program,
  Numbers  <- Numbers \cup {100 + 10 * i : i \in Lengths},
  Texts    <- TextsUpTo(MaxLine - 1),
  MaxLines <- MaxLines
ImplementsLineList == Ordered!Spec

\* An edit is refused only when the memory below the program has no room for
\* another line.
RefusedOnlyWhenFull ==
  reply = "out of edit buffer space" => buffer < RoundUp(LineSize + MaxLine)

\* RUN comes back to the editor whatever room there is.
RunReturns == mode # "lost"
=============================================================================
