# A verification development of junkbasic

junkbasic is a line-numbered BASIC in one address space: a line editor keeps
the program at the top of memory, RUN compiles it to byte code from the bottom
up, and a small virtual machine executes the code. This directory holds TLA+
models of those parts, the TLC configurations that check them and the TLAPS
proofs about them.

## The system

| part | source | state | operations |
|------|--------|-------|------------|
| line editor | `edit.c` | the line records from `buffer` to `bufferTop`, `currentLine`, `programName` | enter, replace, delete a line; NEW, LIST, RUN, RENUM, LOAD, SAVE, CAT |
| heap | `system.c` | `nextLow`, `nextHigh`, `errorTarget`, the line source | allocate high and low, abort |
| driver | `compile.c` | the parse context, the stack of included files and their names | one RUN: read lines, parse, generate, place globals, execute |
| parser | `parse.c` | block stack, `currentFunction`, parse tree, string table | one handler per statement, expressions by precedence |
| symbols | `symbols.c` | global, argument and local tables | add, find |
| assembler | `assemble.c` | low memory | ASM ... END ASM |
| code generator | `generate.c` | low memory, forward-reference chains, `PVAL` | one function per node type, fixups |
| virtual machine | `vmint.c` | `pc`, `sp`, `fp`, `tos`, stack, image | one case per opcode, traps |
| image format | `image.h`, `vmdebug.c` | - | opcodes and operand formats |
| scanner | `scan.c` | `linePtr`, `inComment`, the saved token | characters to tokens |
| console | `osint_posix.c` | - | read, write, open |
| listings | `debug.c`, `vmdebug.c` | - | print trees and code |

The parts interact by calls and shared memory, not by threads. A console line
is an edit or a command; RUN resets the heap below the edit buffer, installs
the buffer as the source of lines (`SetMainSource`), and `Compile` reads it
line by line. An error anywhere leaves by `longjmp`. The compiler's high
allocations grow down from the edit buffer, code and data grow up to meet them,
and the machine runs in what is left.

What is hard here is not concurrency but *protocols between steps far apart*:
a forward reference is a chain threaded through code by many statements and
patched by another; a block is opened, changed (ELSE IF, LOOP WHILE) and closed
by different handlers; a call is pushed, framed, returned from and cleaned by
code from different functions; a symbol is unknown until a later use says what
it is; the editor moves records by the difference of two lengths; a comment and
a statement go on from one line to the next, and from an included file to the
one that includes it; and memory and files left by one RUN meet the next.
`PROJECT.json` lists these hazards, each at its line, with the properties that
watch it.

What makes each part correct:

- the compiler reads the statements that were written, in every layout, and
  ignores no word of a line it accepts;
- no file is read inside itself, and files are closed, or known to be leaked;
- the parser accepts exactly the programs whose blocks nest, within its stack;
- the generated code means what the source means, for control flow, calls,
  arithmetic, arrays and output, and leaves the stack as it found it;
- the machine never leaves its image, its stack or an instruction boundary;
- no reference is unpatched when the program starts;
- the editor keeps the lines that were entered, in order, each once, through
  every insertion, replacement, deletion, RENUM, SAVE and LOAD.

## The modules

    ProgramText <= LineList <= EditBuffer          the editor's lines, three levels
                      `-- Console -- Characters    what is typed

    Reader      <= FrontEnd                        from characters to statements
                     `-- Grammar -- Scanner -- Characters
    SourceText                                     the reference: how statements are written

    BlockStack  <= Toolchain                       from statements to execution
                     |-- Compiler -- Parser -- CodeGen -- Workspace -- Image
                     |    |             `----- Arith -----------------'  |
                     |    `-- References -- Workspace                    |
                     |-- Discipline -- Interpreter -- Arith -------------'
                     `-- BasicSemantics -- SourceNames      the reference
    Emission -- References                         any sequence of emissions, for proofs

`<=` reads "is implemented by" (FrontEnd EXTENDS Reader and takes its steps);
lines downwards are EXTENDS.

From characters to statements:

- **Characters**: characters as strings of length one, `ctype.h` and `strcasecmp`.
- **Scanner**: `scan.c`, an operator for each function, from scanner state to
  scanner state: words and their pairs (`END IF`, `DO WHILE`), numbers in three
  bases, strings with escapes, comments within a line and over several, and the
  characters put back. A line is scanned as a whole: which tokens it has does
  not depend on the parser.
- **Grammar**: `parse.c` and `assemble.c` as recognisers: an operator for each
  statement handler and each level of precedence reads tokens and leaves the
  statement as a record. Statements that ask for lines themselves (initializers
  in braces, ASM) are carried over as `dim...` and `asm...`.
- **Reader**: the loop of `ParseGetLine` with its stack of files, `PushFile`,
  the list of included names, the open files of the process, errors that leave
  by `longjmp`, and memory running out at an INCLUDE; over several RUNs. What a
  line says is left open, which is what its theorems are about.
- **FrontEnd**: Reader's steps with the text of each line, scanned and parsed;
  the statements read so far. A statement that parses may still be refused, for
  what Parser makes of it or for want of memory: `Error` is then a possible
  step.
- **SourceText**: the reference for FrontEnd, the other way round: how a
  statement is written, with which parentheses and in which layout, and which
  statements the lines of a program stand for.

From statements to execution:

- **BlockStack**: the stack of open blocks and `currentFunction`, an action for
  each way a statement opens or closes a block. It is small enough to prove
  about, and the parser's model is shown to implement it.
- **Image**, **Arith**: opcodes, operand lengths, byte order of operands
  (big-endian) and of data words (host order), and C's integer operators on a
  word of `W` bytes.
- **Workspace**: the record the code generator works on: the bytes of low memory,
  the global symbols, the functions generated, the `PVAL`; and the operations
  that change it, down to the bytes of a word: `putcword`, `wr_cword`, `fixup`,
  `fixupbranch`, `AddSymbolRef`, `PlaceSymbol` (`PutWord`, `WrWord`, `Fixup`, ...).
  Two fields are history: `refs` says of each word that was put as a reference
  what it refers to, a symbol or the end of a branch, and `landed` where those
  branches go. Neither is read by the code generated.
- **References**: the chains of references in the workspace of the parse context
  (`c.g` of Compiler), which of them are resolved and what their words should then
  be, and the properties about them.
- **Emission**: Workspace's operations as a state machine of its own, in any order
  that a code generator could call them. A statement handler or the generation of
  a function is a sequence of its steps. The properties of References are proved of
  every such sequence, and checked of the compiler's.
- **CodeGen**: the code generator as operators on that record, one for each
  function of `generate.c` (`code_rvalue` is `RValue`). After a dereference C does
  not define nothing more is generated.
- **Parser**: one operator per statement handler, from parse context to parse
  context; `Elab` builds expression nodes, resolving names and folding literals
  as `parse.c` does; string literals are looked up in the string table and
  stored, null at the end, where low memory stands; DIM and ASM put their bytes
  there too. Symbols' type fields are never stored, as in `AddGlobal`: a
  symbol's type is what the arena held (`stale`).
- **Compiler**: the parse loop as a state machine: one action per statement
  kind takes the next statement; `EndOfSource` generates the main function and
  places the implicit globals.
- **Interpreter**: one action per group of opcodes, one step per instruction;
  what is printed is a sequence of values, characters and tabs. Accesses outside
  the image or the stack, and operations C does not define, lead to the status
  "wild".
- **Discipline**: what the machine relies on and never checks. A *shape* says of
  a program which instruction is at which address, to which function it belongs
  and how many words that function has on the stack there. `WellFormed` is the
  discipline, as a verifier of byte code would check it: one depth for each
  instruction whichever way it is reached (`Reaches`), operands above the frame
  (`Takes`), offsets of the function's own locals and arguments, RETURN with the
  frame alone, CALL after the LIT of an entry point and above its arguments
  (`Callable`). Code whose shape is well formed is `trusted` until a store
  changes it (`Intact`). `shape`, `trusted` and `calls` are history variables;
  the steps are Interpreter's.
- **BasicSemantics**: what a program *means*, as a big-step evaluator over the
  source, written without reference to how it is compiled. It gives `error` to
  programs without a meaning (wild array bases, unclosed blocks, an array with
  fewer initializers than elements, names that are not `WellNamed`), and `fuel` to
  those that go on too long.
- **SourceNames**: the blocks of a program and its names, as its statements tell
  them: what each line calls, reads and assigns to, and what the program stands
  behind (`Provided`: functions defined to the end, variables declared or assigned
  to). `WellNamed` asks that everything a line uses is given by the end of the
  function it is in, when its code is generated, or, if it is called, anywhere.
- **Toolchain**: a RUN: compile, then execute, with the reference's answer
  beside it. `ShapeOf` reads the shape of the generated code off its bytes.

Grammar and Parser model the same functions of `parse.c` twice, for what they
read and for what they do; the records that Grammar leaves are those that
Parser takes. They are checked apart, because a text decides the one and the
meaning of names the other.

The editor:

- **ProgramText**: what the editor promises: a set of numbered lines.
- **LineList**: the lines as a sequence with the places `FindLineN` finds.
- **Console**: the loop of `EditWorkspace` on typed characters: words, line
  numbers, the space after them, command names in any case, program names, and
  the texts that LIST prints and SAVE writes. It takes LineList's steps.
- **EditBuffer**: the line records as cells, `memmove`, the space check against
  `nextLow`, the walks of LIST, SAVE, RUN and LOAD line by line, the files as
  characters and what `fgets` takes of them. A walk through the buffer and the
  reading of a file are recursive functions (`Walk`, `Rest`, both `Repeated`
  steps), so that the proofs can unfold them.

Proofs: `BlockStackProofs`, `ReaderProofs`, `LineListProofs`; `ArithProofs` (words, on
which the next two rest), `DisciplineProofs`, `EmissionProofs`; and for EditBuffer
`EditWalkProofs` (what a walk meets) and `EditBufferProofs` (the buffer, the refinement,
SAVE and LOAD).

Instances for TLC: `MCBlockStack`, `MCConsole`, `MCEditBuffer`, `MCReader`,
`MCFrontEnd`; `MCPrograms` puts the families of programs of `MCControl`,
`MCFunctions` and `MCData` together, a family being a sequence of sets of
alternatives for each line; `MCFindings` has the programs of the findings;
`MCSource` has constructors for statements.

## What the runs check

| run | checks |
|-----|--------|
| `programs` | statements through compiler and machine, against the reference semantics: up to 4 control statements in any order, alone and nested; FOR with a STEP; names nothing stands behind; definitions, calls before and after them, recursion, RETURN; every operator at the edges of a word; arrays and declarations, right and wrong; strings, every form of PRINT; ASM |
| `frontend` | texts through scanner, grammar and files, against SourceText |
| `reader` | INCLUDE over two RUNs, lines that say anything |
| `blockstack` | blocks up to 6 |
| `linelist` | typed lines and commands with three lines, against ProgramText |
| `editbuffer` | all edits and commands in 14 cells, against LineList |

`MatchesReference` is the main property of `programs`: at the end of every run
of every program, all global variables, all array elements and everything
printed are what the source says, and a program with a meaning neither aborts
nor runs wild. `RefusedIffIllNested` compares the parser's refusals with a
definition of well-formed programs over the source: nesting by counting openers
and closers, declarations and ASM operands by what may stand there.
`Terminates` is about loops and calls, `ImplementsNesting` about BlockStack.

Four properties are about references. `ReferencesSound` says of every step of the
compiler that each operand that refers to a symbol holds its address, or, while
the symbol is not placed, the place of the reference before it, and the symbol
that of the last one; `BranchesSound` that each branch whose end has been reached
holds the distance from the end of its operand, forward or back. `PatchedOnce` says
that nothing in memory is ever written over but the word of a reference in the
step that resolves it. `AllPlaced` says that no statement leaves a branch open, and
compares the symbols that have a place after the last line with the names of the
source: they are those in `Provided`, no more and no fewer. (A name that is first
mentioned in arithmetic would be one more, if the arena of an earlier RUN gave it the
integer type; in a fresh one, `StaleTypes = {Untyped}`, such a line is refused.) The
compiler places variables and the functions it has generated, and it refuses no other
name: a function that is called and never defined, or a variable that is only read,
keeps the chain of its references, and the program is run with them. The family
`MissingProgram` has such programs, called and uncalled, with one reference and with
several, and with the assignment or the definition in front, behind or left out.
Such programs have no meaning in the reference; in those that have one nothing is
left without a place but variables that only count loops (the finding `for`).

`ReferencesSound`, `BranchesSound` and `PatchedOnce` look at the bytes of memory, not at
what a fixup meant to write.

`TypeOK` says of the parser that each open block refers to a statement of its own
kind, `MachineTypeOK` of the machine that its registers, stack and memory hold words
and bytes: opcodes compute on mathematical integers here and have to come back into a
word, and `sp` is not checked by the instructions that pop.

The machine in between is watched in two parts. `CodeTrusted` says that the
compiler keeps its part of the bargain: the code of every program with a meaning
is well formed and never changed by its own stores. `PcOnBoundary`,
`FrameChainIntact`, `StaysInFrame`, `ReturnsToCaller` and `BalancedAtHalt` say
what the machine does with such code: it is always at an instruction, every
frame on the stack is that of a call in progress, no operand is a word of a
frame, a function goes back to where it was called from, and at OP_HALT the stack
is as it was. TLC checks these on the same programs; the theorems say that they
follow from trust alone.

`ReadsAsWritten`: programs are written by SourceText and read by FrontEnd. They
are every operator over every other, on either side, with the parentheses
needed and no others; every statement in 17 layouts, with comments, tabs, lower
case and numbers in other bases; three lines with comments that begin and end
anywhere; and up to three lines that include files which include each other and
leave off inside a comment or an array. The statements read are always a prefix
of those written, all of them if the program is accepted, and an error comes at
the first wrong line. A program is read twice, so what the first RUN left (an
open comment, an unfinished statement, an error) shows in the second.

`NothingIgnored`: statements with one word removed, inserted or replaced. If the
line is accepted, the statement it is taken for has all its words, but for LET,
parentheses, a plus sign, and what follows REM or END FUNCTION.

`IncludedOnce` says that no file is read inside itself; `HandlesAccounted` that
the open files are those on the stack and those that an error of an earlier RUN
leaked; `RunEnds` that every RUN comes back to the prompt.

For the editor, `BufferSound` says that the records fill the buffer exactly
and never reach below `nextLow`; `EveryLineOnce`, `SavedFile` and `LoadedFile`
that the line-by-line commands are complete and in order, also when LOAD
refuses a line, splits an over-long one, or the file is not terminated;
`ImplementsLineList` and `ImplementsProgramText` that the bytes are the ordered
list and the list is the set of numbered lines. `ListingIsProgram` types a
listing in again: it is the program that was listed, whatever spaces were typed
before and after the numbers.

The properties of `programs` hold for the programs the reference gives a
meaning. Six runs show where the code does something else than its documents
say; each is a finding in `PROJECT.json`, and each was also seen in a build of
the program:

- `locals`: the first local variable of a function overlays the saved frame
  pointer (`FramesReachBase`: the chain of frame pointers on the stack no longer
  leads to its base; by `WellFormed`, which leaves that word to FRAME, the code
  is not trusted);
- `end`: END generates no code;
- `dim`: the type of a DIMmed variable is never stored, so arithmetic on it is
  refused or not depending on old memory;
- `for`: a FOR variable mentioned nowhere else is never stored;
- `editspace`: after a RUN, edits that fit are refused;
- `editrun`: RUN with too little memory jumps to an unset error target.

The families of `programs` therefore initialise FOR variables by an assignment,
declare a local variable at most and never use it, have no END, and do
arithmetic on implicit globals that were assigned to before.

Where the models follow the code and the documents or comments differ, or say
nothing, without a run of its own: the documentation has `IF expr` alone, the code
requires THEN; an array without a size is refused when it has initializers in braces; an
array element, a comparison under AND or OR, and other operands without the
integer type are refused in arithmetic; a variable that is only read, by PRINT
or IF, or that a function reads and only later lines assign to, stays of unknown
class in that code: it reads as 0 or as the address of its previous reference; a
function that is called and never defined is accepted, and the call goes to 0 or to
that address; a DIM after another use of its name makes a second symbol; an array
with fewer initializers than elements has only the elements given, and what is stored
next lies in the rest (`DIM v[3] = {1}`); an IF with a statement on its line is parsed
and then always refused (parse.c:521); `TokenName` is one keyword off, because `ktab`
begins with INCLUDE, so messages name another keyword than the one expected.

## Bounds

- `W = 2`: words of 16 bits (the builds have 32 or 64). Nothing in the code
  depends on the width but the number of operand bytes and where arithmetic
  wraps; both occur at 2.
- `MaxBlocks = 3` (10 in the code) with programs of `Lines = 4` control
  statements, so that the stack does overflow; `blockstack` has 6, and the
  proofs hold for any.
- `StackSize = 30` words (1024 in the code): recursion overflows it.
- `Fuel = 14`: loop iterations and calls the reference follows; a program that
  needs more must end in a stack overflow or not at all.
- `MaxSymbols = 12`: as many globals as a program of the families has, or more.
- `SymbolSize = 2`, `StringSize = 2`: the bytes of a symbol and of a string's
  head in low memory, which lie between data and code; any size but 0 shows an
  address that forgets them.
- `Garbage = {77}`: the value of uninitialised words, different from every value
  the programs use; `Input = {65}`: the one character typed.
- `StaleTypes = {Untyped}`: a fresh process, whose arena is zero; the run `dim`
  adds the type an earlier RUN leaves.
- `MaxToken = 32` in `frontend`, as in the code: no word reaches it; 6 in
  `linelist`, where one does. `MaxRuns = 2`: what a RUN leaves can only disturb
  the next one through `scan` and `open`, which two RUNs show.
- `Space = 0 .. 2`: the records that fit of the two `PushFile` allocates.
- `reader` has two files of two lines and one and a name without a file: enough
  for inclusion of itself, of each other, and twice in a row.
- `MaxLines = 3` typed lines with `MaxLine = 14`: additions are refused and LOAD
  splits a line; the proofs hold for any number. `editbuffer` takes for
  `MaxLines` of the list as many records as there is room for, and for its texts
  those whose length a file or a typed line can give. `Top = 14` cells for the
  buffer, room for three short or two long lines, so that every edit is refused
  in some state; lines of 1 to 3 characters with `MaxLine = 4`, so that LOAD
  splits lines.
- `CodeSizes = {0, 6}`: what compiling a line may take of low memory.
- Cells below `buffer` are not represented: RUN hands them to the compiler, and
  no edit reads them.

## Fairness

`Toolchain!Spec` has weak fairness of `Execution`, the start of the machine on
compiled code or a step of it: `Compile` calls `Execute` directly and `Execute`
is a loop, so once a program is compiled nothing else can run until it ends.
`Reader!ReaderFairSpec` has weak fairness of `Reading`: the parse loop waits for
nothing but the prompt, and files are finite. Nothing is assumed of which of a
line's outcomes is taken, nor that RUN is typed. `EditBuffer!Spec` has weak
fairness of `Progress`: LIST, SAVE and LOAD are loops inside a command handler.
Nothing is assumed of the console, nor that the execution of a program ends.

## What is proved

`BlockStackProofs`, for every `MaxBlocks >= 2`:

- `TypeCorrect`, `NestingCorrect`: the invariant is `TypeOK /\ WellNested`,
  which is inductive because it ties `current` to the second place of the stack:
  without it nothing would prevent END FUNCTION from popping the main program's
  block. `PopFacts`, `PushFacts` and `TopFacts` are the lemmas about the stack.
- `FunctionBoundaries`: from the same invariant, `currentFunction` changes only
  between depths 1 and 2.

`ReaderProofs`, for every set of programs and files, whatever their lines say:

- `ReaderTypeCorrect`, `NoFileInsideItself`, `HandlesCorrect`: the invariant
  `ReaderTypeOK /\ IncludedOnce /\ HandlesAccounted` is inductive as it stands.
  A file is pushed only if its name is not on the list, and every name on the
  stack is; its handle is new because handles are at most `opened`; a handle
  closed is the top one, which is under no other file of the stack and was not
  open before the RUN. `PushFacts`, `PopFacts` and `LineFacts` say what the
  three ways of changing the stack do to the names and handles on it.

`LineListProofs`, for all numbers, texts and bounds:

- `TypeCorrect`, `IncreasingCorrect`: `TypeOK /\ Increasing` is inductive; the
  case of an insertion uses that everything before the place `FindLineN` finds
  is below the number and, because the list is ascending, everything after is
  above it.
- `ImplementsProgramTextCorrect`: the refinement. `PlaceUnique` (a number has one
  place) gives replacement and deletion, `Rank` (the number of lines below the
  i-th is i - 1, by a bijection) gives RENUM.

`EditWalkProofs` and `EditBufferProofs`, for every size of the
buffer, alignment and size of a record's head, every console and every disk;
all the safety properties of `editbuffer`:

- `BufferSoundCorrect`, `EveryLineOnceCorrect`: the inductive invariant is
  `Inv`. Its part `Laid` says that the cells are the records of some sequence of
  lines laid end to end: nothing weaker survives a `memmove`, whose distance is
  the difference of two record lengths. `RoomBelow` is the space check, `Given`
  ties the lines a walk has handed out to the place it has reached, and
  `Saving`, `FilesSound` and `LoadingSound` do the same for the file of SAVE and
  LOAD. That a layout determines its walk, and a walk its lines, is shown in
  EditWalkProofs by an induction over the finite set of places (`RepeatedDef`
  gives the equation of the recursive function); `Spliced`, `Cut` and
  `NumbersReplaced` say which layout the three ways of changing the buffer leave.
- `ImplementsLineListCorrect`: the refinement, one step of the list for each
  edit, none for each step of a walk.
- `SavedFileCorrect`, `LoadedFileCorrect`: `Saved` (what SAVE has written is the
  text of the lines it has passed) and `Loaded` (the lines entered and what is
  left of the file are the file) are inductive together with `Inv`. `FgetsOfLine`
  and `LineAppended` are the facts about `fgets`: a line written by SAVE is read
  back by as many calls as it has pieces.

`ArithProofs`, for every word width:

- `CodeWordRoundTrip`: `rd_cword` reads back what `wr_cword` wrote. A word in code is
  an address and a link in turn, so the proofs about chains rest on it. Bytes and value
  are recursive functions; that they are inverse is shown by an induction over the
  number of bytes (`AllUpTo`), and `RecursionExists` and `IndexedRecursion` give the
  functions their equations.
- `ReadIsWord`, `UnaryIsWord`, `BinaryIsWord`: bytes read as a word are a word, and
  every operator applied to words, where C defines it, is one. `QuotientFacts` is C's
  division (the remainder is smaller than the divisor, whatever the signs),
  `ShiftFacts` the arithmetic shift, `BitsFacts` the bit operators, which are built up
  bit by bit (`ModulusIsPower`: eight of them are a byte).

`DisciplineProofs`, for every stack size and word width, every image (not only a
compiler's) and every idea of its shape, of `MachineSpec`, whose steps are the
machine's steps in Toolchain:

- `MachineTypes`: `MachineTypeOK` is inductive as it stands, for any bytes, trusted or
  not. It needs of `InBounds` exactly the words an instruction takes and the addresses
  it reads, and that a byte is a word: with words of one byte, which no build has,
  LOADB would leave one that is not (`WordsAssumption`).
- `MachineInvariant`: `Inv`, that code which is trusted is `WellFormed`, `Intact`
  and `Sound`, and `BalancedAtHalt`, is inductive. The chain of frame pointers
  alone is not: nothing would prevent a store into an argument from
  changing a return address, or the return of one function from ending in another. The parts
  of `Sound` say of all calls in progress at once that each is at an instruction
  of a function, the first in main (`Located`); that each began where its
  caller's operands end (`Linked`); that nothing a call may change lies as high
  as a return address under it (`Apart`); that each frame holds its caller's fp
  (`Saved`), and each return address is in its slot, or still in `tos`
  (`Returns`); that `sp` and `fp` are where the shape has them (`Registers`); and
  that CALL finds an entry point in `tos` (`Calling`). `Moved`, `Quiet`,
  `Pushed` and `Removes` are the lemmas about what an instruction may do to the
  stack, `CallSound`, `FrameSound` and `ReturnSound` about the three that
  change the calls.
- `ControlOnBoundary`, `FramesKept`, `OperandsOwn`, `EmptyAtHalt`, `ReturnsGoBack`:
  the five properties above, from that invariant.

`EmissionProofs`, for every word width and every sequence of the steps of Emission
in memory of which a word can hold the address:

- `PatchedFacts`: the walk of `fixup` and `fixupbranch` along a chain ends, writes
  each word of the chain once, with what it is to hold, and nothing else; the
  chain may lie in any order of addresses, as long as it descends and its words
  are apart.
- `WorkspaceSound`: the inductive invariant. What is wanted, `ReferencesSound` and
  `BranchesSound`, is not inductive: a fixup could write over half of a word of
  another chain, or over the first byte of an opcode, or follow a link out of
  memory. `SitesApart` says that references are whole words of memory and no two
  overlap; `Words` and `Heads` are the two properties; `Labelled` ties what is
  referred to and where it lies to the symbols and the branches there are;
  `IsSymbols` keeps addresses within memory.
  A step is one of three kinds: memory is added to (`Extends`), a new reference
  continues a chain, or a chain is resolved (`ResolveSound`, under `LandFacts` and
  `PlaceFacts`).
- `ReferencesAreSound`, `BranchesAreSound`, `PatchesOnce`: the three properties, from
  that invariant.

That the compiler takes only Emission's steps is by construction: CodeGen and Parser
change the workspace through Workspace's operators. What it may get wrong is which
of them, with which chain and when; that is what TLC checks on `programs`, where
the same properties are stated of the compiler's own steps.

What the proofs about Discipline do not say is that the compiler's code is trusted; that is
`CodeTrusted`, which TLC checks. Nor do they say that an instruction has room: the
GetChar trap pushes without a check, and running past the end that way is the
status "wild", after which nothing is said.

Only assumptions on constants are used (`MaxBlocksAssumption`,
`ReaderAssumption`, `LineListAssumption`, `EditAssumption`, `StackAssumption`,
`WAssumption`, `WordsAssumption`); TLC evaluates them in the runs.

Only model-checked: that generated code is trusted and means what the source
says, and that the parser keeps to its types and its block discipline (`CodeTrusted`,
`MatchesReference`, `AllPlaced`, `RefusedIffIllNested`, `TypeOK`, `ImplementsNesting`),
since elaboration, generation and the reference are recursive over parse trees, which
the provers here cannot reason about, and with them that the compiler's emissions are
those Emission allows and leave nothing open; the
scanner and the grammar, which are recursive over lines and expressions;
`ListingIsProgram`, which is about digits and spaces inside strings; and all
liveness (`CommandsEnd`, `RunEnds`, `Terminates`).

## Not modelled

- Bytes past a buffer: digits, words and strings that overrun `token`, a
  newline added past the end of `lineBuf`, a long line formatted by
  `VM_vprintf` into 80 characters, line numbers beyond an `int`. The models'
  texts are short enough; the places are among the hazards.
- Exhaustion of memory within a compilation other than at an INCLUDE:
  `GenerateFatal`'s return, and the aborts of the parser's allocations, which
  leave by the same `longjmp` as the errors that are modelled.
- Labels, GOTO and SUB, which the README documents and the parser does not have.
- Native calls, which the build skips; signed overflow is taken to wrap.
- The texts of listings and messages (`TokenName`, `vmdebug.c`, `debug.c`), and
  the console (`osint_posix.c`), which only read and print.
- Liveness is checked of Reader and not of FrontEnd, whose steps are Reader's.
- Console: opening a file for writing always succeeds, which EditBuffer varies.

## Plan

Done: the compiler and the machine with BlockStack and its proofs; the editor
from typed characters to bytes with the proof that the list implements the set
of lines; scanner, grammar and included files with Reader's proofs; strings,
PRINT, DIM and ASM from text to execution; the proofs of the edit buffer's
properties, of the machine's words and its stack discipline, and of the chains of
references.

Left:

1. The heap: `nextLow` and `nextHigh` as two allocators that meet, with the
   editor above and the compiler's contexts between; `GenerateFatal`'s return.
2. A proof that each statement handler is a sequence of Emission's steps, which
   needs the parse trees without RECURSIVE operators.
