------------------------------ MODULE BlockStack ------------------------------
(***************************************************************************)
(* The block-structure discipline of the statement parser (parse.c): the   *)
(* stack blockBuf/bptr/btop of open blocks and the choice, made by          *)
(* currentFunction, of the function that statements are added to.           *)
(* Statements that neither open nor close a block do not appear here.  A    *)
(* DO with a test at its head is the block "DOTEST": LOOP WHILE and LOOP    *)
(* UNTIL refuse it.                                                         *)
(***************************************************************************)
EXTENDS Naturals, Sequences

CONSTANT MaxBlocks      \* the length of blockBuf

ASSUME MaxBlocksAssumption == MaxBlocks \in Nat \ {0, 1}

BlockType == {"FUNCTION", "IF", "ELSE", "FOR", "DO", "DOTEST"}

VARIABLES
  blocks,       \* blockBuf[0 .. bptr], outermost first
  current,      \* currentFunction: "main" or "nested", a FUNCTION's body
  phase         \* "parsing", "done" (end of the source) or "error"

bvars == <<blocks, current, phase>>

TypeOK ==
  /\ blocks \in Seq(BlockType)
  /\ current \in {"main", "nested"}
  /\ phase \in {"parsing", "done", "error"}

Top == blocks[Len(blocks)]

Init ==
  /\ blocks = <<"FUNCTION">>
  /\ current = "main"
  /\ phase = "parsing"

PushBlock(type) ==
  /\ Len(blocks) < MaxBlocks
  /\ blocks' = Append(blocks, type)

PopBlock == blocks' = SubSeq(blocks, 1, Len(blocks) - 1)

ParseFunctionMutant ==                  \* inside another block as well
  /\ phase = "parsing" /\ current = "main"
  /\ PushBlock("FUNCTION")
  /\ current' = "nested"
  /\ UNCHANGED phase

ParseFunction ==
  /\ phase = "parsing" /\ current = "main" /\ Top = "FUNCTION"
  /\ PushBlock("FUNCTION")
  /\ current' = "nested"
  /\ UNCHANGED phase

ParseEndFunctionMutant ==               \* currentFunction is not reset
  /\ phase = "parsing" /\ current = "nested" /\ Top = "FUNCTION"
  /\ PopBlock
  /\ UNCHANGED <<current, phase>>

ParseEndFunction ==
  /\ phase = "parsing" /\ current = "nested" /\ Top = "FUNCTION"
  /\ PopBlock
  /\ current' = "main"
  /\ UNCHANGED phase

OpenBlock(type) ==
  /\ phase = "parsing"
  /\ PushBlock(type)
  /\ UNCHANGED <<current, phase>>

ParseElse ==
  /\ phase = "parsing" /\ Top = "IF"
  /\ blocks' = [blocks EXCEPT ![Len(blocks)] = "ELSE"]
  /\ UNCHANGED <<current, phase>>

CloseBlock(types) ==
  /\ phase = "parsing" /\ Top \in types
  /\ PopBlock
  /\ UNCHANGED <<current, phase>>

\* A ParseError can come from any statement; it leaves the stack as it is.
Fail ==
  /\ phase = "parsing"
  /\ phase' = "error"
  /\ UNCHANGED <<blocks, current>>

\* The source ends whatever blocks are still open.
EndOfSource ==
  /\ phase = "parsing"
  /\ phase' = "done"
  /\ UNCHANGED <<blocks, current>>

Next ==
  \/ ParseFunction
  \/ ParseEndFunction
  \/ \E type \in {"IF", "FOR", "DO", "DOTEST"} : OpenBlock(type)
  \/ ParseElse
  \/ \E types \in {{"IF", "ELSE"}, {"FOR"}, {"DO", "DOTEST"}, {"DO"}} : CloseBlock(types)
  \/ Fail
  \/ EndOfSource

Spec == Init /\ [][Next]_bvars
-----------------------------------------------------------------------------
\* The main function's own block stays at the bottom of the stack and is never
\* popped (bptr never runs below blockBuf, which PopBlock does not check), a
\* function block stands only directly above it, and it is there exactly while
\* currentFunction is not the main function; the stack never outgrows blockBuf.
WellNested ==
  /\ Len(blocks) \in 1 .. MaxBlocks
  /\ blocks[1] = "FUNCTION"
  /\ \A i \in 2 .. Len(blocks) : blocks[i] = "FUNCTION" <=> i = 2 /\ current = "nested"
  /\ current = "nested" => Len(blocks) >= 2

\* currentFunction changes only between the main program's own level and the
\* level of a function's body: no statement inside an IF, a loop or another
\* function can start or finish a function.
FunctionsOnlyAtTopLevel ==
  [][current' # current => {Len(blocks), Len(blocks')} = {1, 2}]_bvars
=============================================================================
