------------------------------ MODULE Discipline ------------------------------
(***************************************************************************)
(* What the virtual machine relies on and never checks: that the code it is  *)
(* given keeps its frames, its return addresses and its operands apart on    *)
(* one stack.  The shape of a program says of each instruction to which      *)
(* function it belongs and how many words that function has on the stack     *)
(* when control is there; code of a shape that is WellFormed is trusted as   *)
(* long as no store changes it.  shape, trusted and calls, the calls in      *)
(* progress, are history: the machine's steps are Interpreter's.             *)
(***************************************************************************)
EXTENDS Interpreter

VARIABLES
  shape,            \* the code by address, its functions by entry point, and main
  trusted,          \* whether the shape is well formed and still that of mem
  calls             \* what CALL found: return address, fp and sp; the last one last

mvars == <<mem, pc, sp, fp, tos, stack, status, out, shape, trusted, calls>>

ASSUME StackAssumption == StackSize \in Nat

\* A byte is a word, with its sign or without, and so is a number of words of stack.
ASSUME WordsAssumption ==
  /\ W >= 2
  /\ StackSize < AddressSpace
  /\ Garbage \subseteq VMVALUE /\ Input \subseteq VMVALUE

\* The instruction at an address of an image, as Execute decodes it.
Argument(image, a) ==
  IF image[a + 1] \in WordOps THEN CodeWordValue(Bytes(image, a + 1, W))
  ELSE IF image[a + 1] \in ByteOps THEN image[a + 2] ELSE 0

Addresses == DOMAIN shape.code
Entries   == DOMAIN shape.functions

At(a)      == shape.code[a]
FrameOf(a) == shape.functions[At(a).entry].frame
ArgsOf(a)  == shape.functions[At(a).entry].args
Following(a) == a + InstructionLength(At(a).op)

PrintingTraps == {Trap.PutChar, Trap.PrintStr, Trap.PrintInt}

\* Words an instruction needs above its function's frame, tos included, and
\* those it leaves in their place.
Takes(i) ==
  CASE i.op \in BinaryOps \cup {Op.INDEX, Op.STORE, Op.STOREB} -> 2
    [] i.op = Op.CLEAN -> i.arg + 1
    [] \/ i.op \in UnaryOps \cup (BranchOps \ {Op.BR})
       \/ i.op \in {Op.LOAD, Op.LOADB, Op.LSET, Op.DROP, Op.DUP, Op.CALL, Op.RETURN}
       \/ i.op = Op.TRAP /\ i.arg \in PrintingTraps -> 1
    [] OTHER -> 0
Gives(i) ==
  CASE i.op = Op.DUP -> 2
    [] \/ i.op \in UnaryOps \cup BinaryOps
       \/ i.op \in {Op.LIT, Op.SLIT, Op.LREF, Op.INDEX, Op.LOAD, Op.LOADB, Op.CALL, Op.CLEAN}
       \/ i.op = Op.TRAP /\ i.arg = Trap.GetChar -> 1
    [] OTHER -> 0
DepthAfter(a) == At(a).depth - Takes(At(a)) + Gives(At(a))

\* A function that may be called where there are depth words: its arguments lie
\* above the caller's frame and return address.
Callable(f, a, depth) ==
  f \in Entries \ {shape.main} /\ shape.functions[f].args + FrameOf(a) + 1 <= depth

\* Control may go from a to b within a function, with this many words.  What is
\* called is known: the CALL comes after the LIT of an entry point.
Reaches(a, b, depth) ==
  /\ b \in Addresses \ Entries
  /\ At(b).entry = At(a).entry /\ At(b).depth = depth
  /\ At(b).op = Op.CALL => At(a).op = Op.LIT /\ Callable(At(a).arg, b, depth)

Disciplined(a) ==
  LET i == At(a)
  IN  /\ i.depth - Takes(i) >= FrameOf(a)
      /\ i.op # Op.FRAME
      /\ i.op = Op.HALT => i.entry = shape.main /\ i.depth = F_SIZE
      /\ i.op \in {Op.RETURN, Op.RETURNZ} =>
           i.entry # shape.main /\ i.depth - Takes(i) = FrameOf(a)
      /\ i.op \in {Op.LREF, Op.LSET} =>
           SignedByte(i.arg) \in (-FrameOf(a) .. ArgsOf(a) - 1) \ {-1}
      /\ i.op \in BranchOps =>
           Reaches(a, Following(a) + i.arg,
                   IF i.op \in {Op.BRTSC, Op.BRFSC} THEN i.depth ELSE DepthAfter(a))
      /\ i.op \notin {Op.HALT, Op.BR, Op.RETURN, Op.RETURNZ} =>
           Reaches(a, Following(a), DepthAfter(a))

WellFormed ==
  /\ shape.main \in Entries /\ Entries \subseteq Addresses /\ Addresses \subseteq Nat
  /\ \A a \in Addresses : At(a).entry \in Entries /\ At(a).depth \in Nat /\ At(a).arg \in Int
  /\ \A f \in Entries :
       /\ shape.functions[f].args \in Nat /\ FrameOf(f) \in Nat \ {0}
       /\ At(f).op = Op.FRAME /\ At(f).entry = f /\ At(f).arg = FrameOf(f)
       /\ Reaches(f, Following(f), FrameOf(f))
  /\ \A a \in Addresses \ Entries : At(a).arg >= 0 \/ At(a).op # Op.CLEAN
  /\ \A a \in Addresses \ Entries : Disciplined(a)

Intact == \A a \in Addresses : mem[a + 1] = At(a).op /\ Argument(mem, a) = At(a).arg
-----------------------------------------------------------------------------
MachineIdle ==
  /\ InterpreterIdle
  /\ shape = [code |-> <<>>, functions |-> <<>>, main |-> 0]
  /\ trusted = FALSE /\ calls = <<>>

\* The main program is run as if it had been called, with what tos held for a
\* return address.
StartMachine(image, newShape) ==
  /\ StartInterpreter(image, newShape.main)
  /\ shape' = newShape
  /\ trusted' = (WellFormed /\ Intact)'
  /\ calls' = <<[ret |-> tos', fp |-> StackSize, sp |-> StackSize]>>

Traced ==
  CASE trusted /\ Execute({Op.CALL}) -> Append(calls, [ret |-> NextPc, fp |-> fp, sp |-> sp])
    [] trusted /\ Execute({Op.RETURN, Op.RETURNZ}) -> Front(calls)
    [] OTHER -> calls

MachineStep ==
  /\ InterpreterNext
  /\ UNCHANGED shape
  /\ trusted' = (trusted /\ (mem' = mem \/ Intact'))
  /\ calls' = Traced

\* Any bytes that a word can address are executed, with any idea of their shape.
Images == {image \in Seq(Byte) : Len(image) < AddressSpace}

MachineNext ==
  \/ status = "idle" /\ \E image \in Images : \E newShape : StartMachine(image, newShape)
  \/ MachineStep

MachineSpec == MachineIdle /\ [][MachineNext]_mvars
-----------------------------------------------------------------------------
\* Whatever the code, trusted or not: as long as it touches nothing but its image
\* and its stack, every register and every word on the stack is a VMVALUE, no
\* operator leads out of it, sp stays within the stack, and memory is the bytes
\* of an image.
MachineTypeOK ==
  /\ status \in {"idle", "running", "halted", "overflow", "aborted", "wild"}
  /\ mem \in Images
  /\ tos \in VMVALUE /\ fp \in VMVALUE
  /\ sp \in 0 .. StackSize
  /\ stack \in [0 .. StackSize - 1 -> VMVALUE]

Going == status = "running" /\ trusted

\* The calls whose FRAME has been executed.
Framed == IF pc \in Entries THEN Len(calls) - 1 ELSE Len(calls)

\* Control is always at the start of an instruction of one of the generated
\* functions: every branch, call and return was patched to an address its
\* chain was meant for.
PcOnBoundary == Going => pc \in Addresses

\* The frames on the stack are those of the calls in progress, and each holds
\* the frame pointer of its caller.
FrameChainIntact == Going =>
  /\ fp = IF Framed = 0 THEN StackSize ELSE calls[Framed].sp
  /\ \A m \in 1 .. Framed : stack[calls[m].sp - 1] = calls[m].fp
  /\ \A m \in 2 .. Len(calls) : calls[m].fp = calls[m - 1].sp /\ calls[m].sp < calls[m].fp

\* No instruction takes a word of its function's frame or its caller's for an
\* operand, and the locals and arguments it names are its own, the arguments among
\* the operands of the caller: Pop and the frame offsets are checked nowhere.
StaysInFrame == Going /\ pc \notin Entries =>
  /\ sp + Popped <= fp - FrameOf(pc)
  /\ Fetch \in {Op.LREF, Op.LSET} =>
       fp + SignedByte(ByteArg) \in fp - FrameOf(pc) .. fp + ArgsOf(pc) - 1
  /\ Len(calls) > 1 => fp + ArgsOf(pc) < Last(calls).fp - FrameOf(Last(calls).ret)

\* Every call, expression and statement leaves the stack as it found it: at
\* OP_HALT only the main function's frame is left, and tos is what it was.
BalancedAtHalt ==
  status = "halted" /\ trusted => sp = StackSize - F_SIZE /\ fp = StackSize /\ tos \in Garbage

\* A function returns to the instruction after the CALL it was called by, and
\* leaves its caller's frame and operands where they were.
ReturnsToCaller ==
  [][Going /\ Execute({Op.RETURN, Op.RETURNZ}) =>
       /\ Len(calls) > 1
       /\ pc' = Last(calls).ret /\ fp' = Last(calls).fp /\ sp' = Last(calls).sp]_mvars
=============================================================================
