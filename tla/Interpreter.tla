----------------------------- MODULE Interpreter -----------------------------
(***************************************************************************)
(* The virtual machine (vmint.c): one action per group of opcodes of         *)
(* Execute.  The stack grows down from StackSize; sp and fp are indexes into *)
(* it.  The status is "idle" before Execute, "running", "halted" after       *)
(* OP_HALT, "overflow" after StackOverflow, "aborted" after an undefined     *)
(* opcode or trap, and "wild" once the machine has touched memory that is    *)
(* neither its image nor its stack: C leaves anything possible from there.   *)
(***************************************************************************)
EXTENDS Arith

CONSTANTS
  StackSize,        \* words of stack, 1024 in Compile
  Garbage,          \* what an uninitialized word may hold
  Input             \* the characters VM_getchar may return

VARIABLES mem, pc, sp, fp, tos, stack, status, out

vmvars == <<mem, pc, sp, fp, tos, stack, status, out>>

AllOps == {Op[name] : name \in DOMAIN Op}

Fetch    == mem[pc + 1]
ByteArg  == mem[pc + 2]
WordArg  == CodeWordValue(Bytes(mem, pc + 1, W))
NextPc   == pc + InstructionLength(Fetch)

InterpreterIdle ==
  /\ mem = <<>> /\ pc = 0 /\ sp = StackSize /\ fp = StackSize /\ tos = 0
  /\ stack = [i \in 0 .. StackSize - 1 |-> 0]
  /\ status = "idle"
  /\ out = <<>>

\* InitInterpreter and the start of Execute: neither the stack nor tos is
\* initialized.
StartInterpreter(image, mainCode) ==
  /\ mem' = image
  /\ pc' = mainCode
  /\ sp' = StackSize /\ fp' = StackSize
  /\ \E junk \in Garbage :
       tos' = junk /\ stack' = [i \in 0 .. StackSize - 1 |-> junk]
  /\ status' = "running"
  /\ out' = <<>>
-----------------------------------------------------------------------------
PopOps  == BinaryOps \cup {Op.BRT, Op.BRF, Op.INDEX, Op.DROP}
PushOps == {Op.LIT, Op.SLIT, Op.LREF, Op.DUP, Op.RETURNZ}

\* Words above sp that the instruction reads or skips.
Popped ==
  CASE Fetch \in PopOps \cup {Op.LSET, Op.RETURN} -> 1
    [] Fetch = Op.BRTSC -> IF tos = 0 THEN 1 ELSE 0
    [] Fetch = Op.BRFSC -> IF tos # 0 THEN 1 ELSE 0
    [] Fetch \in {Op.STORE, Op.STOREB} -> 2
    [] Fetch = Op.CLEAN -> ByteArg
    [] Fetch = Op.TRAP -> IF ByteArg \in {Trap.PutChar, Trap.PrintStr, Trap.PrintInt} THEN 1 ELSE 0
    [] OTHER -> 0

\* Words below sp that the instruction makes room for; CPush and Reserve check it.
Reserved == IF Fetch = Op.FRAME THEN ByteArg ELSE IF Fetch \in PushOps THEN 1 ELSE 0

\* The place of the first null at or after address a, or 0.
NullFrom(a) == SelectInSubSeq(mem, a + 1, Len(mem), LAMBDA b : b = 0)

ZeroDivisor == Fetch \in {Op.DIV, Op.REM} /\ tos = 0

\* The instruction and everything it touches lie in the image and the stack,
\* and C defines what it computes.
InBounds ==
  /\ pc \in 0 .. Len(mem) - 1
  /\ NextPc <= Len(mem)
  /\ sp + Popped <= StackSize
  /\ Fetch \in {Op.LOAD, Op.STORE} => tos \in 0 .. Len(mem) - W
  /\ Fetch \in {Op.LOADB, Op.STOREB} => tos \in 0 .. Len(mem) - 1
  /\ Fetch \in {Op.LREF, Op.LSET} => fp + SignedByte(ByteArg) \in 0 .. StackSize - 1
  /\ Fetch \in {Op.RETURN, Op.RETURNZ} => fp \in 1 .. StackSize
  /\ Fetch = Op.FRAME => sp > 0 \/ ByteArg > 0
  /\ Fetch = Op.TRAP /\ ByteArg = Trap.GetChar => sp > 0
  /\ Fetch = Op.TRAP /\ ByteArg = Trap.PrintStr => tos >= 0 /\ NullFrom(tos) > 0
  /\ Fetch \in BinaryOps => Defined(Fetch, stack[sp], tos) \/ ZeroDivisor

Execute(ops) == status = "running" /\ InBounds /\ sp >= Reserved /\ Fetch \in ops

Push(v) == sp' = sp - 1 /\ stack' = [stack EXCEPT ![sp - 1] = v]
Pop     == sp' = sp + 1 /\ UNCHANGED stack

Halt ==
  /\ Execute({Op.HALT})
  /\ status' = "halted"
  /\ UNCHANGED <<mem, pc, sp, fp, tos, stack, out>>

Branch ==
  /\ Execute({Op.BR})
  /\ pc' = NextPc + WordArg
  /\ UNCHANGED <<mem, sp, fp, tos, stack, status, out>>

ConditionalBranchMutant ==              \* the offset counts from the operand
  /\ Execute({Op.BRT, Op.BRF})
  /\ pc' = IF (Fetch = Op.BRT) <=> (tos # 0) THEN pc + 1 + WordArg ELSE NextPc
  /\ tos' = stack[sp] /\ Pop
  /\ UNCHANGED <<mem, fp, status, out>>

ConditionalBranch ==
  /\ Execute({Op.BRT, Op.BRF})
  /\ pc' = IF (Fetch = Op.BRT) <=> (tos # 0) THEN NextPc + WordArg ELSE NextPc
  /\ tos' = stack[sp] /\ Pop
  /\ UNCHANGED <<mem, fp, status, out>>

ShortCircuitBranchMutant ==             \* drops the value it tested when taken, too
  /\ Execute({Op.BRTSC, Op.BRFSC})
  /\ pc' = IF (Fetch = Op.BRTSC) <=> (tos # 0) THEN NextPc + WordArg ELSE NextPc
  /\ tos' = stack[sp] /\ Pop
  /\ UNCHANGED <<mem, fp, status, out>>

\* A short-circuit branch that is taken keeps the value it tested.
ShortCircuitBranch ==
  /\ Execute({Op.BRTSC, Op.BRFSC})
  /\ IF (Fetch = Op.BRTSC) <=> (tos # 0)
     THEN pc' = NextPc + WordArg /\ UNCHANGED <<sp, stack, tos>>
     ELSE pc' = NextPc /\ tos' = stack[sp] /\ Pop
  /\ UNCHANGED <<mem, fp, status, out>>

Unary ==
  /\ Execute(UnaryOps)
  /\ tos' = UnaryOp(Fetch, tos)
  /\ pc' = NextPc
  /\ UNCHANGED <<mem, sp, fp, stack, status, out>>

Binary ==
  /\ Execute(BinaryOps)
  /\ tos' = IF ZeroDivisor THEN 0 ELSE BinaryOp(Fetch, stack[sp], tos)
  /\ Pop
  /\ pc' = NextPc
  /\ UNCHANGED <<mem, fp, status, out>>

Literal ==
  /\ Execute({Op.LIT, Op.SLIT})
  /\ Push(tos)
  /\ tos' = IF Fetch = Op.LIT THEN WordArg ELSE SignedByte(ByteArg)
  /\ pc' = NextPc
  /\ UNCHANGED <<mem, fp, status, out>>

Load ==
  /\ Execute({Op.LOAD, Op.LOADB})
  /\ tos' = IF Fetch = Op.LOAD THEN DataWordValue(Bytes(mem, tos, W)) ELSE mem[tos + 1]
  /\ pc' = NextPc
  /\ UNCHANGED <<mem, sp, fp, stack, status, out>>

StoreWord ==
  /\ Execute({Op.STORE, Op.STOREB})
  /\ mem' = Overwrite(mem, tos, IF Fetch = Op.STORE THEN DataWord(stack[sp])
                                ELSE <<stack[sp] % 256>>)
  /\ tos' = stack[sp + 1]
  /\ sp' = sp + 2
  /\ pc' = NextPc
  /\ UNCHANGED <<fp, stack, status, out>>

LocalRef ==
  /\ Execute({Op.LREF})
  /\ Push(tos)
  /\ tos' = stack'[fp + SignedByte(ByteArg)]
  /\ pc' = NextPc
  /\ UNCHANGED <<mem, fp, status, out>>

LocalSet ==
  /\ Execute({Op.LSET})
  /\ stack' = [stack EXCEPT ![fp + SignedByte(ByteArg)] = tos]
  /\ tos' = stack'[sp] /\ sp' = sp + 1
  /\ pc' = NextPc
  /\ UNCHANGED <<mem, fp, status, out>>

Index ==
  /\ Execute({Op.INDEX})
  /\ tos' = Wrap(stack[sp] + tos * W)
  /\ Pop
  /\ pc' = NextPc
  /\ UNCHANGED <<mem, fp, status, out>>

Call ==
  /\ Execute({Op.CALL})
  /\ pc' = tos
  /\ tos' = NextPc
  /\ UNCHANGED <<mem, sp, fp, stack, status, out>>

Clean ==
  /\ Execute({Op.CLEAN})
  /\ sp' = sp + ByteArg
  /\ pc' = NextPc
  /\ UNCHANGED <<mem, fp, tos, stack, status, out>>

FrameMutant ==                          \* saves the new frame pointer
  /\ Execute({Op.FRAME})
  /\ fp' = sp
  /\ sp' = sp - ByteArg
  /\ stack' = [i \in DOMAIN stack |->
                 IF i = sp - 1 THEN sp ELSE IF i \in sp - ByteArg .. sp - 1 THEN 0 ELSE stack[i]]
  /\ pc' = NextPc
  /\ UNCHANGED <<mem, tos, status, out>>

Frame ==
  /\ Execute({Op.FRAME})
  /\ fp' = sp
  /\ sp' = sp - ByteArg
  /\ stack' = [i \in DOMAIN stack |->
                 IF i = sp - 1 THEN fp ELSE IF i \in sp - ByteArg .. sp - 1 THEN 0 ELSE stack[i]]
  /\ pc' = NextPc
  /\ UNCHANGED <<mem, tos, status, out>>

ReturnMutant ==                         \* RETURNZ pushes nothing before it falls into RETURN
  /\ Execute({Op.RETURN, Op.RETURNZ})
  /\ pc' = stack[sp]
  /\ sp' = fp
  /\ fp' = stack[fp - 1]
  /\ UNCHANGED <<mem, tos, stack, status, out>>

\* RETURNZ pushes the return address it finds in tos and falls into RETURN.
Return ==
  /\ Execute({Op.RETURN, Op.RETURNZ})
  /\ IF Fetch = Op.RETURN
     THEN pc' = stack[sp] /\ UNCHANGED <<tos, stack>>
     ELSE pc' = tos /\ tos' = 0 /\ stack' = [stack EXCEPT ![sp - 1] = tos]
  /\ sp' = fp
  /\ fp' = stack'[fp - 1]
  /\ UNCHANGED <<mem, status, out>>

Drop ==
  /\ Execute({Op.DROP})
  /\ tos' = stack[sp] /\ Pop
  /\ pc' = NextPc
  /\ UNCHANGED <<mem, fp, status, out>>

Dup ==
  /\ Execute({Op.DUP})
  /\ Push(tos)
  /\ pc' = NextPc
  /\ UNCHANGED <<mem, fp, tos, status, out>>

Native ==
  /\ Execute({Op.NATIVE})
  /\ pc' = NextPc
  /\ UNCHANGED <<mem, sp, fp, tos, stack, status, out>>

GetCharTrap ==
  /\ Execute({Op.TRAP}) /\ ByteArg = Trap.GetChar
  /\ Push(tos)
  /\ tos' \in Input
  /\ pc' = NextPc
  /\ UNCHANGED <<mem, fp, status, out>>

\* A string goes up to the next null.
Printed == IF ByteArg = Trap.PrintStr THEN SubSeq(mem, tos + 1, NullFrom(tos) - 1) ELSE tos

PrintTrapMutant ==                      \* every trap removes the top of the stack
  /\ Execute({Op.TRAP}) /\ ByteArg \in Trap.PutChar .. Trap.PrintFlush
  /\ out' = Append(out, IF Popped = 1 THEN <<ByteArg, Printed>> ELSE <<ByteArg>>)
  /\ tos' = stack[sp] /\ Pop
  /\ pc' = NextPc
  /\ UNCHANGED <<mem, fp, status>>

\* The traps that print the top of the stack remove it; the others print a
\* fixed character or flush.
PrintTrap ==
  /\ Execute({Op.TRAP}) /\ ByteArg \in Trap.PutChar .. Trap.PrintFlush
  /\ IF Popped = 1
     THEN out' = Append(out, <<ByteArg, Printed>>) /\ tos' = stack[sp] /\ Pop
     ELSE out' = Append(out, <<ByteArg>>) /\ UNCHANGED <<tos, sp, stack>>
  /\ pc' = NextPc
  /\ UNCHANGED <<mem, fp, status>>

Undefined ==
  /\ status = "running" /\ InBounds
  /\ Fetch \notin AllOps \/ (Fetch = Op.TRAP /\ ByteArg > Trap.PrintFlush)
  /\ status' = "aborted"
  /\ UNCHANGED <<mem, pc, sp, fp, tos, stack, out>>

StackOverflow ==
  /\ status = "running" /\ InBounds /\ sp < Reserved
  /\ status' = "overflow"
  /\ UNCHANGED <<mem, pc, sp, fp, tos, stack, out>>

RunWild ==
  /\ status = "running" /\ ~InBounds
  /\ status' = "wild"
  /\ UNCHANGED <<mem, pc, sp, fp, tos, stack, out>>

InterpreterNext ==
  \/ Halt \/ Branch \/ ConditionalBranch \/ ShortCircuitBranch
  \/ Unary \/ Binary \/ Literal \/ Load \/ StoreWord
  \/ LocalRef \/ LocalSet \/ Index
  \/ Call \/ Clean \/ Frame \/ Return \/ Drop \/ Dup
  \/ Native \/ GetCharTrap \/ PrintTrap
  \/ Undefined \/ StackOverflow \/ RunWild
=============================================================================
