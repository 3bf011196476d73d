-------------------------------- MODULE Image --------------------------------
(***************************************************************************)
(* The code image shared by the code generator and the virtual machine:     *)
(* opcodes, operand formats, and the encoding of words (image.h, the opcode *)
(* table of vmdebug.c, and the word readers and writers of generate.c and   *)
(* vmint.c).  Memory is a sequence of bytes; the byte at address a is        *)
(* mem[a + 1].                                                               *)
(***************************************************************************)
EXTENDS Integers, Sequences, SequencesExt

CONSTANT W      \* sizeof(VMVALUE): 4 or 8 in the builds, 2 for TLC's integers

ASSUME WAssumption == W \in Nat \ {0}

Op == [HALT |-> 0, BRT |-> 1, BRTSC |-> 2, BRF |-> 3, BRFSC |-> 4, BR |-> 5,
       NOT |-> 6, NEG |-> 7, ADD |-> 8, SUB |-> 9, MUL |-> 10, DIV |-> 11,
       REM |-> 12, BNOT |-> 13, BAND |-> 14, BOR |-> 15, BXOR |-> 16,
       SHL |-> 17, SHR |-> 18, LT |-> 19, LE |-> 20, EQ |-> 21, NE |-> 22,
       GE |-> 23, GT |-> 24, LIT |-> 25, SLIT |-> 26, LOAD |-> 27,
       LOADB |-> 28, STORE |-> 29, STOREB |-> 30, LREF |-> 31, LSET |-> 32,
       INDEX |-> 33, CALL |-> 34, FRAME |-> 35, RETURN |-> 36, DROP |-> 37,
       DUP |-> 38, NATIVE |-> 39, TRAP |-> 40, RETURNZ |-> 41, CLEAN |-> 44]

Trap == [GetChar |-> 0, PutChar |-> 1, PrintStr |-> 2, PrintInt |-> 3,
         PrintTab |-> 4, PrintNL |-> 5, PrintFlush |-> 6]

BranchOps == {Op.BRT, Op.BRTSC, Op.BRF, Op.BRFSC, Op.BR}
WordOps   == BranchOps \cup {Op.LIT, Op.NATIVE}
ByteOps   == {Op.SLIT, Op.LREF, Op.LSET, Op.FRAME, Op.CLEAN, Op.TRAP}

F_SIZE == 1             \* words of a frame before its first local

\* Length of the instruction that starts with this opcode, as DecodeInstruction
\* computes it from the operand format.
InstructionLength(op) ==
  1 + IF op \in WordOps THEN W ELSE IF op \in ByteOps THEN 1 ELSE 0

\* The numbers that n bytes can hold.
Capacity[n \in Nat] == IF n = 0 THEN 1 ELSE 256 * Capacity[n - 1]
Modulus == Capacity[W]

Byte         == 0 .. 255
AddressSpace == Modulus \div 2       \* half of the words are addresses
VMVALUE      == -AddressSpace .. AddressSpace - 1

Unsigned(v) == v % Modulus
Signed(u)   == IF u >= Modulus \div 2 THEN u - Modulus ELSE u
Wrap(v)     == Signed(Unsigned(v))
SignedByteMutant(b) == b                \* no sign extension
SignedByte(b) == IF b >= 128 THEN b - 256 ELSE b

CodeWord(w) == [i \in 1 .. W |-> (Unsigned(w) \div Capacity[W - i]) % 256]
DataWord(w) == Reverse(CodeWord(w))     \* the host is little-endian

CodeWordValue(bytes) ==
  LET read[n \in 0 .. W] == IF n = 0 THEN 0 ELSE 256 * read[n - 1] + bytes[n]
  IN  Wrap(read[W])
DataWordValue(bytes) == CodeWordValue(Reverse(bytes))

Bytes(mem, a, n) == SubSeq(mem, a + 1, a + n)
Overwrite(mem, a, bytes) ==
  SubSeq(mem, 1, a) \o bytes \o SubSeq(mem, a + Len(bytes) + 1, Len(mem))
=============================================================================
