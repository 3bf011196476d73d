-------------------------------- MODULE Arith --------------------------------
(***************************************************************************)
(* The integer operators of the language as C computes them on VMVALUEs,    *)
(* shared by the constant folding of parse.c and the opcodes of vmint.c.    *)
(***************************************************************************)
EXTENDS Image

Bool(b) == IF b THEN 1 ELSE 0

Magnitude(v) == IF v < 0 THEN -v ELSE v
Quotient(l, r) ==           \* C division truncates towards zero
  LET q == Magnitude(l) \div Magnitude(r) IN IF (l < 0) # (r < 0) THEN -q ELSE q
Remainder(l, r) == l - r * Quotient(l, r)

UnaryOpMutant(op, v) ==                 \* a negation wider than a word
  IF op = Op.NEG THEN -v ELSE IF op = Op.NOT THEN Bool(v = 0) ELSE -v - 1
UnaryOp(op, v) ==
  CASE op = Op.NEG  -> Wrap(-v)
    [] op = Op.NOT  -> Bool(v = 0)
    [] op = Op.BNOT -> -v - 1

\* C defines neither the quotient of the least word by -1 nor a shift by a count
\* outside the word; a zero divisor is the caller's business.
Least == -AddressSpace
Defined(op, l, r) ==
  /\ op \in {Op.DIV, Op.REM} => r # 0 /\ ~(l = Least /\ r = -1)
  /\ op \in {Op.SHL, Op.SHR} => r \in 0 .. 8 * W - 1

Power[n \in Nat] == IF n = 0 THEN 1 ELSE 2 * Power[n - 1]

\* The word with a bit set where the bits of two others are one of the given pairs,
\* from its highest bit on.
Bit(v, i) == (v \div Power[i]) % 2
Bits(l, r, pairs) ==
  LET upper[n \in 0 .. 8 * W] ==
        IF n = 0 THEN 0
        ELSE 2 * upper[n - 1] + Bool(<<Bit(l, 8 * W - n), Bit(r, 8 * W - n)>> \in pairs)
  IN  Signed(upper[8 * W])

BinaryOp(op, l, r) ==
  CASE op = Op.ADD  -> Wrap(l + r)
    [] op = Op.SUB  -> Wrap(l - r)
    [] op = Op.MUL  -> Wrap(l * r)
    [] op = Op.DIV  -> Wrap(Quotient(l, r))
    [] op = Op.REM  -> Remainder(l, r)
    [] op = Op.BAND -> Bits(l, r, {<<1, 1>>})
    [] op = Op.BOR  -> Bits(l, r, {<<0, 1>>, <<1, 0>>, <<1, 1>>})
    [] op = Op.BXOR -> Bits(l, r, {<<0, 1>>, <<1, 0>>})
    [] op = Op.SHL  -> Wrap(l * Power[r])
    [] op = Op.SHR  -> l \div Power[r]
    [] op = Op.LT   -> Bool(l < r)
    [] op = Op.LE   -> Bool(l <= r)
    [] op = Op.EQ   -> Bool(l = r)
    [] op = Op.NE   -> Bool(l # r)
    [] op = Op.GE   -> Bool(l >= r)
    [] op = Op.GT   -> Bool(l > r)

UnaryOps  == {Op.NEG, Op.NOT, Op.BNOT}
BinaryOps == Op.ADD .. Op.REM \cup Op.BAND .. Op.GT
=============================================================================
