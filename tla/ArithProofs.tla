------------------------------ MODULE ArithProofs ------------------------------
(***************************************************************************)
(* Proofs about Image and Arith, for every width of a word: a word of code   *)
(* is read as it was written, and what the operators compute of two words is *)
(* a word.  With the lemmas on which inductions over recursive functions     *)
(* rest.                                                                     *)
(***************************************************************************)
EXTENDS Arith, SequenceTheorems, WellFoundedInduction, TLAPS

USE WAssumption

LEMMA LeastElement ==
  ASSUME NEW S, S \subseteq Nat, S # {}
  PROVE  \E x \in S : \A y \in S : x <= y
<1> DEFINE R == OpToRel(<, Nat)
<1>1. IsWellFoundedOn(R, Nat)
  BY NatLessThanWellFounded
<1>2. R = {ss \in Nat \X Nat : ss[1] < ss[2]}
  BY DEF OpToRel
<1> HIDE DEF R
<1>3. PICK x \in S : \A y \in S : <<y, x>> \notin R
  BY <1>1, WFMin
<1>4. \A y \in S : ~(y < x)
  BY <1>2, <1>3
<1>5. \A y \in S : y \in Nat /\ x \in Nat
  OBVIOUS
<1> QED
  BY <1>4, <1>5

\* A set of numbers that has 0 and with each number the next one has them all.
LEMMA AllOf ==
  ASSUME NEW S, 0 \in S, \A i \in Nat : i \in S => i + 1 \in S
  PROVE  Nat \subseteq S
<1> DEFINE Bad == {i \in Nat : i \notin S}
<1> SUFFICES ASSUME Bad # {} PROVE FALSE
  OBVIOUS
<1>1. PICK x \in Bad : \A y \in Bad : x <= y
  BY LeastElement
<1>2. x \in Nat \ {0} /\ x - 1 \in Nat /\ x - 1 \notin Bad
  BY <1>1
<1>3. x - 1 \in S
  BY <1>2
<1> QED
  BY <1>2, <1>3

\* The same up to a bound.
LEMMA AllUpTo ==
  ASSUME NEW n \in Nat, NEW S, 0 \in S, \A i \in 0 .. n - 1 : i \in S => i + 1 \in S
  PROVE  0 .. n \subseteq S
<1> DEFINE T == {i \in Nat : i \in S \/ i > n}
<1>1. 0 \in T
  OBVIOUS
<1>2. \A i \in Nat : i \in T => i + 1 \in T
  OBVIOUS
<1> HIDE DEF T
<1>3. Nat \subseteq T
  BY <1>1, <1>2, AllOf
<1> QED
  BY <1>3 DEF T

\* What each number determines of the next, some function has at all of them.
Repeats(f, b, step) == f = [i \in Nat |-> IF i = 0 THEN b ELSE step[f[i - 1]]]

LEMMA RecursionExists ==
  ASSUME NEW b, NEW step
  PROVE  \E f : Repeats(f, b, step)
<1> DEFINE Upto(f, n) == f = [i \in 0 .. n |-> IF i = 0 THEN b ELSE step[f[i - 1]]]
<1>1. ASSUME NEW n \in Nat PROVE \E f : Upto(f, n)
  <2> DEFINE S == {k \in Nat : \E f : Upto(f, k)}
  <2>1. 0 \in S
    <3> Upto([i \in 0 .. 0 |-> b], 0)
      OBVIOUS
    <3> QED OBVIOUS
  <2>2. ASSUME NEW k \in Nat, k \in S PROVE k + 1 \in S
    <3>1. PICK f : Upto(f, k)
      BY <2>2
    <3> DEFINE h == [i \in 0 .. k + 1 |-> IF i = k + 1 THEN step[f[k]] ELSE f[i]]
    <3>2. \A i \in 0 .. k + 1 : h[i] = IF i = 0 THEN b ELSE step[h[i - 1]]
      BY <3>1
    <3>3. Upto(h, k + 1)
      BY <3>2
    <3>4. \E z : Upto(z, k + 1)
      <4> HIDE DEF Upto, h
      <4> QED BY <3>3
    <3> QED BY <3>4
  <2> HIDE DEF S
  <2>3. Nat \subseteq S
    BY <2>1, <2>2, AllOf
  <2> QED BY <2>3 DEF S
<1>2. ASSUME NEW n \in Nat, NEW k \in Nat, n <= k, NEW f, NEW h, Upto(f, n), Upto(h, k)
      PROVE  f[n] = h[n]
  <2> DEFINE S == {i \in Nat : i <= n => f[i] = h[i]}
  <2>1. 0 \in S
    BY <1>2
  <2>2. ASSUME NEW i \in Nat, i \in S PROVE i + 1 \in S
    BY <1>2, <2>2
  <2> HIDE DEF S
  <2>3. n \in S
    BY <2>1, <2>2, AllOf
  <2> QED BY <2>3 DEF S
<1> DEFINE part(n) == CHOOSE f : Upto(f, n)
           all == [i \in Nat |-> part(i)[i]]
<1>3. \A n \in Nat : Upto(part(n), n)
  <2> HIDE DEF Upto
  <2> QED BY <1>1
<1>4. ASSUME NEW i \in Nat PROVE all[i] = IF i = 0 THEN b ELSE step[all[i - 1]]
  <2>1. CASE i = 0
    <3>1. Upto(part(i), i)
      BY <1>3
    <3> HIDE DEF part
    <3> QED BY <2>1, <3>1
  <2>2. CASE i # 0
    <3>0. i - 1 \in Nat
      BY <2>2
    <3>1. Upto(part(i), i) /\ Upto(part(i - 1), i - 1)
      <4> HIDE DEF Upto, part
      <4> QED BY <1>3, <3>0
    <3> HIDE DEF part
    <3>2. part(i)[i] = step[part(i)[i - 1]]
      BY <3>0, <3>1, <2>2
    <3>3. part(i - 1)[i - 1] = part(i)[i - 1]
      <4> HIDE DEF Upto
      <4> QED BY <1>2, <3>0, <3>1
    <3> QED BY <3>0, <3>1, <3>2, <3>3, <2>2
  <2> QED BY <2>1, <2>2
<1> HIDE DEF all
<1>5. Repeats(all, b, step)
  BY <1>4 DEF all, Repeats
<1> QED
  BY <1>5
-----------------------------------------------------------------------------
\* The numbers that n bytes hold.
LEMMA CapacityFacts ==
  /\ \A n \in Nat : Capacity[n] \in Nat \ {0}
  /\ Capacity[0] = 1
  /\ \A n \in Nat : Capacity[n + 1] = 256 * Capacity[n]
<1> DEFINE step == [x \in Int |-> 256 * x]
<1> HIDE DEF step
<1>0. PICK f : Repeats(f, 1, step)
  BY RecursionExists
<1>1. f = [i \in Nat |-> IF i = 0 THEN 1 ELSE step[f[i - 1]]]
  BY <1>0 DEF Repeats
<1>2. \A i \in Nat : f[i] \in Nat \ {0}
  <2> DEFINE S == {i \in Nat : f[i] \in Nat \ {0}}
  <2>1. 0 \in S
    BY <1>1
  <2>2. ASSUME NEW i \in Nat, i \in S PROVE i + 1 \in S
    <3>1. f[i + 1] = step[f[i]] /\ f[i] \in Nat \ {0}
      BY <1>1, <2>2
    <3>2. step[f[i]] = 256 * f[i]
      BY <3>1 DEF step
    <3> QED BY <3>1, <3>2
  <2> HIDE DEF S
  <2>3. Nat \subseteq S
    BY <2>1, <2>2, AllOf
  <2> QED BY <2>3 DEF S
<1>3. \A i \in Nat : i # 0 => step[f[i - 1]] = 256 * f[i - 1]
  <2> TAKE i \in Nat
  <2> HAVE i # 0
  <2>1. i - 1 \in Nat
    OBVIOUS
  <2>2. f[i - 1] \in Int
    BY <1>2, <2>1
  <2> QED BY <2>2 DEF step
<1>4. f = [n \in Nat |-> IF n = 0 THEN 1 ELSE 256 * f[n - 1]]
  BY <1>1, <1>3
<1>5. Capacity = [n \in Nat |-> IF n = 0 THEN 1 ELSE 256 * Capacity[n - 1]]
  BY <1>4 DEF Capacity
<1>6. Capacity[0] = 1 /\ \A n \in Nat : Capacity[n + 1] = 256 * Capacity[n]
  BY <1>5
<1>7. \A n \in Nat : Capacity[n] \in Nat \ {0}
  <2> DEFINE S == {i \in Nat : Capacity[i] \in Nat \ {0}}
  <2>1. 0 \in S
    BY <1>6
  <2>2. ASSUME NEW i \in Nat, i \in S PROVE i + 1 \in S
    BY <1>6, <2>2
  <2> HIDE DEF S
  <2>3. Nat \subseteq S
    BY <2>1, <2>2, AllOf
  <2> QED BY <2>3 DEF S
<1> QED
  BY <1>6, <1>7

\* Half of the words are addresses.
LEMMA ModulusFacts ==
  /\ Modulus \in Nat /\ AddressSpace \in Nat /\ AddressSpace >= 128
  /\ Modulus = 2 * AddressSpace
<1>1. W - 1 \in Nat /\ Capacity[W - 1] \in Nat \ {0} /\ Capacity[W] = 256 * Capacity[W - 1]
  <2>1. W - 1 \in Nat /\ (W - 1) + 1 = W
    OBVIOUS
  <2> QED BY <2>1, CapacityFacts
<1>2. PICK k \in Nat \ {0} : Modulus = 256 * k
  BY <1>1 DEF Modulus
<1>3. AddressSpace = 128 * k
  BY <1>2 DEF AddressSpace
<1> QED
  BY <1>2, <1>3

LEMMA WrapFacts ==
  /\ \A v \in Int : Unsigned(v) \in 0 .. Modulus - 1
  /\ \A v \in Int : Wrap(Unsigned(v)) = Wrap(v)
  /\ \A v \in -AddressSpace .. AddressSpace - 1 : Wrap(v) = v
<1>1. PICK m \in Nat, h \in Nat : m = Modulus /\ h = AddressSpace /\ h >= 128 /\ m = 2 * h
  BY ModulusFacts
<1>2. \A v \in Int : v % m \in 0 .. m - 1 /\ (v % m) % m = v % m
  BY <1>1
<1>3. m \div 2 = h
  BY <1>1
<1>4. ASSUME NEW v \in Int, -h <= v, v < h PROVE Wrap(v) = v
  <2>1. CASE v >= 0
    <3>1. v % m = v
      BY <1>1, <2>1, <1>4
    <3> QED BY <3>1, <1>1, <1>3, <1>4 DEF Wrap, Unsigned, Signed
  <2>2. CASE v < 0
    <3>1. v % m = v + m
      BY <1>1, <2>2, <1>4
    <3> QED BY <3>1, <1>1, <1>3, <1>4, <2>2 DEF Wrap, Unsigned, Signed
  <2> QED BY <2>1, <2>2
<1>5. \A v \in Int : Unsigned(v) \in 0 .. Modulus - 1
  BY <1>1, <1>2 DEF Unsigned
<1>6. \A v \in Int : Wrap(Unsigned(v)) = Wrap(v)
  BY <1>1, <1>2 DEF Wrap, Unsigned
<1>7. \A v \in -AddressSpace .. AddressSpace - 1 : v \in Int /\ -h <= v /\ v < h
  BY <1>1
<1> QED
  BY <1>4, <1>5, <1>6, <1>7

\* Dividing by 256 p is dividing by p and then by 256.
LEMMA DivisionFacts ==
  ASSUME NEW u \in Nat, NEW p \in Nat \ {0}
  PROVE  /\ u \div p \in Nat
         /\ 256 * (u \div (256 * p)) + ((u \div p) % 256) = u \div p
<1> DEFINE q == u \div p
           s == q \div 256
<1>1. q \in Nat /\ u = q * p + (u - q * p) /\ 0 <= u - q * p /\ u - q * p < p
  OBVIOUS
<1>2. s \in Nat /\ q = 256 * s + (q % 256) /\ (q % 256) \in 0 .. 255
  BY <1>1
<1>3. u \div (256 * p) = s
  OBVIOUS
<1> QED
  BY <1>1, <1>2, <1>3

\* What reading a word computes is any numbers related as the loop relates them.
LEMMA ReadFacts ==
  ASSUME NEW bytes, NEW part \in [0 .. W -> Int],
         part[0] = 0, \A n \in 1 .. W : part[n] = 256 * part[n - 1] + bytes[n]
  PROVE  CodeWordValue(bytes) = Wrap(part[W])
<1> DEFINE Reads(f) == f = [n \in 0 .. W |-> IF n = 0 THEN 0 ELSE 256 * f[n - 1] + bytes[n]]
           read == CHOOSE f : Reads(f)
<1>1. Reads(part)
  OBVIOUS
<1>2. Reads(read)
  <2> HIDE DEF Reads
  <2> QED BY <1>1
<1>3. CodeWordValue(bytes) = Wrap(read[W])
  BY DEF CodeWordValue
<1> HIDE DEF read
<1>4. \A n \in 0 .. W - 1 : read[n] = part[n] => read[n + 1] = part[n + 1]
  BY <1>2
<1>5. read[0] = part[0]
  BY <1>2
<1> DEFINE S == {n \in 0 .. W : read[n] = part[n]}
<1>6. 0 \in S /\ \A n \in 0 .. W - 1 : n \in S => n + 1 \in S
  BY <1>4, <1>5
<1> HIDE DEF S
<1>7. 0 .. W \subseteq S
  BY <1>6, AllUpTo
<1>8. read[W] = part[W]
  BY <1>7 DEF S
<1> QED
  BY <1>3, <1>8

\* wr_cword and rd_cword are inverse to each other on the words there are.
THEOREM CodeWordRoundTrip ==
  /\ \A v \in Int : CodeWordValue(CodeWord(v)) = Wrap(v)
  /\ \A v \in -AddressSpace .. AddressSpace - 1 : CodeWordValue(CodeWord(v)) = v
<1>1. ASSUME NEW v \in Int PROVE CodeWordValue(CodeWord(v)) = Wrap(v)
  <2>1. PICK u \in Nat : u = Unsigned(v) /\ u < Modulus /\ Wrap(u) = Wrap(v)
    BY WrapFacts, ModulusFacts
  <2> DEFINE part == [n \in 0 .. W |-> u \div Capacity[W - n]]
             word == CodeWord(v)
  <2>2. \A n \in 0 .. W : W - n \in Nat /\ Capacity[W - n] \in Nat \ {0}
    BY CapacityFacts
  <2>3. part \in [0 .. W -> Int]
    BY <2>2
  <2>4. part[0] = 0
    BY <2>1, ModulusFacts DEF Modulus
  <2>5. ASSUME NEW n \in 1 .. W PROVE part[n] = 256 * part[n - 1] + word[n]
    <3>1. PICK p \in Nat \ {0} : p = Capacity[W - n]
      BY <2>2
    <3>2. Capacity[W - (n - 1)] = 256 * p
      <4>1. W - (n - 1) = (W - n) + 1
        OBVIOUS
      <4> QED BY <2>2, <3>1, <4>1, CapacityFacts
    <3>3. part[n] = u \div p /\ part[n - 1] = u \div (256 * p)
      BY <3>1, <3>2
    <3>4. word[n] = (u \div p) % 256
      BY <2>1, <3>1 DEF CodeWord
    <3>5. 256 * (u \div (256 * p)) + ((u \div p) % 256) = u \div p
      BY DivisionFacts
    <3> HIDE DEF part, word
    <3> QED BY <3>3, <3>4, <3>5
  <2> HIDE DEF word
  <2>6. CodeWordValue(word) = Wrap(part[W])
    <3> HIDE DEF part
    <3> QED BY <2>3, <2>4, <2>5, ReadFacts
  <2>7. part[W] = u
    <3>1. Capacity[W - W] = 1
      BY CapacityFacts
    <3> QED BY <3>1
  <2> QED BY <2>1, <2>6, <2>7 DEF word
<1> QED
  BY <1>1, WrapFacts, ModulusFacts

LEMMA CodeWordType ==
  ASSUME NEW v \in Int
  PROVE  CodeWord(v) \in Seq(Byte) /\ Len(CodeWord(v)) = W
<1>1. PICK u \in Nat : u = Unsigned(v)
  BY WrapFacts, ModulusFacts
<1>2. \A i \in 1 .. W : (u \div Capacity[W - i]) % 256 \in Byte
  <2> TAKE i \in 1 .. W
  <2>1. PICK p \in Nat \ {0} : p = Capacity[W - i]
    BY CapacityFacts
  <2>2. u \div p \in Nat
    BY DivisionFacts
  <2> QED BY <2>1, <2>2 DEF Byte
<1>3. CodeWord(v) \in [1 .. W -> Byte]
  BY <1>1, <1>2 DEF CodeWord
<1> QED
  BY <1>3
-----------------------------------------------------------------------------
\* A function whose value at each number is determined by the number and the value
\* before.
Counts(f, S, b, step) ==
  /\ f \in [Nat -> S]
  /\ f[0] = b /\ \A i \in Nat : f[i + 1] = step[<<i + 1, f[i]>>]

LEMMA IndexedRecursion ==
  ASSUME NEW S, NEW b, NEW step, b \in S, step \in [Nat \X S -> S]
  PROVE  \E f : Counts(f, S, b, step)
<1> DEFINE pair == [s \in Nat \X S |-> <<s[1] + 1, step[<<s[1] + 1, s[2]>>]>>]
<1>1. \A s \in Nat \X S : pair[s] = <<s[1] + 1, step[<<s[1] + 1, s[2]>>]>> /\ pair[s] \in Nat \X S
  OBVIOUS
<1> HIDE DEF pair
<1>2. PICK h : Repeats(h, <<0, b>>, pair)
  BY RecursionExists
<1>3. h[0] = <<0, b>> /\ \A i \in Nat : h[i + 1] = pair[h[i]]
  <2>1. h = [i \in Nat |-> IF i = 0 THEN <<0, b>> ELSE pair[h[i - 1]]]
    BY <1>2 DEF Repeats
  <2> QED BY <2>1
<1>4. \A i \in Nat : h[i] \in Nat \X S /\ h[i][1] = i
  <2> DEFINE T == {i \in Nat : h[i] \in Nat \X S /\ h[i][1] = i}
  <2>1. 0 \in T
    BY <1>3
  <2>2. ASSUME NEW i \in Nat, i \in T PROVE i + 1 \in T
    <3>1. h[i + 1] = pair[h[i]] /\ h[i] \in Nat \X S /\ h[i][1] = i
      BY <1>3, <2>2
    <3>2. h[i + 1] = <<i + 1, step[<<i + 1, h[i][2]>>]>> /\ h[i + 1] \in Nat \X S
      BY <1>1, <3>1
    <3> QED BY <3>2
  <2> HIDE DEF T
  <2>3. Nat \subseteq T
    BY <2>1, <2>2, AllOf
  <2> QED BY <2>3 DEF T
<1> DEFINE f == [i \in Nat |-> h[i][2]]
<1>5. f \in [Nat -> S]
  BY <1>4
<1>6. f[0] = b
  BY <1>3
<1>7. \A i \in Nat : f[i + 1] = step[<<i + 1, f[i]>>]
  <2> TAKE i \in Nat
  <2>1. h[i + 1] = <<h[i][1] + 1, step[<<h[i][1] + 1, h[i][2]>>]>>
    BY <1>1, <1>3, <1>4
  <2>2. h[i][1] = i
    BY <1>4
  <2> QED BY <2>1, <2>2
<1> HIDE DEF f
<1> QED
  BY <1>5, <1>6, <1>7 DEF Counts

LEMMA SignedFacts == \A u \in 0 .. Modulus - 1 : Signed(u) \in VMVALUE
<1>1. PICK m \in Nat, h \in Nat : m = Modulus /\ h = AddressSpace /\ h >= 128 /\ m = 2 * h
  BY ModulusFacts
<1>2. m \div 2 = h
  BY <1>1
<1> QED
  BY <1>1, <1>2 DEF Signed, VMVALUE

LEMMA WrapIsWord == \A v \in Int : Wrap(v) \in VMVALUE
  BY WrapFacts, SignedFacts DEF Wrap

\* Any bytes that are read as a word are a word.
LEMMA ReadIsWord ==
  ASSUME NEW bytes, \A n \in 1 .. W : bytes[n] \in Int
  PROVE  CodeWordValue(bytes) \in VMVALUE
<1> DEFINE step == [s \in Nat \X Int |-> IF s[1] \in 1 .. W THEN 256 * s[2] + bytes[s[1]] ELSE 0]
<1>1. step \in [Nat \X Int -> Int]
  OBVIOUS
<1>2. \A n \in 1 .. W, x \in Int : step[<<n, x>>] = 256 * x + bytes[n]
  OBVIOUS
<1> HIDE DEF step
<1>3. PICK f : Counts(f, Int, 0, step)
  <2>1. 0 \in Int
    OBVIOUS
  <2> QED BY <1>1, <2>1, IndexedRecursion
<1> DEFINE part == [n \in 0 .. W |-> f[n]]
<1>4. part \in [0 .. W -> Int] /\ part[0] = 0 /\ part[W] = f[W]
  BY <1>3 DEF Counts
<1>5. ASSUME NEW n \in 1 .. W PROVE part[n] = 256 * part[n - 1] + bytes[n]
  <2>1. n - 1 \in Nat /\ (n - 1) + 1 = n /\ n - 1 \in 0 .. W /\ n \in 0 .. W
    OBVIOUS
  <2>2. f[n] = step[<<n, f[n - 1]>>] /\ f[n - 1] \in Int
    BY <1>3, <2>1 DEF Counts
  <2> QED BY <1>2, <2>1, <2>2
<1> HIDE DEF part
<1>6. CodeWordValue(bytes) = Wrap(part[W])
  BY <1>4, <1>5, ReadFacts
<1>7. part[W] \in Int
  BY <1>4
<1> QED
  BY <1>6, <1>7, WrapIsWord
-----------------------------------------------------------------------------
LEMMA PowerFacts ==
  /\ Power[0] = 1
  /\ \A n \in Nat : Power[n] \in Nat \ {0} /\ Power[n + 1] = 2 * Power[n]
<1> DEFINE step == [s \in Nat \X Int |-> 2 * s[2]]
<1>1. step \in [Nat \X Int -> Int] /\ \A i \in Nat, x \in Int : step[<<i, x>>] = 2 * x
  OBVIOUS
<1> HIDE DEF step
<1>2. PICK f : Counts(f, Int, 1, step)
  <2>1. 1 \in Int
    OBVIOUS
  <2> QED BY <1>1, <2>1, IndexedRecursion
<1>3. \A i \in Nat : f[i + 1] = 2 * f[i]
  <2> TAKE i \in Nat
  <2>1. i + 1 \in Nat /\ f[i] \in Int
    BY <1>2 DEF Counts
  <2> QED BY <1>1, <1>2, <2>1 DEF Counts
<1>4. f = [n \in Nat |-> IF n = 0 THEN 1 ELSE 2 * f[n - 1]]
  <2>1. \A n \in Nat : f[n] = IF n = 0 THEN 1 ELSE 2 * f[n - 1]
    <3> TAKE n \in Nat
    <3>1. CASE n # 0
      <4>1. n - 1 \in Nat /\ (n - 1) + 1 = n
        BY <3>1
      <4> QED BY <1>3, <3>1, <4>1
    <3> QED BY <1>2, <3>1 DEF Counts
  <2> QED BY <1>2, <2>1 DEF Counts
<1>5. Power = [n \in Nat |-> IF n = 0 THEN 1 ELSE 2 * Power[n - 1]]
  BY <1>4 DEF Power
<1>6. Power[0] = 1 /\ \A n \in Nat : Power[n + 1] = 2 * Power[n]
  BY <1>5
<1> DEFINE S == {i \in Nat : Power[i] \in Nat \ {0}}
<1>7. 0 \in S /\ \A i \in Nat : i \in S => i + 1 \in S
  BY <1>6
<1> HIDE DEF S
<1>8. Nat \subseteq S
  BY <1>7, AllOf
<1> QED
  BY <1>6, <1>8 DEF S

\* Eight bits are a byte.
LEMMA ModulusIsPower == Modulus = Power[8 * W]
<1> DEFINE S == {n \in Nat : Power[8 * n] = Capacity[n]}
<1>1. 0 \in S
  <2>1. 8 * 0 = 0
    OBVIOUS
  <2> QED BY <2>1, PowerFacts, CapacityFacts
<1>2. ASSUME NEW n \in Nat, n \in S PROVE n + 1 \in S
  <2>1. PICK k \in Nat : k = 8 * n
    OBVIOUS
  <2>2. PICK p \in Nat : p = Power[k]
    BY PowerFacts
  <2>3. /\ Power[k + 1] = 2 * p /\ Power[k + 2] = 4 * p /\ Power[k + 3] = 8 * p /\ Power[k + 4] = 16 * p
    <3>1. k + 1 \in Nat /\ k + 2 = (k + 1) + 1 /\ k + 2 \in Nat /\ k + 3 = (k + 2) + 1 /\ k + 3 \in Nat
          /\ k + 4 = (k + 3) + 1
      OBVIOUS
    <3>2. Power[k + 1] = 2 * p
      BY <2>2, PowerFacts
    <3>3. Power[k + 2] = 4 * p
      BY <3>1, <3>2, PowerFacts
    <3>4. Power[k + 3] = 8 * p
      BY <3>1, <3>3, PowerFacts
    <3>5. Power[k + 4] = 16 * p
      BY <3>1, <3>4, PowerFacts
    <3> QED BY <3>2, <3>3, <3>4, <3>5
  <2>4. Power[k + 8] = 256 * p
    <3>1. k + 4 \in Nat /\ k + 5 = (k + 4) + 1 /\ k + 5 \in Nat /\ k + 6 = (k + 5) + 1 /\ k + 6 \in Nat
          /\ k + 7 = (k + 6) + 1 /\ k + 7 \in Nat /\ k + 8 = (k + 7) + 1
      OBVIOUS
    <3>2. Power[k + 5] = 32 * p
      BY <2>3, <3>1, PowerFacts
    <3>3. Power[k + 6] = 64 * p
      BY <3>1, <3>2, PowerFacts
    <3>4. Power[k + 7] = 128 * p
      BY <3>1, <3>3, PowerFacts
    <3> QED BY <3>1, <3>4, PowerFacts
  <2>5. 8 * (n + 1) = k + 8
    BY <2>1
  <2>6. Capacity[n + 1] = 256 * Capacity[n]
    BY CapacityFacts
  <2>7. Capacity[n] = p
    BY <1>2, <2>1, <2>2
  <2>8. Power[8 * (n + 1)] = Capacity[n + 1]
    BY <2>4, <2>5, <2>6, <2>7
  <2> QED BY <2>8
<1> HIDE DEF S
<1>3. W \in S
  BY <1>1, <1>2, AllOf
<1> QED
  BY <1>3 DEF S, Modulus

\* A bit operator of two words is a word.
LEMMA BitsFacts ==
  ASSUME NEW l, NEW r, NEW pairs
  PROVE  Bits(l, r, pairs) \in VMVALUE
<1> DEFINE bit(n) == Bool(<<Bit(l, 8 * W - n), Bit(r, 8 * W - n)>> \in pairs)
           step == [s \in Nat \X Int |-> 2 * s[2] + bit(s[1])]
<1>1. \A n : bit(n) \in {0, 1}
  BY DEF Bool
<1>2. step \in [Nat \X Int -> Int] /\ \A i \in Nat, x \in Int : step[<<i, x>>] = 2 * x + bit(i)
  <2> HIDE DEF bit
  <2> QED BY <1>1
<1> HIDE DEF step
<1>3. PICK f : Counts(f, Int, 0, step)
  <2>1. 0 \in Int
    OBVIOUS
  <2> QED BY <1>2, <2>1, IndexedRecursion
<1>4. \A i \in Nat : f[i + 1] = 2 * f[i] + bit(i + 1)
  <2> HIDE DEF bit
  <2> TAKE i \in Nat
  <2>1. i + 1 \in Nat /\ f[i] \in Int
    BY <1>3 DEF Counts
  <2> QED BY <1>2, <1>3, <2>1 DEF Counts
<1> DEFINE Reads(h) == h = [n \in 0 .. 8 * W |->
                              IF n = 0 THEN 0
                              ELSE 2 * h[n - 1] + Bool(<<Bit(l, 8 * W - n), Bit(r, 8 * W - n)>> \in pairs)]
           upper == CHOOSE h : Reads(h)
           part  == [n \in 0 .. 8 * W |-> f[n]]
<1>5. Reads(part)
  <2>1. \A n \in 0 .. 8 * W : part[n] = IF n = 0 THEN 0 ELSE 2 * part[n - 1] + bit(n)
    <3> HIDE DEF bit
    <3> TAKE n \in 0 .. 8 * W
    <3>1. CASE n # 0
      <4>1. n - 1 \in Nat /\ (n - 1) + 1 = n /\ n - 1 \in 0 .. 8 * W
        BY <3>1
      <4>2. f[n] = 2 * f[n - 1] + bit(n)
        BY <1>4, <4>1
      <4> QED BY <3>1, <4>1, <4>2
    <3> QED BY <1>3, <3>1 DEF Counts
  <2> QED BY <2>1
<1>6. Reads(upper)
  <2> HIDE DEF Reads, part
  <2> QED BY <1>5
<1>7. Bits(l, r, pairs) = Signed(upper[8 * W])
  BY DEF Bits
<1>8. \A n \in 0 .. 8 * W : upper[n] = IF n = 0 THEN 0 ELSE 2 * upper[n - 1] + bit(n)
  <2> HIDE DEF upper
  <2> QED BY <1>6
<1> HIDE DEF upper, part, bit
<1> DEFINE S == {n \in 0 .. 8 * W : upper[n] \in 0 .. Power[n] - 1}
<1>9. 0 \in S
  BY <1>8, PowerFacts
<1>10. ASSUME NEW n \in 0 .. 8 * W - 1, n \in S PROVE n + 1 \in S
  <2>1. PICK p \in Nat : p = Power[n] /\ Power[n + 1] = 2 * p
    BY PowerFacts
  <2>2. PICK u \in 0 .. p - 1 : u = upper[n]
    BY <1>10, <2>1
  <2>3. upper[n + 1] = 2 * u + bit(n + 1)
    BY <1>8, <2>2
  <2>4. upper[n + 1] \in 0 .. 2 * p - 1
    BY <1>1, <2>2, <2>3
  <2> QED BY <2>1, <2>4
<1> HIDE DEF S
<1>11. 8 * W \in S
  <2>1. 8 * W \in Nat
    OBVIOUS
  <2> QED BY <1>9, <1>10, <2>1, AllUpTo
<1> QED
  BY <1>7, <1>11, ModulusIsPower, SignedFacts DEF S
-----------------------------------------------------------------------------
\* Bytes in memory.
LEMMA BytesFacts ==
  ASSUME NEW mem \in Seq(Byte), NEW a \in Nat, a + W <= Len(mem)
  PROVE  Bytes(mem, a, W) = [i \in 1 .. W |-> mem[a + i]]
<1>1. Len(mem) \in Nat
  OBVIOUS
<1> QED
  BY <1>1 DEF Bytes

LEMMA OverwriteFacts ==
  ASSUME NEW mem \in Seq(Byte), NEW a \in Nat, NEW w \in Seq(Byte), NEW n \in Nat,
         Len(w) = n, a + n <= Len(mem)
  PROVE  /\ Overwrite(mem, a, w) \in Seq(Byte)
         /\ Len(Overwrite(mem, a, w)) = Len(mem)
         /\ \A i \in 1 .. Len(mem) :
              Overwrite(mem, a, w)[i] = IF i \in a + 1 .. a + n THEN w[i - a] ELSE mem[i]
<1> DEFINE before == SubSeq(mem, 1, a)
           rest   == SubSeq(mem, a + n + 1, Len(mem))
<1>1. Len(mem) \in Nat
  OBVIOUS
<1>2. before \in Seq(Byte) /\ Len(before) = a /\ \A i \in 1 .. a : before[i] = mem[i]
  BY <1>1
<1>3. /\ rest \in Seq(Byte) /\ Len(rest) = Len(mem) - (a + n)
      /\ \A i \in 1 .. Len(mem) - (a + n) : rest[i] = mem[a + n + i]
  BY <1>1
<1>4. Overwrite(mem, a, w) = (before \o w) \o rest
  BY DEF Overwrite
<1> HIDE DEF before, rest
<1>5. /\ before \o w \in Seq(Byte) /\ Len(before \o w) = a + n
      /\ \A i \in 1 .. a + n : (before \o w)[i] = IF i <= a THEN mem[i] ELSE w[i - a]
  BY <1>2
<1> DEFINE start == before \o w
<1> HIDE DEF start
<1>6. start \in Seq(Byte) /\ Len(start) = a + n
  BY <1>5 DEF start
<1>7. Len(start) + Len(rest) = Len(mem)
  BY <1>1, <1>3, <1>6
<1>8. /\ start \o rest \in Seq(Byte) /\ Len(start \o rest) = Len(mem)
      /\ \A i \in 1 .. Len(mem) : (start \o rest)[i] = IF i <= a + n THEN start[i] ELSE rest[i - (a + n)]
  <2>1. start \o rest \in Seq(Byte)
    BY <1>3, <1>6
  <2>2. Len(start \o rest) = Len(start) + Len(rest)
    <3>1. rest \in Seq(Byte) /\ start \in Seq(Byte)
      BY <1>3, <1>6
    <3> QED BY <3>1, ConcatProperties, Zenon
  <2>3. \A i \in 1 .. Len(start) + Len(rest) :
          (start \o rest)[i] = IF i <= Len(start) THEN start[i] ELSE rest[i - Len(start)]
    BY <1>3, <1>6
  <2> QED BY <1>6, <1>7, <2>1, <2>2, <2>3
<1> QED
  BY <1>1, <1>3, <1>4, <1>5, <1>8 DEF start
-----------------------------------------------------------------------------
\* Division by a magnitude.
LEMMA QuotientFacts ==
  ASSUME NEW l \in Int, NEW r \in Int, r # 0
  PROVE  /\ Quotient(l, r) \in Int
         /\ Remainder(l, r) < Magnitude(r) /\ -Magnitude(r) < Remainder(l, r)
<1>1. PICK a \in Nat, b \in Nat \ {0} : a = Magnitude(l) /\ b = Magnitude(r)
  BY DEF Magnitude
<1>2. PICK q \in Nat, m \in Nat : q = a \div b /\ a = b * q + m /\ m < b
  <2>1. a \div b \in Nat /\ (a % b) \in 0 .. b - 1 /\ a = b * (a \div b) + (a % b)
    OBVIOUS
  <2> QED BY <2>1
<1>3. PICK k \in Int : k = b * q /\ a = k + m
  BY <1>2
<1>4. Quotient(l, r) = IF (l < 0) # (r < 0) THEN -q ELSE q
  BY <1>1, <1>2 DEF Quotient
<1>5. r = (IF r < 0 THEN -b ELSE b) /\ l = IF l < 0 THEN -a ELSE a
  BY <1>1 DEF Magnitude
<1>6. (-b) * q = -k /\ b * (-q) = -k /\ (-b) * (-q) = k
  BY <1>3
<1>7. Remainder(l, r) = IF l < 0 THEN -m ELSE m
  <2>1. CASE l < 0 /\ r < 0
    <3>1. r * Quotient(l, r) = -k
      BY <1>4, <1>5, <1>6, <2>1
    <3> QED BY <1>3, <1>5, <2>1, <3>1 DEF Remainder
  <2>2. CASE l < 0 /\ ~(r < 0)
    <3>1. r * Quotient(l, r) = -k
      BY <1>4, <1>5, <1>6, <2>2
    <3> QED BY <1>3, <1>5, <2>2, <3>1 DEF Remainder
  <2>3. CASE ~(l < 0) /\ r < 0
    <3>1. r * Quotient(l, r) = k
      BY <1>4, <1>5, <1>6, <2>3
    <3> QED BY <1>3, <1>5, <2>3, <3>1 DEF Remainder
  <2>4. CASE ~(l < 0) /\ ~(r < 0)
    <3>1. r * Quotient(l, r) = k
      BY <1>3, <1>4, <1>5, <2>4
    <3> QED BY <1>3, <1>5, <2>4, <3>1 DEF Remainder
  <2> QED BY <2>1, <2>2, <2>3, <2>4
<1>8. Quotient(l, r) \in Int
  BY <1>4
<1> QED
  BY <1>1, <1>2, <1>7, <1>8

\* Dividing by a positive number leads towards zero, or to -1.
LEMMA ShiftFacts ==
  ASSUME NEW v \in Int, NEW p \in Nat \ {0}
  PROVE  v \div p \in Int /\ IF v < 0 THEN v <= v \div p /\ v \div p < 0 ELSE 0 <= v \div p /\ v \div p <= v
<1>1. PICK q \in Int, m \in 0 .. p - 1 : q = v \div p /\ v = q * p + m
  <2>1. v \div p \in Int /\ (v % p) \in 0 .. p - 1 /\ v = (v \div p) * p + (v % p)
    OBVIOUS
  <2> QED BY <2>1
<1>2. CASE v < 0
  <2>1. q < 0
    <3>1. q >= 0 => q * p >= 0
      OBVIOUS
    <3> QED BY <1>1, <1>2, <3>1
  <2>2. v <= q
    <3>1. q * p <= q * 1
      BY <2>1
    <3>2. v < (q + 1) * p
      BY <1>1
    <3>3. (q + 1) * p <= q + 1
      BY <2>1
    <3> QED BY <1>1, <3>2, <3>3
  <2> QED BY <1>1, <1>2, <2>1, <2>2
<1>3. CASE ~(v < 0)
  <2>1. q >= 0
    <3>1. q < 0 => (q + 1) * p <= 0
      OBVIOUS
    <3>2. v < (q + 1) * p
      BY <1>1
    <3> QED BY <1>1, <1>3, <3>1, <3>2
  <2>2. q <= q * p
    BY <2>1
  <2> QED BY <1>1, <1>3, <2>1, <2>2
<1> QED
  BY <1>2, <1>3

\* The word is the whole of the machine's arithmetic: what an opcode computes from
\* words, where C defines it, is a word.
LEMMA UnaryIsWord ==
  ASSUME NEW op \in UnaryOps, NEW v \in VMVALUE
  PROVE  UnaryOp(op, v) \in VMVALUE
<1>1. PICK h \in Nat : h = AddressSpace /\ h >= 128
  BY ModulusFacts
<1>2. v \in Int /\ -v - 1 \in VMVALUE /\ 0 \in VMVALUE /\ 1 \in VMVALUE
  BY <1>1 DEF VMVALUE
<1>3. Wrap(-v) \in VMVALUE /\ Bool(v = 0) \in VMVALUE
  BY <1>2, WrapIsWord DEF Bool
<1> QED
  BY <1>2, <1>3 DEF UnaryOp, UnaryOps, Op

LEMMA BinaryIsWord ==
  ASSUME NEW op \in BinaryOps, NEW l \in VMVALUE, NEW r \in VMVALUE, Defined(op, l, r)
  PROVE  BinaryOp(op, l, r) \in VMVALUE
<1>1. PICK h \in Nat : h = AddressSpace /\ h >= 128
  BY ModulusFacts
<1>2. /\ l \in Int /\ r \in Int /\ 0 \in VMVALUE /\ 1 \in VMVALUE
      /\ \A x \in Int : x \in VMVALUE <=> -h <= x /\ x < h
  BY <1>1 DEF VMVALUE
<1>3. \A b : Bool(b) \in VMVALUE
  BY <1>2 DEF Bool
<1>4. Wrap(l + r) \in VMVALUE /\ Wrap(l - r) \in VMVALUE /\ Wrap(l * r) \in VMVALUE
  BY <1>2, WrapIsWord
<1>5. r # 0 => Wrap(Quotient(l, r)) \in VMVALUE /\ Remainder(l, r) \in VMVALUE
  <2> SUFFICES ASSUME r # 0
               PROVE  Wrap(Quotient(l, r)) \in VMVALUE /\ Remainder(l, r) \in VMVALUE
    OBVIOUS
  <2>1. PICK m \in Int : m = Remainder(l, r) /\ m < Magnitude(r) /\ -Magnitude(r) < m
    <3>1. Remainder(l, r) \in Int
      BY <1>2, QuotientFacts DEF Remainder
    <3> QED BY <1>2, <3>1, QuotientFacts
  <2>2. -h <= m /\ m < h
    BY <1>2, <2>1 DEF Magnitude
  <2>3. Quotient(l, r) \in Int
    BY <1>2, QuotientFacts
  <2> QED BY <1>2, <2>1, <2>2, <2>3, WrapIsWord
<1>6. r \in Nat => Wrap(l * Power[r]) \in VMVALUE /\ l \div Power[r] \in VMVALUE
  <2> SUFFICES ASSUME r \in Nat
               PROVE  Wrap(l * Power[r]) \in VMVALUE /\ l \div Power[r] \in VMVALUE
    OBVIOUS
  <2>1. PICK p \in Nat \ {0} : p = Power[r]
    BY PowerFacts
  <2>2. PICK q \in Int : q = l \div p /\ IF l < 0 THEN l <= q /\ q < 0 ELSE 0 <= q /\ q <= l
    BY <1>2, ShiftFacts
  <2>3. -h <= q /\ q < h
    BY <1>2, <2>2
  <2>4. l * p \in Int
    BY <1>2
  <2> QED BY <1>2, <2>1, <2>2, <2>3, <2>4, WrapIsWord
<1>7. /\ op \in {Op.DIV, Op.REM} => r # 0
      /\ op \in {Op.SHL, Op.SHR} => r \in Nat
  BY DEF Defined
<1>8. op \in {Op.ADD, Op.SUB, Op.MUL, Op.DIV, Op.REM, Op.BAND, Op.BOR, Op.BXOR, Op.SHL, Op.SHR,
             Op.LT, Op.LE, Op.EQ, Op.NE, Op.GE, Op.GT}
  BY DEF BinaryOps, Op
<1>9. CASE op \in {Op.ADD, Op.SUB, Op.MUL, Op.DIV, Op.REM}
  BY <1>4, <1>5, <1>7, <1>9 DEF BinaryOp, Op
<1>10. CASE op \in {Op.BAND, Op.BOR, Op.BXOR}
  BY <1>10, BitsFacts DEF BinaryOp, Op
<1>11. CASE op \in {Op.SHL, Op.SHR}
  BY <1>6, <1>7, <1>11 DEF BinaryOp, Op
<1>12. CASE op \in {Op.LT, Op.LE, Op.EQ, Op.NE, Op.GE, Op.GT}
  BY <1>3, <1>12 DEF BinaryOp, Op
<1> QED
  BY <1>8, <1>9, <1>10, <1>11, <1>12
=============================================================================
