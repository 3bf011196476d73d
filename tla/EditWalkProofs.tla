---------------------------- MODULE EditWalkProofs ----------------------------
(***************************************************************************)
(* Lemmas about the cells of the edit buffer: what a walk over the lines     *)
(* finds in a memory that holds them, and what moving the lines does to one. *)
(***************************************************************************)
EXTENDS EditBuffer, FiniteSetTheorems, SequenceTheorems, TLAPS

LEMMA LeastElement ==
  ASSUME NEW S, S \subseteq Nat, S # {}
  PROVE  \E x \in S : \A y \in S : x <= y
<1> DEFINE R == OpToRel(<, Nat)
<1>1. IsWellFoundedOn(R, Nat)
  BY NatLessThanWellFounded
<1>2. R = {ss \in Nat \X Nat : ss[1] < ss[2]}
  BY DEF OpToRel
<1> HIDE DEF R
<1>3. PICK x \in S : \A y \in S : <<y, x>> \notin R
  BY <1>1, WFMin
<1>4. \A y \in S : ~(y < x)
  BY <1>2, <1>3
<1>5. \A y \in S : y \in Nat /\ x \in Nat
  OBVIOUS
<1> QED
  BY <1>4, <1>5

\* The natural numbers below which something holds are all of them when each step keeps it.
LEMMA AllOf ==
  ASSUME NEW S, 0 \in S, \A i \in Nat : i \in S => i + 1 \in S
  PROVE  Nat \subseteq S
<1> DEFINE Bad == {i \in Nat : i \notin S}
<1> SUFFICES ASSUME Bad # {} PROVE FALSE
  OBVIOUS
<1>1. PICK x \in Bad : \A y \in Bad : x <= y
  BY LeastElement
<1>2. x \in Nat \ {0} /\ x - 1 \in Nat /\ x - 1 \notin Bad
  BY <1>1
<1>3. x - 1 \in S
  BY <1>2
<1> QED
  BY <1>2, <1>3

LEMMA RoundUpFacts ==
  ASSUME NEW k \in Nat
  PROVE  RoundUp(k) \in Nat /\ RoundUp(k) >= k
<1>1. Align \in Nat /\ Align > 0
  BY EditAssumption
<1>2. \A x \in Nat : \E q \in Nat : (x \div Align) = q /\ q * Align <= x /\ x < q * Align + Align
  BY <1>1
<1>3. PICK q \in Nat : (k + Align - 1) \div Align = q /\ q * Align <= k + Align - 1 /\ k + Align - 1 < q * Align + Align
  BY <1>1, <1>2
<1>4. q * Align \in Nat
  BY <1>1
<1> QED
  BY <1>1, <1>3, <1>4 DEF RoundUp

LEMMA TextFacts ==
  ASSUME NEW k \in Nat, NEW t \in TextsUpTo(k)
  PROVE  /\ t \in Seq(Chars \cup {NL})
         /\ Len(t) \in 1 .. k
         /\ \A i \in 1 .. Len(t) : t[i] # NUL
<1>1. PICK i \in 1 .. k : t \in [1 .. i -> Chars \cup {NL}]
  BY DEF TextsUpTo
<1>2. NUL \notin Chars \cup {NL}
  BY EditAssumption DEF NUL, NL
<1>3. t \in Seq(Chars \cup {NL}) /\ Len(t) = i
  BY <1>1
<1> QED
  BY <1>1, <1>2, <1>3

LEMMA NewLengthFacts ==
  ASSUME NEW k \in Nat, NEW t \in TextsUpTo(k)
  PROVE  /\ NewLength(t) \in Nat
         /\ NewLength(t) >= LineSize + Len(t)
         /\ NewLength(t) >= LineSize
         /\ NewLength(t) > 3
<1>1. LineSize \in Nat /\ LineSize >= 3
  BY EditAssumption
<1>2. Len(t) \in Nat /\ Len(t) >= 1
  BY TextFacts
<1>3. PICK size \in Nat : size = LineSize + Len(t)
  BY <1>1, <1>2
<1>4. RoundUp(size) \in Nat /\ RoundUp(size) >= size
  BY RoundUpFacts
<1>5. NewLength(t) = RoundUp(size)
  BY <1>3 DEF NewLength
<1> QED
  BY <1>1, <1>2, <1>3, <1>4, <1>5
-----------------------------------------------------------------------------
\* Repeating a step is what the recursion says it is: such a function exists.
LEMMA RepeatedDef ==
  ASSUME NEW g, NEW b
  PROVE  Repeated(g, b) = [i \in Nat |-> IF i = 0 THEN b ELSE g[Repeated(g, b)[i - 1]]]
<1> DEFINE Upto(f, n) == f = [i \in 0 .. n |-> IF i = 0 THEN b ELSE g[f[i - 1]]]
<1>1. ASSUME NEW n \in Nat PROVE \E f : Upto(f, n)
  <2> DEFINE S == {k \in Nat : \E f : Upto(f, k)}
  <2>1. 0 \in S
    <3> Upto([i \in 0 .. 0 |-> b], 0)
      OBVIOUS
    <3> QED OBVIOUS
  <2>2. ASSUME NEW k \in Nat, k \in S PROVE k + 1 \in S
    <3>1. PICK f : Upto(f, k)
      BY <2>2
    <3> DEFINE h == [i \in 0 .. k + 1 |-> IF i = k + 1 THEN g[f[k]] ELSE f[i]]
    <3>2. \A i \in 0 .. k + 1 : h[i] = IF i = 0 THEN b ELSE g[h[i - 1]]
      BY <3>1
    <3>3. Upto(h, k + 1)
      BY <3>2
    <3>4. \E z : Upto(z, k + 1)
      <4> HIDE DEF Upto, h
      <4> QED BY <3>3
    <3> QED BY <3>4
  <2> HIDE DEF S
  <2>3. Nat \subseteq S
    BY <2>1, <2>2, AllOf
  <2> QED BY <2>3 DEF S
<1>2. ASSUME NEW n \in Nat, NEW k \in Nat, n <= k, NEW f, NEW h, Upto(f, n), Upto(h, k)
      PROVE  f[n] = h[n]
  <2> DEFINE S == {i \in Nat : i <= n => f[i] = h[i]}
  <2>1. 0 \in S
    BY <1>2
  <2>2. ASSUME NEW i \in Nat, i \in S PROVE i + 1 \in S
    BY <1>2, <2>2
  <2> HIDE DEF S
  <2>3. n \in S
    BY <2>1, <2>2, AllOf
  <2> QED BY <2>3 DEF S
<1> DEFINE part(n) == CHOOSE f : Upto(f, n)
           all == [i \in Nat |-> part(i)[i]]
<1>3. \A n \in Nat : Upto(part(n), n)
  <2> HIDE DEF Upto
  <2> QED BY <1>1
<1>4. ASSUME NEW i \in Nat PROVE all[i] = IF i = 0 THEN b ELSE g[all[i - 1]]
  <2>1. CASE i = 0
    <3>1. Upto(part(i), i)
      BY <1>3
    <3> HIDE DEF part
    <3> QED BY <2>1, <3>1
  <2>2. CASE i # 0
    <3>1. Upto(part(i), i) /\ Upto(part(i - 1), i - 1) /\ i - 1 \in Nat
      BY <1>3, <2>2
    <3> HIDE DEF part
    <3>2. part(i)[i] = g[part(i)[i - 1]]
      BY <3>1, <2>2
    <3>3. part(i - 1)[i - 1] = part(i)[i - 1]
      <4> HIDE DEF Upto
      <4> QED BY <1>2, <3>1
    <3> QED BY <3>1, <3>2, <3>3, <2>2
  <2> QED BY <2>1, <2>2
<1> HIDE DEF all
<1>5. all = [i \in Nat |-> IF i = 0 THEN b ELSE g[all[i - 1]]]
  BY <1>4 DEF all
<1>6. Repeated(g, b) = CHOOSE at : at = [i \in Nat |-> IF i = 0 THEN b ELSE g[at[i - 1]]]
  BY DEF Repeated
<1> QED
  BY <1>5, <1>6
-----------------------------------------------------------------------------
LineRecord == [number : Nat, text : TextsUpTo(MaxLine - 1)]

\* The cells from p on hold line l.
Holds(m, p, l) ==
  /\ m[p] = l.number
  /\ m[p + 1] = NewLength(l.text)
  /\ \A i \in 1 .. Len(l.text) : m[p + 1 + i] = l.text[i]
  /\ m[p + 2 + Len(l.text)] = NUL

\* The lines s lie end to end from b to bufferTop, the i-th at w[i].
Layout(m, b, s, w) ==
  /\ m = [a \in b .. Top - 1 |-> m[a]]
  /\ s \in Seq(LineRecord)
  /\ w \in [1 .. Len(s) + 1 -> Nat]
  /\ w[1] = b /\ w[Len(s) + 1] = Top
  /\ \A i \in 1 .. Len(s) : w[i + 1] = w[i] + NewLength(s[i].text) /\ Holds(m, w[i], s[i])

LaidOut(m, b, s) == \E w : Layout(m, b, s, w)

LEMMA LineFacts ==
  ASSUME NEW l \in LineRecord
  PROVE  /\ l = [number |-> l.number, text |-> l.text]
         /\ l.number \in Nat
         /\ l.text \in TextsUpTo(MaxLine - 1)
         /\ Len(l.text) \in Nat
         /\ NewLength(l.text) \in Nat
         /\ NewLength(l.text) >= LineSize + Len(l.text)
         /\ NewLength(l.text) >= LineSize
         /\ NewLength(l.text) > 3
<1>1. /\ l = [number |-> l.number, text |-> l.text]
      /\ l.number \in Nat
      /\ l.text \in TextsUpTo(MaxLine - 1)
  BY DEF LineRecord
<1>2. MaxLine - 1 \in Nat
  BY EditAssumption
<1>3. Len(l.text) \in Nat
  BY <1>1, <1>2, TextFacts
<1> QED
  BY <1>1, <1>2, <1>3, NewLengthFacts

LEMMA Ascending ==
  ASSUME NEW n \in Nat, NEW w \in [1 .. n + 1 -> Nat],
         \A i \in 1 .. n : w[i + 1] >= w[i] + LineSize
  PROVE  \A i, j \in 1 .. n + 1 : i <= j => w[j] >= w[i] + LineSize * (j - i)
<1> SUFFICES ASSUME NEW i \in 1 .. n + 1
             PROVE  \A j \in 1 .. n + 1 : i <= j => w[j] >= w[i] + LineSize * (j - i)
  OBVIOUS
<1> DEFINE S == {d \in Nat : i + d <= n + 1 => w[i + d] >= w[i] + LineSize * d}
<1>1. LineSize \in Nat
  BY EditAssumption
<1>2. 0 \in S
  BY <1>1
<1>3. ASSUME NEW d \in Nat, d \in S
      PROVE  d + 1 \in S
  <2> SUFFICES ASSUME i + d + 1 <= n + 1
               PROVE  w[i + (d + 1)] >= w[i] + LineSize * (d + 1)
    OBVIOUS
  <2>1. /\ w[i + d] >= w[i] + LineSize * d
        /\ w[i + d + 1] >= w[i + d] + LineSize
        /\ w[i + d] \in Nat /\ w[i + d + 1] \in Nat /\ w[i] \in Nat
        /\ i + (d + 1) = i + d + 1
    BY <1>3
  <2>2. LineSize * (d + 1) = LineSize * d + LineSize /\ LineSize * d \in Nat
    BY <1>1
  <2> QED
    BY <1>1, <2>1, <2>2
<1> HIDE DEF S
<1>4. Nat \subseteq S
  BY <1>2, <1>3, AllOf
<1>5. \A j \in 1 .. n + 1 : i <= j => j - i \in S
  BY <1>4
<1> QED
  BY <1>5 DEF S

\* The places ascend, and there are not more than MaxLines of them.
LEMMA PlaceFacts ==
  ASSUME NEW m, NEW b \in Nat, NEW s, NEW w, Layout(m, b, s, w)
  PROVE  /\ Len(s) \in Nat
         /\ \A i \in 1 .. Len(s) : s[i] \in LineRecord
         /\ \A i \in 1 .. Len(s) + 1 : w[i] \in Nat /\ b <= w[i] /\ w[i] <= Top
         /\ \A i \in 1 .. Len(s) : w[i + 1] >= w[i] + LineSize + Len(s[i].text)
         /\ \A i, j \in 1 .. Len(s) + 1 : i < j => w[i] < w[j]
         /\ \A i, j \in 1 .. Len(s) + 1 : i <= j => w[i] <= w[j]
         /\ LineSize * Len(s) <= Top - b
         /\ Len(s) <= MaxLines
<1>1. /\ Len(s) \in Nat
      /\ \A i \in 1 .. Len(s) : s[i] \in LineRecord
      /\ w \in [1 .. Len(s) + 1 -> Nat]
      /\ w[1] = b /\ w[Len(s) + 1] = Top
      /\ \A i \in 1 .. Len(s) : w[i + 1] = w[i] + NewLength(s[i].text)
  BY DEF Layout
<1>2. \A i \in 1 .. Len(s) : w[i + 1] >= w[i] + LineSize + Len(s[i].text)
                          /\ w[i + 1] >= w[i] + LineSize
  <2> TAKE i \in 1 .. Len(s)
  <2>1. /\ NewLength(s[i].text) \in Nat /\ Len(s[i].text) \in Nat
        /\ NewLength(s[i].text) >= LineSize + Len(s[i].text)
        /\ NewLength(s[i].text) >= LineSize
    BY <1>1, LineFacts
  <2>2. w[i] \in Nat /\ w[i + 1] = w[i] + NewLength(s[i].text)
    BY <1>1
  <2> QED
    BY <2>1, <2>2, EditAssumption
<1>3. \A i, j \in 1 .. Len(s) + 1 : i <= j => w[j] >= w[i] + LineSize * (j - i)
  BY <1>1, <1>2, Ascending
<1>4. \A k \in Nat : LineSize * k \in Nat /\ (k > 0 => LineSize * k > 0)
  BY EditAssumption
<1>5. \A i, j \in 1 .. Len(s) + 1 : /\ i < j => w[i] < w[j]
                                    /\ i <= j => w[i] <= w[j]
  <2> TAKE i, j \in 1 .. Len(s) + 1
  <2>1. CASE i <= j
    <3>1. PICK k \in Nat : k = j - i
      BY <1>1, <2>1
    <3>2. w[j] >= w[i] + LineSize * k
      BY <1>3, <2>1, <3>1
    <3>3. PICK c \in Nat : c = LineSize * k /\ (k > 0 => c > 0)
      BY <1>4
    <3>4. w[i] \in Nat /\ w[j] \in Nat
      BY <1>1
    <3>5. w[j] >= w[i] + c
      BY <3>2, <3>3
    <3>6. i < j => c > 0
      BY <1>1, <3>1, <3>3
    <3> QED
      BY <3>4, <3>5, <3>6
  <2> QED
    BY <1>1, <2>1
<1>6. \A i \in 1 .. Len(s) + 1 : w[i] \in Nat /\ b <= w[i] /\ w[i] <= Top
  BY <1>1, <1>5
<1>7. LineSize * Len(s) <= Top - b
  <2>1. w[Len(s) + 1] >= w[1] + LineSize * (Len(s) + 1 - 1)
    BY <1>1, <1>3
  <2>2. Len(s) + 1 - 1 = Len(s)
    BY <1>1
  <2> QED
    BY <1>1, <1>4, <2>1, <2>2, EditAssumption
<1>8. Len(s) <= MaxLines
  <2>1. PICK q \in Nat : Top \div LineSize = q /\ Top < q * LineSize + LineSize
    BY EditAssumption
  <2>2. ASSUME q < Len(s) PROVE FALSE
    <3> DEFINE d == Len(s) - q - 1
    <3>1. d \in Nat /\ Len(s) = q + 1 + d
      BY <1>1, <2>1, <2>2
    <3> HIDE DEF d
    <3>2. LineSize * (q + 1 + d) = q * LineSize + LineSize + LineSize * d
      BY <3>1, EditAssumption
    <3>3. LineSize * d \in Nat /\ q * LineSize \in Nat
      BY <3>1, EditAssumption
    <3> QED
      BY <1>7, <2>1, <3>1, <3>2, <3>3, EditAssumption
  <2> QED
    BY <1>1, <2>1, <2>2 DEF MaxLines
<1> QED
  BY <1>1, <1>2, <1>5, <1>6, <1>7, <1>8

\* A walk through the cells finds the places, one after the other.
LEMMA WalkFindsPlaces ==
  ASSUME NEW m, NEW b \in Nat, NEW s, NEW w, Layout(m, b, s, w)
  PROVE  \A i \in Nat : Walk(m, b)[i] = IF i < Len(s) THEN w[i + 1] ELSE Top
<1> DEFINE at == Walk(m, b)
           S  == {i \in Nat : at[i] = IF i < Len(s) THEN w[i + 1] ELSE Top}
<1>1. /\ at[0] = b
      /\ \A i \in Nat : at[i + 1] = After(m)[at[i]]
  <2>1. at = [i \in Nat |-> IF i = 0 THEN b ELSE After(m)[at[i - 1]]]
    BY RepeatedDef DEF Walk
  <2> HIDE DEF at
  <2> QED
    BY <2>1
<1> HIDE DEF at
<1>2. /\ Len(s) \in Nat
      /\ \A i \in 1 .. Len(s) + 1 : w[i] \in Nat
      /\ \A i \in 1 .. Len(s) : w[i] < Top
      /\ w[1] = b /\ w[Len(s) + 1] = Top
      /\ \A i \in 1 .. Len(s) : w[i + 1] = w[i] + m[w[i] + 1]
  <2>1. /\ Len(s) \in Nat
        /\ \A i \in 1 .. Len(s) + 1 : w[i] \in Nat
        /\ \A i, j \in 1 .. Len(s) + 1 : i < j => w[i] < w[j]
    BY PlaceFacts
  <2>2. /\ w[1] = b /\ w[Len(s) + 1] = Top
        /\ \A i \in 1 .. Len(s) : w[i + 1] = w[i] + m[w[i] + 1]
    BY DEF Layout, Holds
  <2> QED
    BY <2>1, <2>2
<1>3. /\ Top \in Nat
      /\ \A p \in Nat : After(m)[p] = IF p < Top THEN p + m[p + 1] ELSE p
  BY EditAssumption DEF After
<1>4. 0 \in S
  <2>1. CASE Len(s) = 0
    <3>1. b = Top
      BY <1>2, <2>1
    <3> QED
      BY <1>1, <2>1, <3>1
  <2>2. CASE Len(s) # 0
    BY <1>1, <1>2, <2>2
  <2> QED
    BY <2>1, <2>2
<1>5. ASSUME NEW i \in Nat, i \in S
      PROVE  i + 1 \in S
  <2>1. CASE i < Len(s)
    <3>1. at[i] = w[i + 1] /\ i + 1 \in 1 .. Len(s)
      BY <1>2, <1>5, <2>1
    <3>2. w[i + 1] \in Nat /\ w[i + 1] < Top /\ w[i + 1 + 1] = w[i + 1] + m[w[i + 1] + 1]
      BY <1>2, <3>1
    <3>3. at[i + 1] = w[i + 1 + 1]
      BY <1>1, <1>3, <3>1, <3>2
    <3>4. i + 1 >= Len(s) => i + 1 = Len(s)
      BY <1>2, <2>1
    <3> QED
      BY <1>2, <3>3, <3>4
  <2>2. CASE i >= Len(s)
    <3>1. at[i] = Top /\ i + 1 >= Len(s)
      BY <1>2, <1>5, <2>2
    <3>2. After(m)[Top] = Top
      BY <1>3
    <3>3. at[i + 1] = Top
      BY <1>1, <3>1, <3>2
    <3> QED
      BY <1>2, <3>1, <3>3
  <2> QED
    BY <1>2, <2>1, <2>2
<1> HIDE DEF S
<1>6. Nat \subseteq S
  BY <1>4, <1>5, AllOf
<1> QED
  BY <1>6 DEF S, at

\* A line is read back as it was written.
LEMMA LineHeld ==
  ASSUME NEW p \in Nat, NEW l \in LineRecord, Holds(mem, p, l), p + 2 + Len(l.text) < Top
  PROVE  Number(p) = l.number /\ Text(p) = l.text /\ Line[p] = l
<1>1. /\ l = [number |-> l.number, text |-> l.text]
      /\ l.text \in Seq(Chars \cup {NL}) /\ Len(l.text) \in Nat
      /\ \A i \in 1 .. Len(l.text) : l.text[i] # NUL
  <2>1. l = [number |-> l.number, text |-> l.text] /\ l.text \in TextsUpTo(MaxLine - 1)
    BY LineFacts
  <2>2. MaxLine - 1 \in Nat
    BY EditAssumption
  <2> QED
    BY <2>1, <2>2, TextFacts
<1>2. /\ mem[p] = l.number
      /\ \A i \in 1 .. Len(l.text) : mem[p + 1 + i] = l.text[i]
      /\ mem[p + 2 + Len(l.text)] = NUL
  BY DEF Holds
<1> DEFINE E(e) == mem[e] = NUL /\ \A a \in p + 2 .. e - 1 : mem[a] # NUL
           last == p + 2 + Len(l.text)
<1>3. last \in p + 2 .. Top - 1 /\ E(last)
  <2>1. last \in p + 2 .. Top - 1
    BY <1>1, EditAssumption
  <2>2. ASSUME NEW a \in p + 2 .. last - 1
        PROVE  mem[a] # NUL
    <3>1. a - p - 1 \in 1 .. Len(l.text) /\ p + 1 + (a - p - 1) = a
      BY <1>1
    <3> QED
      BY <1>1, <1>2, <3>1
  <2> QED
    BY <1>2, <2>1, <2>2
<1>4. \A e \in p + 2 .. Top - 1 : E(e) => e = last
  BY <1>1, <1>3, EditAssumption
<1> HIDE DEF E
<1>5. (CHOOSE e \in p + 2 .. Top - 1 : E(e)) = last
  BY <1>3, <1>4
<1>6. Text(p) = [i \in 1 .. last - (p + 2) |-> mem[p + 1 + i]]
  BY <1>5 DEF Text, E
<1>7. last - (p + 2) = Len(l.text)
  BY <1>1
<1>8. Text(p) = l.text
  BY <1>1, <1>2, <1>6, <1>7
<1> QED
  BY <1>1, <1>2, <1>8 DEF Number, Line

\* A layout of the present memory determines what the program is.
LEMMA ProgramIs ==
  ASSUME NEW s, NEW w, buffer \in Nat, Layout(mem, buffer, s, w)
  PROVE  /\ \A i \in 0 .. MaxLines : LineAt[i] = IF i < Len(s) THEN w[i + 1] ELSE Top
         /\ Len(s) \in 0 .. MaxLines
         /\ MaxLines \in Nat
         /\ \A i \in 1 .. Len(s) : /\ Number(w[i]) = s[i].number
                                   /\ Text(w[i]) = s[i].text
                                   /\ Length(w[i]) = NewLength(s[i].text)
                                   /\ Line[w[i]] = s[i]
         /\ LineCount = Len(s)
         /\ Program = s
<1>1. /\ Len(s) \in 0 .. MaxLines /\ MaxLines \in Nat /\ Len(s) \in Nat
      /\ \A i \in 1 .. Len(s) : w[i] < Top
      /\ \A i \in 1 .. Len(s) : s[i] \in LineRecord
      /\ \A i \in 1 .. Len(s) + 1 : w[i] \in Nat
      /\ s = [i \in 1 .. Len(s) |-> s[i]]
  <2>1. /\ Len(s) \in Nat /\ Len(s) <= MaxLines
        /\ \A i \in 1 .. Len(s) : s[i] \in LineRecord
        /\ \A i \in 1 .. Len(s) + 1 : w[i] \in Nat
        /\ \A i, j \in 1 .. Len(s) + 1 : i < j => w[i] < w[j]
    BY PlaceFacts
  <2>2. w[Len(s) + 1] = Top /\ s \in Seq(LineRecord)
    BY DEF Layout
  <2>3. MaxLines \in Nat
    BY EditAssumption DEF MaxLines
  <2>4. s = [i \in 1 .. Len(s) |-> s[i]]
    BY <2>2
  <2> QED
    BY <2>1, <2>2, <2>3, <2>4
<1>2. \A i \in 0 .. MaxLines : LineAt[i] = IF i < Len(s) THEN w[i + 1] ELSE Top
  BY <1>1, WalkFindsPlaces DEF LineAt
<1>3. \A i \in 1 .. Len(s) : /\ Number(w[i]) = s[i].number
                             /\ Text(w[i]) = s[i].text
                             /\ Length(w[i]) = NewLength(s[i].text)
                             /\ Line[w[i]] = s[i]
  <2> TAKE i \in 1 .. Len(s)
  <2>1. w[i] \in Nat /\ s[i] \in LineRecord /\ Holds(mem, w[i], s[i])
    BY <1>1 DEF Layout
  <2>2. w[i] + 2 + Len(s[i].text) < Top
    <3>1. w[i + 1] <= Top /\ w[i + 1] >= w[i] + LineSize + Len(s[i].text)
      <4>1. i + 1 \in 1 .. Len(s) + 1
        BY <1>1
      <4>2. w[i + 1] <= Top
        BY <4>1, PlaceFacts
      <4>3. w[i + 1] >= w[i] + LineSize + Len(s[i].text)
        BY PlaceFacts
      <4> QED
        BY <4>2, <4>3
    <3>2. Len(s[i].text) \in Nat /\ w[i + 1] \in Nat
      BY <1>1, <2>1, LineFacts
    <3> QED
      BY <2>1, <3>1, <3>2, EditAssumption
  <2> QED
    BY <2>1, <2>2, LineHeld DEF Length, Holds
<1>4. LineCount = Len(s)
  <2>1. {i \in 0 .. MaxLines : LineAt[i] < Top} = 0 .. Len(s) - 1
    BY <1>1, <1>2, EditAssumption
  <2>2. Cardinality(0 .. Len(s) - 1) = Len(s)
    <3>1. Len(s) - 1 \in Int /\ 0 \in Int
      BY <1>1
    <3>2. Cardinality(0 .. Len(s) - 1) = IF 0 > Len(s) - 1 THEN 0 ELSE Len(s) - 1 - 0 + 1
      BY <3>1, FS_Interval
    <3> QED
      BY <1>1, <3>2
  <2> QED
    BY <2>1, <2>2 DEF LineCount
<1>5. Program = s
  <2>1. \A i \in 1 .. Len(s) : LineAt[i - 1] = w[i]
    BY <1>1, <1>2
  <2>2. Program = [i \in 1 .. Len(s) |-> s[i]]
    BY <1>3, <1>4, <2>1 DEF Program
  <2> QED
    BY <1>1, <2>2
<1> QED
  BY <1>1, <1>2, <1>3, <1>4, <1>5

\* The place where FindLineN stops: the first whose number is not below n.
LEMMA FindLineNIs ==
  ASSUME NEW s, NEW w, buffer \in Nat, Layout(mem, buffer, s, w), NEW n \in Nat
  PROVE  \E i \in 1 .. Len(s) + 1 :
           /\ FindLineN(n) = w[i]
           /\ \A j \in 1 .. i - 1 : s[j].number < n
           /\ i <= Len(s) => n <= s[i].number
           /\ Found(n) <=> i <= Len(s) /\ s[i].number = n
<1>1. /\ \A i \in 0 .. MaxLines : LineAt[i] = IF i < Len(s) THEN w[i + 1] ELSE Top
      /\ Len(s) \in 0 .. MaxLines /\ MaxLines \in Nat
      /\ \A i \in 1 .. Len(s) : Number(w[i]) = s[i].number
  BY ProgramIs
<1>2. /\ \A i \in 1 .. Len(s) + 1 : w[i] \in Nat
      /\ w[Len(s) + 1] = Top
      /\ \A i \in 1 .. Len(s) : w[i] < Top /\ s[i].number \in Nat
  <2>1. /\ \A i \in 1 .. Len(s) + 1 : w[i] \in Nat
        /\ \A i \in 1 .. Len(s) : s[i] \in LineRecord
        /\ \A i, j \in 1 .. Len(s) + 1 : i < j => w[i] < w[j]
    BY PlaceFacts
  <2>2. w[Len(s) + 1] = Top
    BY DEF Layout
  <2>3. \A i \in 1 .. Len(s) : s[i].number \in Nat
    BY <2>1, LineFacts
  <2>4. \A i \in 1 .. Len(s) : w[i] < w[Len(s) + 1]
    BY <1>1, <2>1
  <2> QED
    BY <2>1, <2>2, <2>3, <2>4
<1>3. \A p \in Nat : StopsAt(n)[p] <=> p >= Top \/ n <= Number(p)
  BY DEF StopsAt
<1> DEFINE S == {i \in 0 .. MaxLines : StopsAt(n)[LineAt[i]]}
<1>4. \A i \in 0 .. Len(s) - 1 : i \in S <=> n <= s[i + 1].number
  <2> TAKE i \in 0 .. Len(s) - 1
  <2>1. i + 1 \in 1 .. Len(s) /\ i \in 0 .. MaxLines /\ LineAt[i] = w[i + 1]
    BY <1>1
  <2>2. w[i + 1] \in Nat /\ w[i + 1] < Top /\ Number(w[i + 1]) = s[i + 1].number
    BY <1>1, <1>2, <2>1
  <2> QED
    BY <1>3, <2>1, <2>2, EditAssumption
<1>5. Len(s) \in S
  <2>1. Len(s) \in 0 .. MaxLines /\ LineAt[Len(s)] = Top
    BY <1>1
  <2> QED
    BY <1>3, <2>1, EditAssumption
<1>6. PICK k \in S : \A i \in S : k <= i
  <2>1. S \subseteq Nat /\ S # {}
    BY <1>1, <1>5
  <2> HIDE DEF S
  <2> QED
    BY <2>1, LeastElement
<1>7. k \in 0 .. Len(s) /\ \A i \in 0 .. k - 1 : i \notin S
  BY <1>1, <1>5, <1>6
<1>8. Min(S) = k
  <2>1. \A x \in S : (\A y \in S : x <= y) => x = k
    BY <1>1, <1>6
  <2> HIDE DEF S
  <2> QED
    BY <1>6, <2>1 DEF Min
<1>9. FindLineN(n) = w[k + 1]
  <2>1. FindLineN(n) = LineAt[k]
    BY <1>8 DEF FindLineN
  <2>2. k = Len(s) => w[k + 1] = Top
    BY <1>2
  <2> QED
    BY <1>1, <1>7, <2>1, <2>2
<1>10. \A j \in 1 .. k : s[j].number < n
  <2> TAKE j \in 1 .. k
  <2>1. j - 1 \in 0 .. Len(s) - 1 /\ j - 1 \notin S /\ j - 1 + 1 = j
    BY <1>1, <1>7
  <2>2. ~(n <= s[j].number)
    BY <1>4, <2>1
  <2>3. s[j].number \in Nat
    BY <1>1, <1>2, <1>7
  <2> QED
    BY <2>2, <2>3
<1>11. k + 1 <= Len(s) => n <= s[k + 1].number
  BY <1>1, <1>4, <1>6, <1>7
<1>12. Found(n) <=> k + 1 <= Len(s) /\ s[k + 1].number = n
  <2>1. CASE k + 1 <= Len(s)
    <3>1. w[k + 1] < Top /\ Number(w[k + 1]) = s[k + 1].number
      BY <1>1, <1>2, <1>7, <2>1
    <3> QED
      BY <1>9, <2>1, <3>1 DEF Found
  <2>2. CASE ~(k + 1 <= Len(s))
    <3>1. w[k + 1] = Top
      BY <1>1, <1>2, <1>7, <2>2
    <3> QED
      BY <1>9, <2>2, <3>1, EditAssumption DEF Found
  <2> QED
    BY <2>1, <2>2
<1> DEFINE i == k + 1
<1>13. i \in 1 .. Len(s) + 1 /\ i - 1 = k
  BY <1>1, <1>7
<1> HIDE DEF S
<1>14. /\ FindLineN(n) = w[i]
       /\ \A j \in 1 .. i - 1 : s[j].number < n
       /\ i <= Len(s) => n <= s[i].number
       /\ Found(n) <=> i <= Len(s) /\ s[i].number = n
  BY <1>9, <1>10, <1>11, <1>12, <1>13
<1> HIDE DEF i
<1> QED
  BY <1>13, <1>14
-----------------------------------------------------------------------------
\* A line stays what it is when its cells are moved.
LEMMA HoldsMoved ==
  ASSUME NEW m, NEW m2, NEW p \in Int, NEW q \in Int, NEW l \in LineRecord, Holds(m, p, l),
         \A x \in 0 .. Len(l.text) + 2 : m2[q + x] = m[p + x]
  PROVE  Holds(m2, q, l)
<1>1. PICK n \in Nat : n = Len(l.text)
  BY LineFacts
<1>2. \A x \in 0 .. n + 2 : m2[q + x] = m[p + x]
  BY <1>1
<1>3. /\ m[p] = l.number /\ m[p + 1] = NewLength(l.text)
      /\ \A i \in 1 .. n : m[p + 1 + i] = l.text[i]
      /\ m[p + 2 + n] = NUL
  BY <1>1 DEF Holds
<1>4. m2[q] = m[p]
  <2>1. m2[q + 0] = m[p + 0]
    BY <1>2
  <2> QED
    BY <2>1
<1>5. m2[q + 1] = m[p + 1]
  BY <1>2
<1>6. m2[q + 2 + n] = m[p + 2 + n]
  <2>1. m2[q + (2 + n)] = m[p + (2 + n)]
    <3> 2 + n \in 0 .. n + 2
      OBVIOUS
    <3> QED
      BY <1>2
  <2>2. q + (2 + n) = q + 2 + n /\ p + (2 + n) = p + 2 + n
    OBVIOUS
  <2> QED
    BY <2>1, <2>2
<1>7. \A i \in 1 .. n : m2[q + 1 + i] = m[p + 1 + i]
  <2> TAKE i \in 1 .. n
  <2>1. m2[q + (1 + i)] = m[p + (1 + i)]
    BY <1>2
  <2>2. q + (1 + i) = q + 1 + i /\ p + (1 + i) = p + 1 + i
    OBVIOUS
  <2> QED
    BY <2>1, <2>2
<1>8. /\ m2[q] = l.number /\ m2[q + 1] = NewLength(l.text)
      /\ \A i \in 1 .. n : m2[q + 1 + i] = l.text[i]
      /\ m2[q + 2 + n] = NUL
  BY <1>3, <1>4, <1>5, <1>6, <1>7
<1> QED
  BY <1>1, <1>8 DEF Holds

\* The line at place i takes the space of the d lines from there on, none or
\* one, the lines before it make room, and the others stay: so for the lines,
\* and so for their cells.
SplicedLines(s, i, d, l, s2) ==
  /\ i \in 1 .. Len(s) + 1 /\ i + d <= Len(s) + 1
  /\ s2 \in Seq(LineRecord) /\ Len(s2) = Len(s) + 1 - d
  /\ \A j \in 1 .. i - 1 : s2[j] = s[j]
  /\ s2[i] = l
  /\ \A j \in i + 1 .. Len(s2) : s2[j] = s[j + d - 1]
SplicedCells(m, b, w, i, d, l, space, c, m2) ==
  /\ c = b - space
  /\ w[i] - space + NewLength(l.text) = w[i + d]
  /\ m2 = [a \in c .. Top - 1 |-> m2[a]]
  /\ \A a \in c .. w[i] - space - 1 : m2[a] = m[a + space]
  /\ Holds(m2, w[i] - space, l)
  /\ \A a \in w[i + d] .. Top - 1 : m2[a] = m[a]

LEMMA Spliced ==
  ASSUME NEW m, NEW b \in Nat, NEW s, NEW w, Layout(m, b, s, w),
         NEW i, NEW d \in {0, 1}, NEW l, NEW space \in Int, NEW c \in Nat, NEW m2, NEW s2,
         SplicedLines(s, i, d, l, s2), SplicedCells(m, b, w, i, d, l, space, c, m2)
  PROVE  LaidOut(m2, c, s2)
<1>1. PICK n \in Nat : n = Len(s)
  BY PlaceFacts
<1>2. PICK n2 \in Nat : n2 = Len(s2)
  <2>1. s2 \in Seq(LineRecord)
    BY DEF SplicedLines
  <2> QED
    BY <2>1
<1>3. i \in 1 .. n + 1 /\ d \in Nat /\ i + d <= n + 1 /\ n2 = n + 1 - d /\ i <= n2
  BY <1>1, <1>2 DEF SplicedLines
<1>a. c = b - space
  BY DEF SplicedCells
<1> DEFINE stays(j)   == s2[j] = s[j]
           further(j) == s2[j] = s[j + d - 1]
<1>0. /\ \A j \in 1 .. i - 1 : stays(j)
      /\ s2[i] = l
      /\ \A j \in i + 1 .. n2 : further(j)
  BY <1>2 DEF SplicedLines
<1> DEFINE w2 == [j \in 1 .. n2 + 1 |-> IF j <= i THEN w[j] - space ELSE w[j + d - 1]]
<1>4. /\ \A j \in 1 .. n : s[j] \in LineRecord
      /\ \A j \in 1 .. n + 1 : w[j] \in Nat /\ b <= w[j] /\ w[j] <= Top
      /\ \A j, h \in 1 .. n + 1 : j <= h => w[j] <= w[h]
      /\ \A j \in 1 .. n : w[j + 1] >= w[j] + LineSize + Len(s[j].text)
  BY <1>1, PlaceFacts
<1>5. /\ w[1] = b /\ w[n + 1] = Top
      /\ \A j \in 1 .. n : w[j + 1] = w[j] + NewLength(s[j].text) /\ Holds(m, w[j], s[j])
  BY <1>1 DEF Layout
<1>6. LineSize \in Nat /\ LineSize >= 3 /\ Top \in Nat
  BY EditAssumption
<1>7. ASSUME NEW j \in 1 .. i
      PROVE  w2[j] = w[j] - space /\ w2[j] \in Nat
  <2>1. j \in 1 .. n + 1 /\ j \in 1 .. n2 + 1 /\ j <= i
    BY <1>3
  <2>2. w2[j] = w[j] - space
    BY <2>1
  <2>3. w[j] \in Nat /\ b <= w[j]
    BY <1>4, <2>1
  <2> QED
    BY <1>a, <2>2, <2>3
<1>8. ASSUME NEW j \in i + 1 .. n2 + 1
      PROVE  w2[j] = w[j + d - 1] /\ w2[j] \in Nat
  <2>1. j + d - 1 \in 1 .. n + 1 /\ j \in 1 .. n2 + 1 /\ ~(j <= i)
    BY <1>3
  <2>2. w2[j] = w[j + d - 1]
    BY <2>1
  <2> QED
    BY <1>4, <2>1, <2>2
<1>9. w2 \in [1 .. n2 + 1 -> Nat]
  <2>1. \A j \in 1 .. n2 + 1 : j \in 1 .. i \/ j \in i + 1 .. n2 + 1
    BY <1>3
  <2>2. \A j \in 1 .. n2 + 1 : w2[j] \in Nat
    BY <1>7, <1>8, <2>1
  <2> QED
    BY <2>2
<1> HIDE DEF w2
<1>10. w2[1] = c /\ w2[n2 + 1] = Top
  <2>1. 1 \in 1 .. i
    BY <1>3
  <2>2. n2 + 1 + d - 1 = n + 1 /\ n2 + 1 \in i + 1 .. n2 + 1
    BY <1>3
  <2>3. w2[1] = w[1] - space
    BY <1>7, <2>1
  <2> QED
    BY <1>a, <1>5, <1>8, <2>2, <2>3
<1>11. ASSUME NEW j \in 1 .. i - 1
       PROVE  w2[j + 1] = w2[j] + NewLength(s2[j].text) /\ Holds(m2, w2[j], s2[j])
  <2>1. j \in 1 .. n /\ j + 1 \in 1 .. n + 1 /\ j \in 1 .. i /\ j + 1 \in 1 .. i
    BY <1>3
  <2>2. w2[j] = w[j] - space /\ w2[j + 1] = w[j + 1] - space /\ s2[j] = s[j] /\ w2[j] \in Nat
    BY <1>0, <1>7, <2>1
  <2>3. w[j + 1] = w[j] + NewLength(s[j].text) /\ Holds(m, w[j], s[j]) /\ s[j] \in LineRecord
    BY <1>4, <1>5, <2>1
  <2>4. PICK len \in Nat : len = Len(s[j].text)
    BY <2>3, LineFacts
  <2>5. w[j] \in Nat /\ w[j + 1] \in Nat /\ w[i] \in Nat /\ b <= w[j]
    BY <1>3, <1>4, <2>1
  <2>6. ASSUME NEW x \in 0 .. len + 2
        PROVE  m2[w2[j] + x] = m[w[j] + x]
    <3>1. PICK p \in Nat, p2 \in Nat, pi \in Nat : p = w[j] /\ p2 = w[j + 1] /\ pi = w[i]
      BY <2>5
    <3>2. p2 <= pi /\ b <= p
      <4>1. j + 1 <= i
        BY <1>3
      <4> QED
        BY <1>3, <1>4, <2>1, <2>5, <3>1, <4>1
    <3>3. p2 >= p + LineSize + len
      BY <1>4, <2>1, <2>4, <3>1
    <3>4. p - space + x \in c .. pi - space - 1 /\ p - space + x + space = p + x
      BY <1>a, <1>6, <3>2, <3>3
    <3>5. m2[p - space + x] = m[p - space + x + space]
      BY <3>1, <3>4 DEF SplicedCells
    <3> QED
      BY <2>2, <3>1, <3>4, <3>5
  <2>7. Holds(m2, w2[j], s[j])
    <3>1. \A x \in 0 .. Len(s[j].text) + 2 : m2[w2[j] + x] = m[w[j] + x]
      BY <2>4, <2>6
    <3>2. w2[j] \in Int /\ w[j] \in Int
      BY <2>2, <2>5
    <3> QED
      BY <2>3, <3>1, <3>2, HoldsMoved
  <2>8. PICK size \in Nat : size = NewLength(s[j].text)
    BY <2>3, LineFacts
  <2>9. w2[j + 1] = w2[j] + size
    BY <2>2, <2>3, <2>5, <2>8
  <2> QED
    BY <2>2, <2>7, <2>8, <2>9
<1>12. w2[i + 1] = w2[i] + NewLength(s2[i].text) /\ Holds(m2, w2[i], s2[i])
  <2>1. i \in 1 .. i /\ i + 1 \in i + 1 .. n2 + 1 /\ i + 1 + d - 1 = i + d
    BY <1>3
  <2>2. w2[i] = w[i] - space /\ w2[i + 1] = w[i + d]
    BY <1>7, <1>8, <2>1
  <2> QED
    BY <1>0, <2>2 DEF SplicedCells
<1>13. ASSUME NEW j \in i + 1 .. n2
       PROVE  w2[j + 1] = w2[j] + NewLength(s2[j].text) /\ Holds(m2, w2[j], s2[j])
  <2>1. PICK h \in 1 .. n : h = j + d - 1
    BY <1>3
  <2>2. /\ h + 1 \in 1 .. n + 1 /\ h \in 1 .. n + 1 /\ i + d \in 1 .. n + 1 /\ i + d <= h
        /\ j + 1 + d - 1 = h + 1 /\ j + 1 \in i + 1 .. n2 + 1 /\ j \in i + 1 .. n2 + 1
    <3>1. i \in Nat /\ j \in Nat /\ i + 1 <= j /\ j <= n2 /\ n2 = n + 1 - d
      BY <1>3
    <3> QED
      BY <1>3, <2>1, <3>1
  <2>3. w2[j] = w[h] /\ w2[j + 1] = w[h + 1] /\ s2[j] = s[h]
    BY <1>0, <1>8, <2>1, <2>2
  <2>4. w[h + 1] = w[h] + NewLength(s[h].text) /\ Holds(m, w[h], s[h]) /\ s[h] \in LineRecord
    BY <1>4, <1>5
  <2>5. PICK len \in Nat : len = Len(s[h].text)
    BY <2>4, LineFacts
  <2>6. w[h] \in Nat /\ w[h + 1] \in Nat /\ w[i + d] \in Nat
    BY <1>4, <2>2
  <2>7. ASSUME NEW x \in 0 .. len + 2
        PROVE  m2[w[h] + x] = m[w[h] + x]
    <3>1. PICK p \in Nat, p2 \in Nat, pi \in Nat : p = w[h] /\ p2 = w[h + 1] /\ pi = w[i + d]
      BY <2>6
    <3>2. pi <= p /\ p2 <= Top
      BY <1>4, <2>2, <3>1
    <3>3. p2 >= p + LineSize + len
      BY <1>4, <2>5, <3>1
    <3>4. p + x \in pi .. Top - 1
      BY <1>6, <3>2, <3>3
    <3> QED
      BY <3>1, <3>4 DEF SplicedCells
  <2>8. Holds(m2, w[h], s[h])
    <3>1. \A x \in 0 .. Len(s[h].text) + 2 : m2[w[h] + x] = m[w[h] + x]
      BY <2>5, <2>7
    <3>2. w[h] \in Int
      BY <2>6
    <3> QED
      BY <2>4, <3>1, <3>2, HoldsMoved
  <2> QED
    BY <2>3, <2>4, <2>8
<1>14. ASSUME NEW j \in 1 .. n2
       PROVE  w2[j + 1] = w2[j] + NewLength(s2[j].text) /\ Holds(m2, w2[j], s2[j])
  <2>1. j \in 1 .. i - 1 \/ j = i \/ j \in i + 1 .. n2
    BY <1>3
  <2> QED
    BY <1>11, <1>12, <1>13, <2>1
<1>15. Layout(m2, c, s2, w2)
  BY <1>2, <1>9, <1>10, <1>14 DEF Layout, SplicedLines, SplicedCells
<1> QED
  BY <1>15 DEF LaidOut

\* The line at place i is taken out, and the lines before it move up.
CutLines(s, i, s2) ==
  /\ i \in 1 .. Len(s)
  /\ s2 \in Seq(LineRecord) /\ Len(s2) = Len(s) - 1
  /\ \A j \in 1 .. i - 1 : s2[j] = s[j]
  /\ \A j \in i .. Len(s2) : s2[j] = s[j + 1]
CutCells(m, b, w, i, freed, c, m2) ==
  /\ c = b + freed
  /\ w[i] + freed = w[i + 1]
  /\ m2 = [a \in c .. Top - 1 |-> m2[a]]
  /\ \A a \in c .. w[i + 1] - 1 : m2[a] = m[a - freed]
  /\ \A a \in w[i + 1] .. Top - 1 : m2[a] = m[a]

LEMMA Cut ==
  ASSUME NEW m, NEW b \in Nat, NEW s, NEW w, Layout(m, b, s, w),
         NEW i, NEW freed \in Int, NEW c \in Nat, NEW m2, NEW s2,
         CutLines(s, i, s2), CutCells(m, b, w, i, freed, c, m2)
  PROVE  LaidOut(m2, c, s2)
<1>a. c = b + freed
  BY DEF CutCells
<1>1. PICK n \in Nat : n = Len(s)
  BY PlaceFacts
<1>2. PICK n2 \in Nat : n2 = Len(s2)
  <2>1. s2 \in Seq(LineRecord)
    BY DEF CutLines
  <2> QED
    BY <2>1
<1>3. i \in 1 .. n /\ n2 = n - 1
  BY <1>1, <1>2 DEF CutLines
<1>4. /\ \A j \in 1 .. i - 1 : s2[j] = s[j]
      /\ \A j \in i .. n2 : s2[j] = s[j + 1]
  BY <1>2 DEF CutLines
<1> DEFINE w2 == [j \in 1 .. n2 + 1 |-> IF j <= i THEN w[j] + freed ELSE w[j + 1]]
<1>5. /\ \A j \in 1 .. n : s[j] \in LineRecord
      /\ \A j \in 1 .. n + 1 : w[j] \in Nat /\ b <= w[j] /\ w[j] <= Top
      /\ \A j, h \in 1 .. n + 1 : j <= h => w[j] <= w[h]
      /\ \A j \in 1 .. n : w[j + 1] >= w[j] + LineSize + Len(s[j].text)
  BY <1>1, PlaceFacts
<1>6. /\ w[1] = b /\ w[n + 1] = Top
      /\ \A j \in 1 .. n : w[j + 1] = w[j] + NewLength(s[j].text) /\ Holds(m, w[j], s[j])
  BY <1>1 DEF Layout
<1>7. LineSize \in Nat /\ LineSize >= 3 /\ Top \in Nat
  BY EditAssumption
<1>8. ASSUME NEW j \in 1 .. i
      PROVE  w2[j] = w[j] + freed /\ w2[j] \in Nat
  <2>1. j \in 1 .. n + 1 /\ j \in 1 .. n2 + 1 /\ j <= i
    BY <1>3
  <2>2. w2[j] = w[j] + freed
    BY <2>1
  <2>3. w[j] \in Nat /\ b <= w[j]
    BY <1>5, <2>1
  <2> QED
    BY <1>a, <2>2, <2>3
<1>9. ASSUME NEW j \in i .. n2 + 1
      PROVE  w2[j] = w[j + 1] /\ w2[j] \in Nat
  <2>1. j + 1 \in 1 .. n + 1 /\ j \in 1 .. n2 + 1
    BY <1>3
  <2>2. j <= i => j = i
    BY <1>3
  <2>3. w2[j] = w[j + 1]
    BY <2>1, <2>2 DEF CutCells
  <2> QED
    BY <1>5, <2>1, <2>3
<1>10. w2 \in [1 .. n2 + 1 -> Nat]
  <2>1. \A j \in 1 .. n2 + 1 : j \in 1 .. i \/ j \in i .. n2 + 1
    BY <1>3
  <2>2. \A j \in 1 .. n2 + 1 : w2[j] \in Nat
    BY <1>8, <1>9, <2>1
  <2> QED
    BY <2>2
<1> HIDE DEF w2
<1>11. w2[1] = c /\ w2[n2 + 1] = Top
  <2>1. 1 \in 1 .. i /\ n2 + 1 \in i .. n2 + 1 /\ n2 + 1 + 1 = n + 1
    BY <1>3
  <2>2. w2[1] = w[1] + freed
    BY <1>8, <2>1
  <2> QED
    BY <1>a, <1>6, <1>9, <2>1, <2>2
<1>12. ASSUME NEW j \in 1 .. i - 1
       PROVE  w2[j + 1] = w2[j] + NewLength(s2[j].text) /\ Holds(m2, w2[j], s2[j])
  <2>1. j \in 1 .. n /\ j + 1 \in 1 .. n + 1 /\ j \in 1 .. i /\ j + 1 \in 1 .. i /\ i \in 1 .. n + 1
    BY <1>3
  <2>2. w2[j] = w[j] + freed /\ w2[j + 1] = w[j + 1] + freed /\ s2[j] = s[j] /\ w2[j] \in Nat
    BY <1>4, <1>8, <2>1
  <2>3. w[j + 1] = w[j] + NewLength(s[j].text) /\ Holds(m, w[j], s[j]) /\ s[j] \in LineRecord
    BY <1>5, <1>6, <2>1
  <2>4. PICK len \in Nat : len = Len(s[j].text)
    BY <2>3, LineFacts
  <2>5. w[j] \in Nat /\ w[j + 1] \in Nat /\ w[i] \in Nat /\ b <= w[j]
    BY <1>5, <2>1
  <2>6. ASSUME NEW x \in 0 .. len + 2
        PROVE  m2[w2[j] + x] = m[w[j] + x]
    <3>1. PICK p \in Nat, p2 \in Nat, pi \in Nat : p = w[j] /\ p2 = w[j + 1] /\ pi = w[i]
      BY <2>5
    <3>2. p2 <= pi /\ b <= p
      <4>1. j + 1 <= i
        BY <1>3
      <4> QED
        BY <1>5, <2>1, <2>5, <3>1, <4>1
    <3>3. p2 >= p + LineSize + len
      BY <1>5, <2>1, <2>4, <3>1
    <3>4. p + freed + x \in c .. pi + freed - 1 /\ p + freed + x - freed = p + x
      BY <1>a, <1>7, <3>2, <3>3
    <3>5. m2[p + freed + x] = m[p + freed + x - freed]
      <4>1. w[i + 1] = pi + freed
        BY <3>1 DEF CutCells
      <4>2. p + freed + x \in c .. w[i + 1] - 1
        BY <3>4, <4>1
      <4>3. \A a \in c .. w[i + 1] - 1 : m2[a] = m[a - freed]
        BY DEF CutCells
      <4> QED
        BY <4>2, <4>3
    <3> QED
      BY <2>2, <3>1, <3>4, <3>5
  <2>7. Holds(m2, w2[j], s[j])
    <3>1. \A x \in 0 .. Len(s[j].text) + 2 : m2[w2[j] + x] = m[w[j] + x]
      BY <2>4, <2>6
    <3>2. w2[j] \in Int /\ w[j] \in Int
      BY <2>2, <2>5
    <3> QED
      BY <2>3, <3>1, <3>2, HoldsMoved
  <2>8. PICK size \in Nat : size = NewLength(s[j].text)
    BY <2>3, LineFacts
  <2>9. w2[j + 1] = w2[j] + size
    BY <2>2, <2>3, <2>5, <2>8
  <2> QED
    BY <2>2, <2>7, <2>8, <2>9
<1>13. ASSUME NEW j \in i .. n2
       PROVE  w2[j + 1] = w2[j] + NewLength(s2[j].text) /\ Holds(m2, w2[j], s2[j])
  <2>1. PICK h \in 1 .. n : h = j + 1
    BY <1>3
  <2>2. h + 1 \in 1 .. n + 1 /\ h \in 1 .. n + 1 /\ i + 1 \in 1 .. n + 1 /\ i + 1 <= h
        /\ j + 1 \in i .. n2 + 1 /\ j \in i .. n2 + 1
    BY <1>3, <2>1
  <2>3. w2[j] = w[h] /\ w2[j + 1] = w[h + 1] /\ s2[j] = s[h]
    BY <1>4, <1>9, <2>1, <2>2
  <2>4. w[h + 1] = w[h] + NewLength(s[h].text) /\ Holds(m, w[h], s[h]) /\ s[h] \in LineRecord
    BY <1>5, <1>6
  <2>5. PICK len \in Nat : len = Len(s[h].text)
    BY <2>4, LineFacts
  <2>6. w[h] \in Nat /\ w[h + 1] \in Nat /\ w[i + 1] \in Nat
    BY <1>5, <2>2
  <2>7. ASSUME NEW x \in 0 .. len + 2
        PROVE  m2[w[h] + x] = m[w[h] + x]
    <3>1. PICK p \in Nat, p2 \in Nat, pi \in Nat : p = w[h] /\ p2 = w[h + 1] /\ pi = w[i + 1]
      BY <2>6
    <3>2. pi <= p /\ p2 <= Top
      BY <1>5, <2>2, <3>1
    <3>3. p2 >= p + LineSize + len
      BY <1>5, <2>5, <3>1
    <3>4. p + x \in pi .. Top - 1
      BY <1>a, <1>7, <3>2, <3>3
    <3> QED
      BY <3>1, <3>4 DEF CutCells
  <2>8. Holds(m2, w[h], s[h])
    <3>1. \A x \in 0 .. Len(s[h].text) + 2 : m2[w[h] + x] = m[w[h] + x]
      BY <2>5, <2>7
    <3>2. w[h] \in Int
      BY <2>6
    <3> QED
      BY <2>4, <3>1, <3>2, HoldsMoved
  <2> QED
    BY <2>3, <2>4, <2>8
<1>14. ASSUME NEW j \in 1 .. n2
       PROVE  w2[j + 1] = w2[j] + NewLength(s2[j].text) /\ Holds(m2, w2[j], s2[j])
  <2>1. j \in 1 .. i - 1 \/ j \in i .. n2
    BY <1>3
  <2> QED
    BY <1>12, <1>13, <2>1
<1>15. Layout(m2, c, s2, w2)
  BY <1>2, <1>10, <1>11, <1>14 DEF Layout, CutLines, CutCells
<1> QED
  BY <1>15 DEF LaidOut

\* The numbers of the lines are replaced and nothing else.
RenumberedCells(m, s, w, m2, s2) ==
  /\ m2 = [a \in DOMAIN m |-> m2[a]]
  /\ s2 \in Seq(LineRecord) /\ Len(s2) = Len(s)
  /\ \A i \in 1 .. Len(s) : s2[i].text = s[i].text /\ m2[w[i]] = s2[i].number
  /\ \A a \in DOMAIN m : (\A i \in 1 .. Len(s) : a # w[i]) => m2[a] = m[a]

LEMMA NumbersReplaced ==
  ASSUME NEW m, NEW b \in Nat, NEW s, NEW w, Layout(m, b, s, w), NEW m2, NEW s2,
         RenumberedCells(m, s, w, m2, s2)
  PROVE  Layout(m2, b, s2, w)
<1>1. PICK n \in Nat : n = Len(s) /\ n = Len(s2)
  BY PlaceFacts DEF RenumberedCells
<1>2. /\ \A j \in 1 .. n : s[j] \in LineRecord
      /\ \A j \in 1 .. n + 1 : w[j] \in Nat /\ b <= w[j] /\ w[j] <= Top
      /\ \A j, h \in 1 .. n + 1 : j <= h => w[j] <= w[h]
      /\ \A j \in 1 .. n : w[j + 1] >= w[j] + LineSize + Len(s[j].text)
  BY <1>1, PlaceFacts
<1>3. /\ m = [a \in b .. Top - 1 |-> m[a]]
      /\ w \in [1 .. n + 1 -> Nat]
      /\ w[1] = b /\ w[n + 1] = Top
      /\ \A j \in 1 .. n : w[j + 1] = w[j] + NewLength(s[j].text) /\ Holds(m, w[j], s[j])
  BY <1>1 DEF Layout
<1>4. /\ m2 = [a \in b .. Top - 1 |-> m2[a]]
      /\ \A j \in 1 .. n : s2[j].text = s[j].text /\ m2[w[j]] = s2[j].number
      /\ \A a \in b .. Top - 1 : (\A j \in 1 .. n : a # w[j]) => m2[a] = m[a]
  BY <1>1, <1>3 DEF RenumberedCells
<1>5. ASSUME NEW i \in 1 .. n
      PROVE  Holds(m2, w[i], s2[i])
  <2>1. PICK len \in Nat : len = Len(s[i].text)
    BY <1>2, LineFacts
  <2>2. PICK p \in Nat, p2 \in Nat : p = w[i] /\ p2 = w[i + 1]
    <3>1. i \in 1 .. n + 1 /\ i + 1 \in 1 .. n + 1
      OBVIOUS
    <3> QED
      BY <1>2, <3>1
  <2>3. b <= p /\ p2 <= Top /\ p2 >= p + LineSize + len
    <3>1. i \in 1 .. n + 1 /\ i + 1 \in 1 .. n + 1
      OBVIOUS
    <3> QED
      BY <1>2, <2>1, <2>2, <3>1
  <2>4. ASSUME NEW a \in p + 1 .. p + len + 2
        PROVE  m2[a] = m[a]
    <3>1. a \in b .. Top - 1 /\ p < a /\ a < p2
      BY <2>3, EditAssumption
    <3>2. ASSUME NEW j \in 1 .. n
          PROVE  a # w[j]
      <4>1. j <= i \/ i + 1 <= j
        OBVIOUS
      <4>2. j \in 1 .. n + 1 /\ i \in 1 .. n + 1 /\ i + 1 \in 1 .. n + 1
        OBVIOUS
      <4>3. w[j] <= p \/ p2 <= w[j]
        BY <1>2, <2>2, <4>1, <4>2
      <4>4. w[j] \in Nat /\ a \in Int
        BY <1>2, <4>2
      <4> QED
        BY <3>1, <4>3, <4>4
    <3> QED
      BY <1>4, <3>1, <3>2
  <2>5. /\ m[p + 1] = NewLength(s[i].text)
        /\ \A k \in 1 .. len : m[p + 1 + k] = s[i].text[k]
        /\ m[p + 2 + len] = NUL
    BY <1>3, <2>1, <2>2 DEF Holds
  <2>6. m2[p + 1] = m[p + 1] /\ m2[p + 2 + len] = m[p + 2 + len]
    BY <2>4
  <2>7. \A k \in 1 .. len : m2[p + 1 + k] = m[p + 1 + k]
    <3> TAKE k \in 1 .. len
    <3>1. p + 1 + k \in p + 1 .. p + len + 2
      OBVIOUS
    <3> QED
      BY <2>4, <3>1
  <2>8. m2[p] = s2[i].number /\ s2[i].text = s[i].text
    BY <1>4, <2>2
  <2> QED
    BY <2>1, <2>2, <2>5, <2>6, <2>7, <2>8 DEF Holds
<1>6. \A j \in 1 .. n : w[j + 1] = w[j] + NewLength(s2[j].text)
  BY <1>3, <1>4
<1> QED
  BY <1>1, <1>3, <1>4, <1>5, <1>6 DEF Layout, RenumberedCells

\* The empty buffer.
LEMMA EmptyLayout == Layout([a \in Top .. Top - 1 |-> 0], Top, <<>>, <<Top>>)
<1> DEFINE m == [a \in Top .. Top - 1 |-> 0]
<1>1. Top \in Nat
  BY EditAssumption
<1>2. m = [a \in Top .. Top - 1 |-> m[a]]
  BY <1>1
<1>3. <<>> \in Seq(LineRecord) /\ Len(<<>>) = 0
  OBVIOUS
<1>4. <<Top>> \in [1 .. 0 + 1 -> Nat] /\ <<Top>>[1] = Top
  BY <1>1
<1> HIDE DEF m
<1>5. Layout(m, Top, <<>>, <<Top>>)
  BY <1>2, <1>3, <1>4 DEF Layout
<1> QED
  BY <1>5 DEF m
=============================================================================
