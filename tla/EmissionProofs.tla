---------------------------- MODULE EmissionProofs ----------------------------
(***************************************************************************)
(* Proofs about Emission, for every width of a word and every sequence of    *)
(* operations: chains hold the references that are waiting and nothing else, *)
(* and a fixup reaches each of them once and writes nowhere else.            *)
(***************************************************************************)
EXTENDS Emission, ArithProofs, FiniteSetTheorems

USE WAssumption

LEMMA LatestFacts ==
  ASSUME NEW n \in Nat, NEW sites \in SUBSET (0 .. n)
  PROVE  /\ Latest(sites) \in sites \cup {0}
         /\ Latest(sites) \in 0 .. n
         /\ \A a \in sites : a <= Latest(sites)
<1> DEFINE bs == sites \cup {0}
           left == {n - b : b \in bs}
<1>1. \A b \in bs : b \in Int /\ 0 <= b /\ b <= n
  OBVIOUS
<1>2. left \subseteq Nat /\ n - 0 \in left
  <2> HIDE DEF bs
  <2>1. \A b \in bs : n - b \in Nat
    BY <1>1
  <2>2. 0 \in bs
    BY DEF bs
  <2> QED BY <2>1, <2>2
<1>3. PICK x \in left : \A y \in left : x <= y
  BY <1>2, LeastElement
<1>4. \E b \in bs : \A d \in bs : b >= d
  <2> HIDE DEF bs
  <2>1. PICK b \in bs : x = n - b
    BY <1>3
  <2>2. \A d \in bs : x <= n - d
    BY <1>3
  <2> HIDE DEF left
  <2>3. \A d \in bs : b >= d
    BY <1>1, <2>1, <2>2
  <2> QED BY <2>3
<1> HIDE DEF bs, left
<1>5. Max(bs) \in bs /\ \A d \in bs : Max(bs) >= d
  BY <1>4 DEF Max
<1>6. Latest(sites) = Max(bs)
  BY DEF Latest, bs
<1>7. Latest(sites) \in bs /\ \A d \in bs : d <= Latest(sites)
  BY <1>1, <1>5, <1>6
<1>8. Latest(sites) \in 0 .. n
  BY <1>1, <1>7
<1> QED
  BY <1>7, <1>8 DEF bs

\* It is the only such number.
LEMMA LatestIs ==
  ASSUME NEW n \in Nat, NEW sites \in SUBSET (0 .. n),
         NEW x \in sites \cup {0}, \A a \in sites : a <= x
  PROVE  Latest(sites) = x
<1>1. PICK y : y = Latest(sites)
  OBVIOUS
<1>2. y \in sites \cup {0} /\ y \in 0 .. n /\ \A a \in sites : a <= y
  BY <1>1, LatestFacts
<1>3. x \in 0 .. n
  OBVIOUS
<1>4. x <= y
  BY <1>2, <1>3
<1>5. y <= x
  BY <1>2, <1>3
<1> QED
  BY <1>1, <1>2, <1>3, <1>4, <1>5
-----------------------------------------------------------------------------
\* Words in memory.
LEMMA ReadSame ==
  ASSUME NEW mem \in Seq(Byte), NEW mem2 \in Seq(Byte), NEW a \in Nat,
         a + W <= Len(mem), a + W <= Len(mem2),
         \A i \in a + 1 .. a + W : mem2[i] = mem[i]
  PROVE  RdWord(mem2, a) = RdWord(mem, a)
<1>1. \A i \in 1 .. W : mem2[a + i] = mem[a + i]
  OBVIOUS
<1>2. /\ Bytes(mem, a, W) = [i \in 1 .. W |-> mem[a + i]]
      /\ Bytes(mem2, a, W) = [i \in 1 .. W |-> mem2[a + i]]
  BY BytesFacts
<1>3. Bytes(mem2, a, W) = Bytes(mem, a, W)
  BY <1>1, <1>2
<1> QED
  BY <1>3 DEF RdWord

\* A word that was written is read back; what is apart from it is as it was.
LEMMA WrWordFacts ==
  ASSUME NEW mem \in Seq(Byte), NEW a \in Nat, a + W <= Len(mem), NEW v \in Int
  PROVE  /\ WrWord(mem, a, v) \in Seq(Byte)
         /\ Len(WrWord(mem, a, v)) = Len(mem)
         /\ \A i \in 1 .. Len(mem) : i \notin a + 1 .. a + W => WrWord(mem, a, v)[i] = mem[i]
         /\ RdWord(WrWord(mem, a, v), a) = Wrap(v)
<1> DEFINE w == CodeWord(v)
           m == WrWord(mem, a, v)
<1>1. w \in Seq(Byte) /\ Len(w) = W
  BY CodeWordType
<1>2. /\ m \in Seq(Byte) /\ Len(m) = Len(mem)
      /\ \A i \in 1 .. Len(mem) : m[i] = IF i \in a + 1 .. a + W THEN w[i - a] ELSE mem[i]
  <2> HIDE DEF w
  <2>1. m = Overwrite(mem, a, w)
    BY DEF WrWord, w
  <2> HIDE DEF m
  <2> QED BY <1>1, <2>1, OverwriteFacts
<1> HIDE DEF w, m
<1>3. \A i \in 1 .. W : m[a + i] = w[i]
  BY <1>2
<1>4. Bytes(m, a, W) = w
  BY <1>1, <1>2, <1>3, BytesFacts
<1>5. RdWord(m, a) = Wrap(v)
  BY <1>4, CodeWordRoundTrip DEF RdWord, w
<1> QED
  BY <1>2, <1>5 DEF m
-----------------------------------------------------------------------------
\* A chain of references in a memory: they do not overlap, each but the first
\* has the one before it, and the first has 0.
IsChain(mem, sites) ==
  /\ mem \in Seq(Byte)
  /\ sites \in SUBSET (1 .. Len(mem))
  /\ \A a \in sites : a + W <= Len(mem)
  /\ \A a, b \in sites : a < b => a + W <= b
  /\ \A a \in sites : RdWord(mem, a) = Latest({b \in sites : b < a})

\* What the loop of fixup and fixupbranch has done when it is at chn: the words
\* after chn are as they are to be, those up to it as they were, and so is
\* everything else; and the loop has less to go than memory is long.
PatchedTo(mem, sites, words, n, x) ==
  /\ x.mem \in Seq(Byte) /\ Len(x.mem) = Len(mem)
  /\ x.chn \in sites \cup {0}
  /\ x.chn = 0 \/ x.chn <= Len(mem) - n
  /\ \A a \in sites : RdWord(x.mem, a) = IF a > x.chn THEN Wrap(words[a]) ELSE RdWord(mem, a)
  /\ \A i \in 1 .. Len(mem) : (\A a \in sites : i \notin a + 1 .. a + W) => x.mem[i] = mem[i]

PatchStep(words, x) ==
  IF x.chn = 0 THEN x
  ELSE [mem |-> WrWord(x.mem, x.chn, words[x.chn]), chn |-> RdWord(x.mem, x.chn)]

LEMMA PatchStepFacts ==
  ASSUME NEW mem, NEW sites, NEW words \in [Nat -> Int], NEW n \in Nat, NEW x,
         IsChain(mem, sites), PatchedTo(mem, sites, words, n, x)
  PROVE  PatchedTo(mem, sites, words, n + 1, PatchStep(words, x))
<1>1. PICK l \in Nat : l = Len(mem)
  BY DEF IsChain
<1>2. CASE x.chn = 0
  BY <1>2 DEF PatchedTo, PatchStep
<1>3. CASE x.chn # 0
  <2>1. PICK d \in sites : d = x.chn
    BY <1>3 DEF PatchedTo
  <2>2. d \in Nat /\ 1 <= d /\ d <= l - n /\ d + W <= l /\ words[d] \in Int
    BY <1>1, <1>3, <2>1 DEF PatchedTo, IsChain
  <2> DEFINE next == RdWord(x.mem, d)
             m    == WrWord(x.mem, d, words[d])
             lower == {b \in sites : b < d}
  <2>3. PatchStep(words, x) = [mem |-> m, chn |-> next]
    BY <1>3, <2>1 DEF PatchStep
  <2>4. next = Latest(lower)
    <3>1. RdWord(x.mem, d) = RdWord(mem, d)
      BY <2>1, <2>2 DEF PatchedTo
    <3> QED BY <3>1 DEF IsChain
  <2>5. next \in lower \cup {0} /\ \A b \in lower : b <= next
    <3>1. \A b \in sites : b \in 0 .. l
      BY <1>1 DEF IsChain
    <3>2. lower \in SUBSET (0 .. l)
      BY <3>1
    <3> HIDE DEF lower, next
    <3> QED BY <3>2, <2>4, LatestFacts
  <2>6. /\ m \in Seq(Byte) /\ Len(m) = l
        /\ \A i \in 1 .. l : i \notin d + 1 .. d + W => m[i] = x.mem[i]
        /\ RdWord(m, d) = Wrap(words[d])
    <3>1. x.mem \in Seq(Byte) /\ Len(x.mem) = l
      BY <1>1 DEF PatchedTo
    <3> QED BY <2>2, <3>1, WrWordFacts
  <2> HIDE DEF next, m
  <2>7. next \in sites \cup {0} /\ next < d /\ next \in Nat
    BY <2>2, <2>5 DEF IsChain
  <2>8. ASSUME NEW a \in sites
        PROVE  RdWord(m, a) = IF a > next THEN Wrap(words[a]) ELSE RdWord(mem, a)
    <3>1. a \in Nat /\ a + W <= l
      BY <1>1 DEF IsChain
    <3>2. CASE a = d
      BY <2>6, <2>7, <3>2
    <3>3. CASE a # d
      <4>1. a + W <= d \/ d + W <= a
        BY <2>2, <3>1, <3>3 DEF IsChain
      <4>2. \A i \in a + 1 .. a + W : i \in 1 .. l /\ i \notin d + 1 .. d + W
        BY <2>2, <3>1, <4>1
      <4>3. RdWord(m, a) = RdWord(x.mem, a)
        <5>1. x.mem \in Seq(Byte) /\ Len(x.mem) = l
          BY <1>1 DEF PatchedTo
        <5>2. \A i \in a + 1 .. a + W : m[i] = x.mem[i]
          BY <2>6, <4>2
        <5> QED BY <2>6, <3>1, <5>1, <5>2, ReadSame
      <4>4. RdWord(x.mem, a) = IF a > d THEN Wrap(words[a]) ELSE RdWord(mem, a)
        BY <2>1 DEF PatchedTo
      <4>5. a > d <=> a > next
        <5>1. a < d => a \in lower
          OBVIOUS
        <5>2. a < d => a <= next
          BY <2>5, <5>1
        <5> QED BY <2>2, <2>7, <3>1, <3>3, <5>2
      <4> QED BY <4>3, <4>4, <4>5
    <3> QED BY <3>2, <3>3
  <2>9. ASSUME NEW i \in 1 .. l, \A a \in sites : i \notin a + 1 .. a + W
        PROVE  m[i] = mem[i]
    BY <1>1, <2>6, <2>9 DEF PatchedTo
  <2>10. next = 0 \/ next <= l - (n + 1)
    BY <2>2, <2>7
  <2> DEFINE y == [mem |-> m, chn |-> next]
  <2>11. y.mem = m /\ y.chn = next
    OBVIOUS
  <2> HIDE DEF y
  <2>12. PatchedTo(mem, sites, words, n + 1, y)
    BY <1>1, <2>6, <2>7, <2>8, <2>9, <2>10, <2>11 DEF PatchedTo
  <2> QED BY <2>3, <2>12 DEF y
<1> QED
  BY <1>2, <1>3
\* Fixing up a chain writes each of its words, and nothing else.
THEOREM PatchedFacts ==
  ASSUME NEW mem, NEW sites, NEW words \in [Nat -> Int], IsChain(mem, sites)
  PROVE  LET m == Patched(mem, Latest(sites), words)
         IN  /\ m \in Seq(Byte) /\ Len(m) = Len(mem)
             /\ \A a \in sites : RdWord(m, a) = Wrap(words[a])
             /\ \A i \in 1 .. Len(mem) : (\A a \in sites : i \notin a + 1 .. a + W) => m[i] = mem[i]
<1> DEFINE State == [mem : Seq(Byte), chn : Int]
           step  == [x \in State |-> PatchStep(words, x)]
           start == [mem |-> mem, chn |-> Latest(sites)]
           To(n, x) == PatchedTo(mem, sites, words, n, x)
<1>1. PICK l \in Nat : l = Len(mem)
  BY DEF IsChain
<1>2. PatchedTo(mem, sites, words, 0, start)
  <2>1. sites \in SUBSET (0 .. l)
    <3>1. \A b \in sites : b \in 0 .. l
      BY <1>1 DEF IsChain
    <3> QED BY <3>1
  <2>2. PICK d : d = Latest(sites) /\ d \in sites \cup {0} /\ d \in 0 .. l /\ \A a \in sites : a <= d
    BY <2>1, LatestFacts
  <2>3. \A a \in sites : ~(a > d)
    BY <2>1, <2>2
  <2> QED BY <1>1, <2>2, <2>3 DEF PatchedTo, IsChain
<1>3. PICK f : Repeats(f, start, step)
  BY RecursionExists
<1>4. \A n \in Nat : f[n] \in State /\ To(n, f[n])
  <2> DEFINE S == {n \in Nat : f[n] \in State /\ To(n, f[n])}
  <2>1. 0 \in S
    <3>1. f[0] = start
      BY <1>3 DEF Repeats
    <3>2. start \in State
      BY <1>2 DEF PatchedTo, IsChain
    <3> QED BY <1>2, <3>1, <3>2
  <2>2. ASSUME NEW n \in Nat, n \in S PROVE n + 1 \in S
    <3>1. f[n + 1] = step[f[n]]
      <4>1. n + 1 \in Nat /\ n + 1 # 0 /\ (n + 1) - 1 = n
        OBVIOUS
      <4> HIDE DEF step, start, S
      <4> QED BY <1>3, <4>1 DEF Repeats
    <3>2. f[n + 1] = PatchStep(words, f[n])
      BY <2>2, <3>1
    <3>3. To(n + 1, f[n + 1])
      <4>1. To(n, f[n])
        BY <2>2
      <4> QED BY <3>2, <4>1, PatchStepFacts
    <3>4. \E u, v : f[n + 1] = [mem |-> u, chn |-> v]
      BY <2>2, <3>2 DEF PatchStep
    <3>5. f[n + 1] \in State
      <4>1. PICK u, v : f[n + 1] = [mem |-> u, chn |-> v]
        BY <3>4
      <4>2. u \in Seq(Byte)
        BY <3>3, <4>1 DEF PatchedTo
      <4>3. \A a \in sites : a \in Int
        BY DEF IsChain
      <4>4. v \in Int
        BY <3>3, <4>1, <4>3 DEF PatchedTo
      <4> QED BY <4>1, <4>2, <4>4
    <3> QED BY <3>3, <3>5
  <2> HIDE DEF S
  <2>3. Nat \subseteq S
    BY <2>1, <2>2, AllOf
  <2> QED BY <2>3 DEF S
<1> DEFINE Loop(h) ==
             h = [n \in 0 .. Len(mem) |->
                    IF n = 0 THEN [mem |-> mem, chn |-> Latest(sites)]
                    ELSE LET x == h[n - 1]
                         IN  IF x.chn = 0 THEN x
                             ELSE [mem |-> WrWord(x.mem, x.chn, words[x.chn]),
                                   chn |-> RdWord(x.mem, x.chn)]]
           after == CHOOSE h : Loop(h)
           end   == CHOOSE n \in 0 .. Len(mem) : after[n].chn = 0
<1>5. Patched(mem, Latest(sites), words) = after[end].mem
  BY DEF Patched
<1>6. ASSUME NEW h
      PROVE  Loop(h) <=> h = [n \in 0 .. l |-> IF n = 0 THEN start ELSE PatchStep(words, h[n - 1])]
  BY <1>1 DEF PatchStep
<1>7. Loop([n \in 0 .. l |-> f[n]])
  <2> DEFINE h == [n \in 0 .. l |-> f[n]]
  <2>1. \A n \in 0 .. l : h[n] = IF n = 0 THEN start ELSE PatchStep(words, h[n - 1])
    <3> TAKE n \in 0 .. l
    <3>1. CASE n = 0
      BY <1>3, <3>1 DEF Repeats
    <3>2. CASE n # 0
      <4>1. n - 1 \in Nat /\ n \in Nat /\ n - 1 \in 0 .. l
        BY <3>2
      <4>2. f[n] = step[f[n - 1]]
        BY <1>3, <3>2, <4>1 DEF Repeats
      <4>3. f[n - 1] \in State
        BY <1>4, <4>1
      <4> HIDE DEF State
      <4>4. f[n] = PatchStep(words, f[n - 1])
        BY <4>2, <4>3
      <4> QED BY <3>2, <4>1, <4>4
    <3> QED BY <3>1, <3>2
  <2>2. h = [n \in 0 .. l |-> IF n = 0 THEN start ELSE PatchStep(words, h[n - 1])]
    BY <2>1
  <2> HIDE DEF Loop, h
  <2> QED BY <1>6, <2>2 DEF h
<1>8. Loop(after)
  <2> HIDE DEF Loop
  <2> QED BY <1>7
<1> HIDE DEF Loop, after
<1>9. \A n \in 0 .. l : To(n, after[n])
  <2> DEFINE S == {n \in 0 .. l : To(n, after[n])}
  <2>1. after = [n \in 0 .. l |-> IF n = 0 THEN start ELSE PatchStep(words, after[n - 1])]
    BY <1>6, <1>8
  <2>2. 0 \in S
    BY <1>2, <2>1
  <2>3. ASSUME NEW n \in 0 .. l - 1, n \in S PROVE n + 1 \in S
    <3>1. n \in Nat /\ n + 1 \in 0 .. l /\ (n + 1) - 1 = n
      OBVIOUS
    <3>2. after[n + 1] = PatchStep(words, after[n])
      BY <2>1, <3>1
    <3>3. To(n, after[n])
      BY <2>3
    <3>4. To(n + 1, after[n + 1])
      BY <3>1, <3>2, <3>3, PatchStepFacts
    <3> QED BY <3>1, <3>4
  <2> HIDE DEF S
  <2>4. 0 .. l \subseteq S
    BY <2>2, <2>3, AllUpTo
  <2> QED BY <2>4 DEF S
<1>10. after[l].chn = 0
  <2>1. To(l, after[l])
    BY <1>9
  <2>2. after[l].chn \in sites \cup {0} /\ (after[l].chn = 0 \/ after[l].chn <= 0)
    BY <1>1, <2>1 DEF PatchedTo
  <2>3. \A a \in sites : a \in Nat /\ a >= 1
    BY DEF IsChain
  <2> QED BY <2>2, <2>3
<1>11. end \in 0 .. l /\ after[end].chn = 0
  BY <1>1, <1>10
<1> HIDE DEF end
<1>12. PICK x : x = after[end] /\ PatchedTo(mem, sites, words, end, x) /\ x.chn = 0
  BY <1>9, <1>11
<1>13. \A a \in sites : a > 0
  BY DEF IsChain
<1> QED
  BY <1>5, <1>12, <1>13 DEF PatchedTo
-----------------------------------------------------------------------------
(***************************************************************************)
(* The inductive invariant, of the four parts of the workspace that matter.  *)
(***************************************************************************)
Refs(refs, to) == {a \in DOMAIN refs : refs[a] = to}

Known(syms, landed, to) ==
  IF to[1] = "symbol" THEN syms[to[2]].placed ELSE to[2] \in DOMAIN landed
Goal(syms, landed, to, a) ==
  IF to[1] = "symbol" THEN syms[to[2]].value ELSE landed[to[2]] - (a + W)

IsSymbol(sym, top) ==
  /\ sym = [name |-> sym.name, class |-> sym.class, placed |-> sym.placed,
            value |-> sym.value, type |-> sym.type]
  /\ sym.placed \in BOOLEAN
  /\ sym.value \in 0 .. top

IsSymbols(syms, top) ==
  /\ \E S : syms \in Seq(S)
  /\ \A s \in DOMAIN syms : IsSymbol(syms[s], top)

\* References do not overlap, and address 0 is none.
SitesApart(refs, top) ==
  /\ \A a \in DOMAIN refs : a \in Nat \ {0} /\ a + W <= top
  /\ \A a, b \in DOMAIN refs : a < b => a + W <= b

IsLabel(syms, refs, to) ==
  \/ \E s \in DOMAIN syms : to = <<"symbol", s>>
  \/ \E r \in DOMAIN refs : to = <<"branch", r>> /\ refs[r] = to

Labelled(syms, refs, landed, top) ==
  /\ \A a \in DOMAIN refs : IsLabel(syms, refs, refs[a])
  /\ \A r \in DOMAIN landed : r \in DOMAIN refs /\ landed[r] \in 0 .. top

\* A word that refers to what is known has where it is; one that is waiting has
\* the one before it that waits for the same.
Words(mem, syms, refs, landed) ==
  \A a \in DOMAIN refs :
    RdWord(mem, a) = IF Known(syms, landed, refs[a]) THEN Goal(syms, landed, refs[a], a)
                     ELSE Latest({b \in Refs(refs, refs[a]) : b < a})

Heads(syms, refs) ==
  \A s \in DOMAIN syms : ~syms[s].placed => syms[s].value = Latest(Refs(refs, <<"symbol", s>>))

Sound(mem, syms, refs, landed) ==
  /\ mem \in Seq(Byte) /\ Len(mem) < AddressSpace
  /\ IsSymbols(syms, Len(mem))
  /\ SitesApart(refs, Len(mem))
  /\ Labelled(syms, refs, landed, Len(mem))
  /\ Words(mem, syms, refs, landed)
  /\ Heads(syms, refs)

\* Memory is only added to.
Extends(mem2, mem) ==
  /\ mem2 \in Seq(Byte) /\ Len(mem2) >= Len(mem)
  /\ \A i \in 1 .. Len(mem) : mem2[i] = mem[i]

LEMMA ExtendsFacts ==
  ASSUME NEW mem \in Seq(Byte), NEW mem2, Extends(mem2, mem), NEW refs, SitesApart(refs, Len(mem))
  PROVE  /\ Len(mem) \in Nat /\ Len(mem2) \in Nat /\ Len(mem) <= Len(mem2)
         /\ SitesApart(refs, Len(mem2))
         /\ \A a \in DOMAIN refs : RdWord(mem2, a) = RdWord(mem, a)
<1>1. PICK l \in Nat, m \in Nat : l = Len(mem) /\ m = Len(mem2) /\ l <= m
  BY DEF Extends
<1>2. SitesApart(refs, m)
  BY <1>1 DEF SitesApart
<1>3. ASSUME NEW a \in DOMAIN refs PROVE RdWord(mem2, a) = RdWord(mem, a)
  <2>1. a \in Nat /\ a + W <= l
    BY <1>1 DEF SitesApart
  <2>2. \A i \in a + 1 .. a + W : mem2[i] = mem[i]
    BY <1>1, <2>1 DEF Extends
  <2> QED BY <1>1, <2>1, <2>2, ReadSame DEF Extends
<1> QED
  BY <1>1, <1>2, <1>3

\* Code and data that refer to nothing, and what changes no symbol's place.
LEMMA ExtendsSound ==
  ASSUME NEW mem, NEW syms, NEW refs, NEW landed, Sound(mem, syms, refs, landed),
         NEW mem2, Extends(mem2, mem), Len(mem2) < AddressSpace,
         NEW syms2, IsSymbols(syms2, Len(mem2)), DOMAIN syms2 = DOMAIN syms,
         \A s \in DOMAIN syms : syms2[s].placed = syms[s].placed /\ syms2[s].value = syms[s].value
  PROVE  Sound(mem2, syms2, refs, landed)
<1>1. PICK l \in Nat, m \in Nat : l = Len(mem) /\ m = Len(mem2) /\ l <= m
  BY ExtendsFacts DEF Sound
<1>2. SitesApart(refs, m) /\ \A a \in DOMAIN refs : RdWord(mem2, a) = RdWord(mem, a)
  BY <1>1, ExtendsFacts DEF Sound
<1>3. Labelled(syms2, refs, landed, m)
  <2>1. \A r \in DOMAIN landed : r \in DOMAIN refs /\ landed[r] \in 0 .. l
    BY <1>1 DEF Sound, Labelled
  <2>2. \A r \in DOMAIN landed : r \in DOMAIN refs /\ landed[r] \in 0 .. m
    BY <1>1, <2>1
  <2> QED BY <2>2 DEF Sound, Labelled, IsLabel
<1>4. ASSUME NEW a \in DOMAIN refs
      PROVE  /\ Known(syms2, landed, refs[a]) = Known(syms, landed, refs[a])
             /\ Goal(syms2, landed, refs[a], a) = Goal(syms, landed, refs[a], a)
  <2>1. IsLabel(syms, refs, refs[a])
    BY DEF Sound, Labelled
  <2>2. CASE \E s \in DOMAIN syms : refs[a] = <<"symbol", s>>
    BY <2>2 DEF Known, Goal
  <2>3. CASE \E r \in DOMAIN refs : refs[a] = <<"branch", r>>
    BY <2>3 DEF Known, Goal
  <2> QED BY <2>1, <2>2, <2>3 DEF IsLabel
<1>5. Words(mem2, syms2, refs, landed)
  BY <1>2, <1>4 DEF Sound, Words
<1>6. Heads(syms2, refs)
  BY DEF Sound, Heads
<1> QED
  BY <1>1, <1>2, <1>3, <1>5, <1>6 DEF Sound, Extends

LEMMA NewSymbolSound ==
  ASSUME NEW mem, NEW syms, NEW refs, NEW landed, Sound(mem, syms, refs, landed),
         NEW sym, IsSymbol(sym, Len(mem)), ~sym.placed => sym.value = 0
  PROVE  Sound(mem, Append(syms, sym), refs, landed)
<1> DEFINE syms2 == Append(syms, sym)
<1>1. PICK n \in Nat : /\ DOMAIN syms = 1 .. n /\ DOMAIN syms2 = 1 .. n + 1
                       /\ \A s \in 1 .. n : syms2[s] = syms[s]
                       /\ syms2[n + 1] = sym
                       /\ \E S : syms2 \in Seq(S)
  <2>1. PICK S : syms \in Seq(S)
    BY DEF Sound, IsSymbols
  <2>2. syms \in Seq(S \cup {sym}) /\ sym \in S \cup {sym}
    BY <2>1
  <2> QED BY <2>2
<1> HIDE DEF syms2
<1>2. IsSymbols(syms2, Len(mem))
  BY <1>1 DEF Sound, IsSymbols
<1>3. ASSUME NEW a \in DOMAIN refs
      PROVE  /\ IsLabel(syms2, refs, refs[a])
             /\ refs[a] # <<"symbol", n + 1>>
             /\ Known(syms2, landed, refs[a]) = Known(syms, landed, refs[a])
             /\ Goal(syms2, landed, refs[a], a) = Goal(syms, landed, refs[a], a)
  <2>1. IsLabel(syms, refs, refs[a])
    BY DEF Sound, Labelled
  <2>2. CASE \E s \in DOMAIN syms : refs[a] = <<"symbol", s>>
    <3>1. PICK s \in 1 .. n : refs[a] = <<"symbol", s>>
      BY <1>1, <2>2
    <3>2. s \in 1 .. n + 1 /\ s # n + 1
      OBVIOUS
    <3> QED BY <1>1, <3>1, <3>2 DEF Known, Goal, IsLabel
  <2>3. CASE \E r \in DOMAIN refs : refs[a] = <<"branch", r>> /\ refs[r] = refs[a]
    BY <2>3 DEF Known, Goal, IsLabel
  <2> QED BY <2>1, <2>2, <2>3 DEF IsLabel
<1>4. Labelled(syms2, refs, landed, Len(mem))
  BY <1>3 DEF Sound, Labelled
<1>5. Words(mem, syms2, refs, landed)
  BY <1>3 DEF Sound, Words
<1>6. Heads(syms2, refs)
  <2>1. Refs(refs, <<"symbol", n + 1>>) = {}
    BY <1>3 DEF Refs
  <2>2. Latest({}) = 0
    BY LatestIs
  <2>3. ASSUME NEW s \in 1 .. n + 1, ~syms2[s].placed
        PROVE  syms2[s].value = Latest(Refs(refs, <<"symbol", s>>))
    <3>1. CASE s = n + 1
      BY <1>1, <2>1, <2>2, <2>3, <3>1
    <3>2. CASE s # n + 1
      <4>1. s \in 1 .. n
        BY <3>2
      <4> QED BY <1>1, <2>3, <4>1 DEF Sound, Heads
    <3> QED BY <3>1, <3>2
  <2> QED BY <1>1, <2>3 DEF Heads
<1> QED
  BY <1>2, <1>4, <1>5, <1>6 DEF Sound, syms2
\* A reference that is put where memory ends, at a: its word says where it goes,
\* or continues the chain of those that go there too.
PutsReference(mem, syms, refs, landed, mem2, syms2, refs2, landed2, a, to) ==
  /\ Extends(mem2, mem) /\ Len(mem2) < AddressSpace
  /\ a \in Nat /\ a > Len(mem) /\ a + W <= Len(mem2)
  /\ refs2 = Noted(refs, a, to)
  /\ IsSymbols(syms2, Len(mem2)) /\ DOMAIN syms2 = DOMAIN syms
  /\ Labelled(syms2, refs2, landed2, Len(mem2))
  /\ RdWord(mem2, a) = IF Known(syms2, landed2, to) THEN Goal(syms2, landed2, to, a)
                       ELSE Latest(Refs(refs, to))
  /\ \A b \in DOMAIN refs :
       /\ Known(syms2, landed2, refs[b]) = Known(syms, landed, refs[b])
       /\ Known(syms, landed, refs[b]) =>
            Goal(syms2, landed2, refs[b], b) = Goal(syms, landed, refs[b], b)
  /\ \A s \in DOMAIN syms : ~syms2[s].placed =>
       /\ ~syms[s].placed
       /\ syms2[s].value = IF to = <<"symbol", s>> THEN a ELSE syms[s].value

LEMMA NewReferenceSound ==
  ASSUME NEW mem, NEW syms, NEW refs, NEW landed, Sound(mem, syms, refs, landed),
         NEW mem2, NEW syms2, NEW refs2, NEW landed2, NEW a, NEW to,
         PutsReference(mem, syms, refs, landed, mem2, syms2, refs2, landed2, a, to)
  PROVE  Sound(mem2, syms2, refs2, landed2)
<1> USE DEF PutsReference
<1>1. PICK l \in Nat, m \in Nat : l = Len(mem) /\ m = Len(mem2) /\ l <= m
  BY ExtendsFacts DEF Sound
<1>2. SitesApart(refs, l) /\ SitesApart(refs, m) /\ \A b \in DOMAIN refs : RdWord(mem2, b) = RdWord(mem, b)
  BY <1>1, ExtendsFacts DEF Sound
<1>3. \A b \in DOMAIN refs : b \in Nat \ {0} /\ b + W < a /\ b < a
  BY <1>1, <1>2 DEF SitesApart
<1>4. /\ DOMAIN refs2 = DOMAIN refs \cup {a}
      /\ refs2[a] = to
      /\ \A b \in DOMAIN refs : refs2[b] = refs[b]
  BY <1>3 DEF Noted
<1>5. SitesApart(refs2, m)
  BY <1>1, <1>2, <1>3, <1>4 DEF SitesApart
<1>6. \A w : Refs(refs2, w) = IF w = to THEN Refs(refs, w) \cup {a} ELSE Refs(refs, w)
  BY <1>3, <1>4 DEF Refs
<1>7. ASSUME NEW b \in DOMAIN refs2
      PROVE  RdWord(mem2, b) = IF Known(syms2, landed2, refs2[b]) THEN Goal(syms2, landed2, refs2[b], b)
                               ELSE Latest({d \in Refs(refs2, refs2[b]) : d < b})
  <2>1. CASE b = a
    <3>1. {d \in Refs(refs2, to) : d < a} = Refs(refs, to)
      <4>1. \A d \in Refs(refs, to) : d < a
        BY <1>3 DEF Refs
      <4>2. Refs(refs2, to) = Refs(refs, to) \cup {a}
        BY <1>6
      <4> QED BY <4>1, <4>2
    <3> QED BY <1>4, <2>1, <3>1
  <2>2. CASE b # a
    <3>1. b \in DOMAIN refs /\ refs2[b] = refs[b]
      BY <1>4, <2>2
    <3>2. {d \in Refs(refs2, refs[b]) : d < b} = {d \in Refs(refs, refs[b]) : d < b}
      <4>1. ~(a < b)
        BY <1>3, <3>1
      <4> QED BY <1>6, <4>1
    <3>3. RdWord(mem, b) = IF Known(syms, landed, refs[b]) THEN Goal(syms, landed, refs[b], b)
                           ELSE Latest({d \in Refs(refs, refs[b]) : d < b})
      BY <3>1 DEF Sound, Words
    <3> QED BY <1>2, <3>1, <3>2, <3>3
  <2> QED BY <2>1, <2>2
<1>8. Words(mem2, syms2, refs2, landed2)
  BY <1>7 DEF Words
<1>9. Heads(syms2, refs2)
  <2> SUFFICES ASSUME NEW s \in DOMAIN syms, ~syms2[s].placed
               PROVE  syms2[s].value = Latest(Refs(refs2, <<"symbol", s>>))
    BY DEF Heads
  <2>1. ~syms[s].placed /\ syms[s].value = Latest(Refs(refs, <<"symbol", s>>))
    BY DEF Sound, Heads
  <2>2. CASE to = <<"symbol", s>>
    <3>1. Refs(refs2, to) = Refs(refs, to) \cup {a}
      BY <1>6
    <3>2. \A b \in Refs(refs2, to) : b \in 0 .. a
      BY <1>3, <3>1 DEF Refs
    <3>3. Latest(Refs(refs2, to)) = a
      <4> DEFINE S == Refs(refs2, to)
      <4>1. S \in SUBSET (0 .. a) /\ a \in S \cup {0} /\ \A b \in S : b <= a
        BY <3>1, <3>2
      <4> HIDE DEF S
      <4>2. Latest(S) = a
        BY <4>1, LatestIs
      <4> QED BY <4>2 DEF S
    <3> QED BY <2>2, <3>3
  <2>3. CASE to # <<"symbol", s>>
    BY <1>6, <2>1, <2>3
  <2> QED BY <2>2, <2>3
<1> QED
  BY <1>1, <1>5, <1>8, <1>9 DEF Sound, Extends

\* Bytes that change are those of the references to one place.
ChangedOnlyAt(mem2, mem, sites) ==
  \A i \in 1 .. Len(mem) : mem2[i] # mem[i] => \E a \in sites : i \in a + 1 .. a + W

\* The place that the references of a chain wait for becomes known.
LEMMA ResolveSound ==
  ASSUME NEW mem, NEW syms, NEW refs, NEW landed, Sound(mem, syms, refs, landed),
         NEW to, ~Known(syms, landed, to),
         NEW words \in [Nat -> Int],
         NEW mem2, mem2 = Patched(mem, Latest(Refs(refs, to)), words),
         NEW syms2, IsSymbols(syms2, Len(mem)), DOMAIN syms2 = DOMAIN syms,
         NEW landed2, Labelled(syms2, refs, landed2, Len(mem)),
         Known(syms2, landed2, to),
         \A a \in Refs(refs, to) : /\ words[a] \in -AddressSpace .. AddressSpace - 1
                                   /\ Goal(syms2, landed2, to, a) = words[a],
         \A b \in DOMAIN refs : refs[b] # to =>
           /\ Known(syms2, landed2, refs[b]) = Known(syms, landed, refs[b])
           /\ Known(syms, landed, refs[b]) =>
                Goal(syms2, landed2, refs[b], b) = Goal(syms, landed, refs[b], b),
         \A s \in DOMAIN syms : ~syms2[s].placed => ~syms[s].placed /\ syms2[s].value = syms[s].value
  PROVE  /\ Sound(mem2, syms2, refs, landed2)
         /\ Len(mem2) = Len(mem)
         /\ ChangedOnlyAt(mem2, mem, Refs(refs, to))
<1> DEFINE sites == Refs(refs, to)
<1>1. IsChain(mem, sites)
  <2>1. PICK l \in Nat : l = Len(mem)
    BY DEF Sound
  <2>2. \A a \in sites : a \in DOMAIN refs /\ refs[a] = to
    BY DEF Refs
  <2>3. \A a \in sites : a \in 1 .. l /\ a + W <= l
    BY <2>1, <2>2 DEF Sound, SitesApart
  <2>4. \A a, b \in sites : a < b => a + W <= b
    BY <2>2 DEF Sound, SitesApart
  <2>5. \A a \in sites : RdWord(mem, a) = Latest({b \in sites : b < a})
    BY <2>2 DEF Sound, Words
  <2> HIDE DEF sites
  <2> QED BY <2>1, <2>3, <2>4, <2>5 DEF IsChain, Sound
<1>2. /\ mem2 \in Seq(Byte) /\ Len(mem2) = Len(mem)
      /\ \A a \in sites : RdWord(mem2, a) = Wrap(words[a])
      /\ \A i \in 1 .. Len(mem) : (\A a \in sites : i \notin a + 1 .. a + W) => mem2[i] = mem[i]
  <2> HIDE DEF sites
  <2>1. mem2 = Patched(mem, Latest(sites), words)
    BY DEF sites
  <2> QED BY <1>1, <2>1, PatchedFacts
<1>3. \A a \in sites : RdWord(mem2, a) = Goal(syms2, landed2, to, a)
  <2> HIDE DEF sites
  <2> TAKE a \in sites
  <2>1. words[a] \in -AddressSpace .. AddressSpace - 1 /\ Goal(syms2, landed2, to, a) = words[a]
    BY DEF sites
  <2>2. Wrap(words[a]) = words[a]
    BY <2>1, WrapFacts
  <2> QED BY <1>2, <2>1, <2>2
<1>4. ASSUME NEW b \in DOMAIN refs, b \notin sites PROVE RdWord(mem2, b) = RdWord(mem, b)
  <2>1. PICK l \in Nat : l = Len(mem)
    BY DEF Sound
  <2>2. b \in Nat /\ b + W <= l
    BY <2>1 DEF Sound, SitesApart
  <2>3. ASSUME NEW i \in b + 1 .. b + W, NEW a \in sites PROVE i \notin a + 1 .. a + W
    <3>1. a \in DOMAIN refs /\ a # b
      BY <1>4 DEF Refs
    <3>2. a \in Nat /\ (a + W <= b \/ b + W <= a)
      BY <2>2, <3>1 DEF Sound, SitesApart
    <3> QED BY <2>2, <3>2
  <2>4. \A i \in b + 1 .. b + W : mem2[i] = mem[i]
    <3> HIDE DEF sites
    <3> TAKE i \in b + 1 .. b + W
    <3>1. i \in 1 .. l
      BY <2>2
    <3> QED BY <1>2, <2>1, <2>3, <3>1
  <2> QED BY <1>2, <2>1, <2>2, <2>4, ReadSame DEF Sound
<1>5. Words(mem2, syms2, refs, landed2)
  <2> SUFFICES ASSUME NEW b \in DOMAIN refs
               PROVE  RdWord(mem2, b) = IF Known(syms2, landed2, refs[b]) THEN Goal(syms2, landed2, refs[b], b)
                                        ELSE Latest({d \in Refs(refs, refs[b]) : d < b})
    BY DEF Words
  <2>1. CASE refs[b] = to
    BY <1>3, <2>1 DEF Refs
  <2>2. CASE refs[b] # to
    <3>1. b \notin sites
      BY <2>2 DEF Refs
    <3> QED BY <1>4, <2>2, <3>1 DEF Sound, Words
  <2> QED BY <2>1, <2>2
<1>6. Heads(syms2, refs)
  BY DEF Sound, Heads
<1>7. ChangedOnlyAt(mem2, mem, sites)
  <2> HIDE DEF sites
  <2> QED BY <1>2 DEF ChangedOnlyAt
<1> QED
  BY <1>2, <1>5, <1>6, <1>7 DEF Sound
-----------------------------------------------------------------------------
(***************************************************************************)
(* The operations, on a workspace x.                                         *)
(***************************************************************************)
IsWorkspace(x) ==
  x = [mem |-> x.mem, syms |-> x.syms, funs |-> x.funs, pv |-> x.pv, gen |-> x.gen,
       refs |-> x.refs, landed |-> x.landed]

SoundWorkspace(x) == IsWorkspace(x) /\ Sound(x.mem, x.syms, x.refs, x.landed)

\* What PatchedOnce says of a step.
Kept(x, y) ==
  /\ Len(y.mem) >= Len(x.mem)
  /\ \A i \in 1 .. Len(x.mem) : y.mem[i] # x.mem[i] =>
       \E a \in DOMAIN x.refs : /\ i \in a + 1 .. a + W
                                /\ ~Known(x.syms, x.landed, x.refs[a])
                                /\ Known(y.syms, y.landed, y.refs[a])

\* What adds to memory, and changes symbols but for where they are.
LEMMA GrowFacts ==
  ASSUME NEW x, SoundWorkspace(x), NEW y, IsWorkspace(y),
         Extends(y.mem, x.mem), Len(y.mem) < AddressSpace,
         y.refs = x.refs, y.landed = x.landed,
         IsSymbols(y.syms, Len(x.mem)), DOMAIN y.syms = DOMAIN x.syms,
         \A s \in DOMAIN x.syms : /\ y.syms[s].placed = x.syms[s].placed
                                  /\ y.syms[s].value = x.syms[s].value
  PROVE  SoundWorkspace(y) /\ Kept(x, y)
<1>1. PICK l \in Nat, m \in Nat : l = Len(x.mem) /\ m = Len(y.mem) /\ l <= m
  BY DEF SoundWorkspace, Sound, Extends
<1>2. IsSymbols(y.syms, m)
  <2>1. \A sym : IsSymbol(sym, l) => IsSymbol(sym, m)
    <3> TAKE sym
    <3> HAVE IsSymbol(sym, l)
    <3>1. sym.value \in 0 .. m
      BY <1>1 DEF IsSymbol
    <3> QED BY <3>1 DEF IsSymbol
  <2> QED BY <1>1, <2>1 DEF IsSymbols
<1>3. Sound(y.mem, y.syms, y.refs, y.landed)
  BY <1>1, <1>2, ExtendsSound DEF SoundWorkspace
<1>4. Kept(x, y)
  BY <1>1 DEF Kept, Extends
<1> QED
  BY <1>3, <1>4 DEF SoundWorkspace

LEMMA OnlyMemory ==
  ASSUME NEW x, SoundWorkspace(x), NEW mem, Extends(mem, x.mem), Len(mem) < AddressSpace
  PROVE  LET y == [x EXCEPT !.mem = mem] IN SoundWorkspace(y) /\ Kept(x, y)
<1> DEFINE y == [x EXCEPT !.mem = mem]
<1>1. y = [mem |-> mem, syms |-> x.syms, funs |-> x.funs, pv |-> x.pv, gen |-> x.gen,
           refs |-> x.refs, landed |-> x.landed]
  BY DEF SoundWorkspace, IsWorkspace
<1> HIDE DEF y
<1>2. IsWorkspace(y) /\ y.mem = mem /\ y.syms = x.syms /\ y.refs = x.refs /\ y.landed = x.landed
  BY <1>1 DEF IsWorkspace
<1>3. IsSymbols(y.syms, Len(x.mem))
  BY <1>2 DEF SoundWorkspace, Sound
<1>4. SoundWorkspace(y) /\ Kept(x, y)
  BY <1>2, <1>3, GrowFacts
<1> QED
  BY <1>4 DEF y

LEMMA ConcatExtends ==
  ASSUME NEW mem \in Seq(Byte), NEW bytes \in Seq(Byte)
  PROVE  Extends(mem \o bytes, mem) /\ Len(mem \o bytes) = Len(mem) + Len(bytes)
<1>1. Len(mem) \in Nat /\ Len(bytes) \in Nat
  OBVIOUS
<1>2. mem \o bytes \in Seq(Byte)
  OBVIOUS
<1>3. Len(mem \o bytes) = Len(mem) + Len(bytes)
  BY ConcatProperties, Zenon
<1>4. \A i \in 1 .. Len(mem) : (mem \o bytes)[i] = mem[i]
  BY <1>1
<1> QED
  BY <1>1, <1>2, <1>3, <1>4 DEF Extends

LEMMA ByteExtends ==
  ASSUME NEW mem \in Seq(Byte), NEW b \in Int
  PROVE  Extends(Append(mem, b % 256), mem) /\ Len(Append(mem, b % 256)) = Len(mem) + 1
<1>1. b % 256 \in Byte
  BY DEF Byte
<1> QED
  BY <1>1 DEF Extends

LEMMA PutBytesFacts ==
  ASSUME NEW x, SoundWorkspace(x), NEW y, Len(y.mem) < AddressSpace,
         \/ \E b \in Int : y = PutByte(x, b)
         \/ \E w \in Int : y = PutWord(x, w) \/ y = PutData(x, w)
         \/ \E bytes \in Seq(Byte) : y = PutBytes(x, bytes)
  PROVE  SoundWorkspace(y) /\ Kept(x, y)
<1>1. ASSUME NEW mem, Extends(mem, x.mem), y = [x EXCEPT !.mem = mem]
      PROVE  SoundWorkspace(y) /\ Kept(x, y)
  <2>1. y.mem = mem
    BY <1>1 DEF SoundWorkspace, IsWorkspace
  <2> QED BY <1>1, <2>1, OnlyMemory
<1>2. x.mem \in Seq(Byte)
  BY DEF SoundWorkspace, Sound
<1>3. ASSUME NEW b \in Int, y = PutByte(x, b) PROVE SoundWorkspace(y) /\ Kept(x, y)
  <2>1. y = [x EXCEPT !.mem = Append(x.mem, b % 256)]
    BY <1>3 DEF PutByte
  <2> QED BY <1>1, <1>2, <2>1, ByteExtends
<1>4. ASSUME NEW bytes \in Seq(Byte), y = [x EXCEPT !.mem = x.mem \o bytes]
      PROVE  SoundWorkspace(y) /\ Kept(x, y)
  BY <1>1, <1>2, <1>4, ConcatExtends
<1>5. ASSUME NEW w \in Int PROVE CodeWord(w) \in Seq(Byte) /\ DataWord(w) \in Seq(Byte)
  <2> DEFINE s == CodeWord(w)
  <2>1. s \in Seq(Byte)
    BY CodeWordType
  <2> HIDE DEF s
  <2>2. Reverse(s) \in Seq(Byte)
    BY <2>1 DEF Reverse
  <2> QED BY <2>1, <2>2 DEF s, DataWord
<1>6. ASSUME NEW w \in Int, y = PutWord(x, w) \/ y = PutData(x, w)
      PROVE  SoundWorkspace(y) /\ Kept(x, y)
  <2>1. y = [x EXCEPT !.mem = x.mem \o CodeWord(w)] \/ y = [x EXCEPT !.mem = x.mem \o DataWord(w)]
    BY <1>6 DEF PutWord, PutData
  <2> QED BY <1>4, <1>5, <2>1
<1>7. ASSUME NEW bytes \in Seq(Byte), y = PutBytes(x, bytes)
      PROVE  SoundWorkspace(y) /\ Kept(x, y)
  BY <1>4, <1>7 DEF PutBytes
<1> QED
  BY <1>3, <1>6, <1>7

LEMMA NoteFacts ==
  ASSUME NEW x, SoundWorkspace(x), NEW funs, NEW pv, NEW gen
  PROVE  LET y == [x EXCEPT !.funs = funs, !.pv = pv, !.gen = gen]
         IN  SoundWorkspace(y) /\ Kept(x, y)
<1> DEFINE y == [x EXCEPT !.funs = funs, !.pv = pv, !.gen = gen]
<1>1. y = [mem |-> x.mem, syms |-> x.syms, funs |-> funs, pv |-> pv, gen |-> gen,
           refs |-> x.refs, landed |-> x.landed]
  <2> DEFINE y1 == [x EXCEPT !.funs = funs]
             y2 == [y1 EXCEPT !.pv = pv]
             y3 == [y2 EXCEPT !.gen = gen]
  <2>1. y = y3
    OBVIOUS
  <2>2. y1 = [mem |-> x.mem, syms |-> x.syms, funs |-> funs, pv |-> x.pv, gen |-> x.gen,
              refs |-> x.refs, landed |-> x.landed]
    BY DEF SoundWorkspace, IsWorkspace
  <2> HIDE DEF y1
  <2>3. y2 = [mem |-> x.mem, syms |-> x.syms, funs |-> funs, pv |-> pv, gen |-> x.gen,
              refs |-> x.refs, landed |-> x.landed]
    BY <2>2
  <2> HIDE DEF y2
  <2>4. y3 = [mem |-> x.mem, syms |-> x.syms, funs |-> funs, pv |-> pv, gen |-> gen,
              refs |-> x.refs, landed |-> x.landed]
    BY <2>3
  <2> HIDE DEF y3
  <2> QED BY <2>1, <2>4
<1> HIDE DEF y
<1>2. /\ IsWorkspace(y) /\ y.mem = x.mem
      /\ y.syms = x.syms /\ y.refs = x.refs /\ y.landed = x.landed
  BY <1>1 DEF IsWorkspace
<1>3. Sound(y.mem, y.syms, y.refs, y.landed)
  BY <1>2 DEF SoundWorkspace
<1>4. Kept(x, y)
  BY <1>2 DEF Kept, SoundWorkspace, Sound
<1>5. SoundWorkspace(y) /\ Kept(x, y)
  BY <1>2, <1>3, <1>4 DEF SoundWorkspace
<1> QED
  BY <1>5 DEF y

\* A workspace with other symbols.
LEMMA OtherSymbols ==
  ASSUME NEW x, IsWorkspace(x), NEW syms
  PROVE  LET y == [x EXCEPT !.syms = syms]
         IN  /\ IsWorkspace(y) /\ y.syms = syms
             /\ y.mem = x.mem /\ y.refs = x.refs /\ y.landed = x.landed /\ y.gen = x.gen
<1> DEFINE y == [x EXCEPT !.syms = syms]
<1>1. y = [mem |-> x.mem, syms |-> syms, funs |-> x.funs, pv |-> x.pv, gen |-> x.gen,
           refs |-> x.refs, landed |-> x.landed]
  BY DEF IsWorkspace
<1> HIDE DEF y
<1>2. /\ IsWorkspace(y) /\ y.syms = syms
      /\ y.mem = x.mem /\ y.refs = x.refs /\ y.landed = x.landed /\ y.gen = x.gen
  BY <1>1 DEF IsWorkspace
<1> QED
  BY <1>2 DEF y

LEMMA OtherSymbol ==
  ASSUME NEW syms, NEW top, IsSymbols(syms, top), NEW s \in DOMAIN syms, NEW sym, IsSymbol(sym, top)
  PROVE  LET syms2 == [syms EXCEPT ![s] = sym]
         IN  /\ IsSymbols(syms2, top) /\ DOMAIN syms2 = DOMAIN syms /\ syms2[s] = sym
             /\ \A r \in DOMAIN syms : r # s => syms2[r] = syms[r]
<1> DEFINE syms2 == [syms EXCEPT ![s] = sym]
<1>1. PICK S : syms \in Seq(S)
  BY DEF IsSymbols
<1>2. syms \in Seq(S \cup {sym}) /\ sym \in S \cup {sym}
  BY <1>1
<1>3. /\ syms2 \in Seq(S \cup {sym})
      /\ DOMAIN syms2 = DOMAIN syms /\ syms2[s] = sym
      /\ \A r \in DOMAIN syms : r # s => syms2[r] = syms[r]
  BY <1>2
<1> HIDE DEF syms2
<1>4. IsSymbols(syms2, top)
  BY <1>3 DEF IsSymbols
<1> QED
  BY <1>3, <1>4 DEF syms2

LEMMA AddedSymbol ==
  ASSUME NEW x, SoundWorkspace(x), NEW sym, IsSymbol(sym, Len(x.mem)), ~sym.placed => sym.value = 0
  PROVE  LET y == [x EXCEPT !.syms = Append(x.syms, sym)]
         IN  SoundWorkspace(y) /\ Kept(x, y)
<1> DEFINE syms2 == Append(x.syms, sym)
           y == [x EXCEPT !.syms = syms2]
<1>1. Sound(x.mem, syms2, x.refs, x.landed)
  BY NewSymbolSound DEF SoundWorkspace
<1> HIDE DEF syms2
<1>2. /\ IsWorkspace(y) /\ y.syms = syms2
      /\ y.mem = x.mem /\ y.refs = x.refs /\ y.landed = x.landed
  BY OtherSymbols DEF SoundWorkspace
<1> HIDE DEF y
<1>3. SoundWorkspace(y)
  BY <1>1, <1>2 DEF SoundWorkspace
<1>4. Kept(x, y)
  BY <1>2 DEF Kept, SoundWorkspace, Sound
<1> QED
  BY <1>3, <1>4 DEF y, syms2

LEMMA DeclareFacts ==
  ASSUME NEW x, SoundWorkspace(x), NEW name, NEW class, NEW type, NEW a \in 0 .. Len(x.mem)
  PROVE  /\ LET y == AddSymbol(x, NewSymbol(name, class, 0, type))
            IN  SoundWorkspace(y) /\ Kept(x, y)
         /\ LET y == MarkPlaced(AddSymbol(x, NewSymbol(name, class, a, type)))
            IN  SoundWorkspace(y) /\ Kept(x, y)
<1>1. SoundWorkspace(AddSymbol(x, NewSymbol(name, class, 0, type))) /\ Kept(x, AddSymbol(x, NewSymbol(name, class, 0, type)))
  <2> DEFINE sym == NewSymbol(name, class, 0, type)
  <2>1. IsSymbol(sym, Len(x.mem)) /\ sym.value = 0
    BY DEF IsSymbol, NewSymbol
  <2> HIDE DEF sym
  <2>2. AddSymbol(x, sym) = [x EXCEPT !.syms = Append(x.syms, sym)]
    BY DEF AddSymbol
  <2> QED BY <2>1, <2>2, AddedSymbol DEF sym
<1>2. SoundWorkspace(MarkPlaced(AddSymbol(x, NewSymbol(name, class, a, type))))
      /\ Kept(x, MarkPlaced(AddSymbol(x, NewSymbol(name, class, a, type))))
  <2> DEFINE sym  == NewSymbol(name, class, a, type)
             sym2 == [name |-> name, class |-> class, placed |-> TRUE, value |-> a, type |-> type]
             z == AddSymbol(x, sym)
             n == Len(z.syms)
             y == MarkPlaced(z)
             syms2 == [z.syms EXCEPT ![n] = [z.syms[n] EXCEPT !.placed = TRUE]]
  <2>1. y = [z EXCEPT !.syms = syms2]
    <3> HIDE DEF z
    <3> QED BY DEF MarkPlaced
  <2>2. z = [x EXCEPT !.syms = Append(x.syms, sym)]
    BY DEF AddSymbol
  <2>3. IsWorkspace(z) /\ z.syms = Append(x.syms, sym)
    <3> HIDE DEF sym, z
    <3> DEFINE syms3 == Append(x.syms, sym)
    <3> HIDE DEF syms3
    <3>1. z = [x EXCEPT !.syms = syms3]
      BY <2>2 DEF syms3
    <3>2. IsWorkspace(z) /\ z.syms = syms3
      BY <3>1, OtherSymbols DEF SoundWorkspace
    <3> QED BY <3>2 DEF syms3
  <2>4. PICK S : x.syms \in Seq(S)
    BY DEF SoundWorkspace, Sound, IsSymbols
  <2>5. [sym EXCEPT !.placed = TRUE] = sym2
    <3>1. sym = [name |-> name, class |-> class, placed |-> FALSE, value |-> a, type |-> type]
      BY DEF NewSymbol
    <3>2. PICK true : true = TRUE
      OBVIOUS
    <3> HIDE DEF sym
    <3>3. [sym EXCEPT !.placed = true] =
            [name |-> name, class |-> class, placed |-> true, value |-> a, type |-> type]
      BY <3>1
    <3> QED BY <3>2, <3>3
  <2> HIDE DEF sym, z
  <2>6. n = Len(x.syms) + 1 /\ z.syms[n] = sym
    <3>1. x.syms \in Seq(S \cup {sym})
      BY <2>4
    <3> QED BY <2>3, <3>1
  <2>7. syms2 = [z.syms EXCEPT ![n] = sym2]
    BY <2>5, <2>6
  <2>8. syms2 = Append(x.syms, sym2)
    <3>1. x.syms \in Seq(S \cup {sym, sym2})
      BY <2>4
    <3> DEFINE t == Append(x.syms, sym)
               v == Append(x.syms, sym2)
    <3> HIDE DEF syms2, sym2, n
    <3>2. /\ t \in Seq(S \cup {sym, sym2}) /\ DOMAIN t = 1 .. n
          /\ v \in Seq(S \cup {sym, sym2}) /\ DOMAIN v = 1 .. n
          /\ n \in Nat /\ v[n] = sym2 /\ \A i \in 1 .. n : i # n => v[i] = t[i]
      BY <2>6, <3>1
    <3>3. z.syms = t
      BY <2>3
    <3> HIDE DEF t, v
    <3>4. syms2 = [i \in 1 .. n |-> IF i = n THEN sym2 ELSE t[i]]
      BY <2>7, <3>2, <3>3
    <3>5. v = [i \in 1 .. n |-> v[i]]
      BY <3>2
    <3>6. syms2 = v
      BY <3>2, <3>4, <3>5
    <3> QED BY <3>6 DEF v
  <2>9. IsSymbol(sym2, Len(x.mem)) /\ sym2.placed
    BY DEF IsSymbol
  <2>10. y = [x EXCEPT !.syms = Append(x.syms, sym2)]
    <3>1. y = [[x EXCEPT !.syms = Append(x.syms, sym)] EXCEPT !.syms = Append(x.syms, sym2)]
      <4> HIDE DEF syms2, sym2, y
      <4> QED BY <2>1, <2>2, <2>8
    <3> DEFINE u == Append(x.syms, sym)
               v == Append(x.syms, sym2)
    <3> HIDE DEF u, v, y
    <3>2. y = [[x EXCEPT !.syms = u] EXCEPT !.syms = v]
      BY <3>1 DEF u, v
    <3>3. [[x EXCEPT !.syms = u] EXCEPT !.syms = v] = [x EXCEPT !.syms = v]
      OBVIOUS
    <3> QED BY <3>2, <3>3 DEF v
  <2> HIDE DEF sym2, y
  <2>11. SoundWorkspace(y) /\ Kept(x, y)
    BY <2>9, <2>10, AddedSymbol
  <2> QED BY <2>11 DEF y, z, sym
<1> QED
  BY <1>1, <1>2

\* Assigning to one field of a symbol and then to another is assigning the symbol.
SetSymbol(x, s, sym) == [x EXCEPT !.syms = [x.syms EXCEPT ![s] = sym]]

LEMMA SymbolTwice ==
  ASSUME NEW x, IsWorkspace(x), NEW s \in DOMAIN x.syms, NEW r1, NEW r2
  PROVE  /\ SetSymbol(x, s, r1).syms[s] = r1
         /\ SetSymbol(SetSymbol(x, s, r1), s, r2) = SetSymbol(x, s, r2)
<1> DEFINE syms1 == [x.syms EXCEPT ![s] = r1]
           syms2 == [x.syms EXCEPT ![s] = r2]
           z == [x EXCEPT !.syms = syms1]
<1>1. syms1[s] = r1 /\ [syms1 EXCEPT ![s] = r2] = syms2
  OBVIOUS
<1> HIDE DEF syms1
<1>2. z.syms = syms1
  BY OtherSymbols
<1>3. [z EXCEPT !.syms = syms2] = [x EXCEPT !.syms = syms2]
  <2> HIDE DEF syms2
  <2> QED OBVIOUS
<1> HIDE DEF syms2
<1>4. z.syms[s] = r1 /\ [z.syms EXCEPT ![s] = r2] = syms2
  BY <1>1, <1>2
<1> HIDE DEF z
<1>5. [z EXCEPT !.syms = [z.syms EXCEPT ![s] = r2]] = [x EXCEPT !.syms = syms2]
  BY <1>3, <1>4 DEF z
<1> QED
  BY <1>4, <1>5 DEF z, syms1, syms2, SetSymbol

LEMMA ClassifyFacts ==
  ASSUME NEW x, SoundWorkspace(x), NEW s \in DOMAIN x.syms, NEW class, NEW type
  PROVE  LET y == SetClass(x, s, class, type) IN SoundWorkspace(y) /\ Kept(x, y)
<1> DEFINE y  == SetClass(x, s, class, type)
           sym == x.syms[s]
           r1 == [sym EXCEPT !.class = class]
           r2 == [r1 EXCEPT !.type = type]
           z  == SetSymbol(x, s, r1)
           syms2 == [x.syms EXCEPT ![s] = r2]
<1>1. y = SetSymbol(z, s, [z.syms[s] EXCEPT !.type = type])
  BY DEF SetClass, SetSymbol
<1>2. z.syms[s] = r1 /\ SetSymbol(z, s, r2) = SetSymbol(x, s, r2)
  <2> HIDE DEF r1, r2
  <2>1. IsWorkspace(x)
    BY DEF SoundWorkspace
  <2> QED BY <2>1, SymbolTwice, Zenon
<1>3. y = [x EXCEPT !.syms = syms2]
  <2> HIDE DEF r1, z, y
  <2>1. y = SetSymbol(x, s, r2)
    BY <1>1, <1>2
  <2> QED BY <2>1 DEF SetSymbol
<1>4. IsSymbol(sym, Len(x.mem))
  BY DEF SoundWorkspace, Sound, IsSymbols
<1>5. r1 = [name |-> sym.name, class |-> class, placed |-> sym.placed, value |-> sym.value,
            type |-> sym.type]
  <2> HIDE DEF sym
  <2> QED BY <1>4 DEF IsSymbol
<1>6. r2 = [name |-> sym.name, class |-> class, placed |-> sym.placed, value |-> sym.value,
            type |-> type]
  <2> HIDE DEF sym, r1
  <2> QED BY <1>5
<1> HIDE DEF sym, r1, r2, y
<1>7. IsSymbol(r2, Len(x.mem)) /\ r2.placed = sym.placed /\ r2.value = sym.value
  BY <1>4, <1>6 DEF IsSymbol
<1>8. /\ IsSymbols(syms2, Len(x.mem)) /\ DOMAIN syms2 = DOMAIN x.syms /\ syms2[s] = r2
      /\ \A r \in DOMAIN x.syms : r # s => syms2[r] = x.syms[r]
  BY <1>7, OtherSymbol DEF SoundWorkspace, Sound
<1> HIDE DEF syms2
<1>9. /\ IsWorkspace(y) /\ y.syms = syms2
      /\ y.mem = x.mem /\ y.refs = x.refs /\ y.landed = x.landed
  BY <1>3, OtherSymbols DEF SoundWorkspace
<1>10. Extends(y.mem, x.mem) /\ Len(y.mem) < AddressSpace
  BY <1>9 DEF SoundWorkspace, Sound, Extends
<1>11. \A r \in DOMAIN x.syms : /\ y.syms[r].placed = x.syms[r].placed
                                /\ y.syms[r].value = x.syms[r].value
  BY <1>7, <1>8, <1>9 DEF sym
<1> HIDE DEF z
<1>12. SoundWorkspace(y) /\ Kept(x, y)
  BY <1>8, <1>9, <1>10, <1>11, GrowFacts
<1> QED
  BY <1>12 DEF y
-----------------------------------------------------------------------------
LEMMA PutFacts ==
  ASSUME NEW mem \in Seq(Byte), NEW op \in Int, NEW w \in -AddressSpace .. AddressSpace - 1
  PROVE  LET mem2 == Append(mem, op % 256) \o CodeWord(w)
         IN  /\ Extends(mem2, mem)
             /\ Len(mem2) = Len(mem) + 1 + W
             /\ RdWord(mem2, Len(mem) + 1) = w
<1> DEFINE m1 == Append(mem, op % 256)
           word == CodeWord(w)
           mem2 == m1 \o word
<1>1. PICK l \in Nat : l = Len(mem)
  OBVIOUS
<1>2. w \in Int
  BY ModulusFacts
<1>3. m1 \in Seq(Byte) /\ Len(m1) = l + 1 /\ \A i \in 1 .. l : m1[i] = mem[i]
  BY <1>1, ByteExtends DEF Extends
<1>4. word \in Seq(Byte) /\ Len(word) = W /\ CodeWordValue(word) = w
  BY <1>2, CodeWordType, CodeWordRoundTrip
<1> HIDE DEF m1, word
<1>5. /\ mem2 \in Seq(Byte) /\ Len(mem2) = l + 1 + W
      /\ \A i \in 1 .. l + 1 : mem2[i] = m1[i]
  <2>1. Extends(mem2, m1) /\ Len(mem2) = Len(m1) + Len(word)
    BY <1>3, <1>4, ConcatExtends
  <2> HIDE DEF mem2
  <2> QED BY <1>3, <1>4, <2>1 DEF Extends
<1>6. \A i \in 1 .. W : mem2[(l + 1) + i] = word[i]
  BY <1>3, <1>4
<1> HIDE DEF mem2
<1>7. Extends(mem2, mem)
  BY <1>1, <1>3, <1>5 DEF Extends
<1>8. Bytes(mem2, l + 1, W) = word
  <2>1. Bytes(mem2, l + 1, W) = [i \in 1 .. W |-> mem2[(l + 1) + i]]
    <3>1. l + 1 \in Nat /\ (l + 1) + W <= Len(mem2)
      BY <1>5
    <3> QED BY <1>5, <3>1, BytesFacts
  <2> QED BY <1>4, <1>6, <2>1
<1>9. RdWord(mem2, l + 1) = w
  BY <1>4, <1>8 DEF RdWord
<1> QED
  BY <1>1, <1>5, <1>7, <1>9 DEF mem2, m1, word

LEMMA ReferringFields ==
  ASSUME NEW x, IsWorkspace(x), NEW op, NEW w, NEW a, NEW to
  PROVE  Referring(PutWord(PutByte(x, op), w), a, to) =
           [mem |-> Append(x.mem, op % 256) \o CodeWord(w), syms |-> x.syms, funs |-> x.funs,
            pv |-> x.pv, gen |-> x.gen, refs |-> Noted(x.refs, a, to), landed |-> x.landed]
<1> DEFINE m1 == Append(x.mem, op % 256)
           m2 == m1 \o CodeWord(w)
           r2 == Noted(x.refs, a, to)
           x1 == PutByte(x, op)
           x2 == PutWord(x1, w)
           x3 == Referring(x2, a, to)
<1> HIDE DEF m1, m2, r2
<1>1. x1 = [mem |-> m1, syms |-> x.syms, funs |-> x.funs, pv |-> x.pv, gen |-> x.gen,
            refs |-> x.refs, landed |-> x.landed]
  <2>1. x1 = [x EXCEPT !.mem = m1]
    BY DEF PutByte, m1
  <2> HIDE DEF x1
  <2> QED BY <2>1 DEF IsWorkspace
<1> HIDE DEF x1
<1>2. x2 = [mem |-> m2, syms |-> x.syms, funs |-> x.funs, pv |-> x.pv, gen |-> x.gen,
            refs |-> x.refs, landed |-> x.landed]
  <2>1. x2 = [x1 EXCEPT !.mem = x1.mem \o CodeWord(w)] /\ x1.mem = m1
    BY <1>1 DEF PutWord
  <2>2. x2 = [x1 EXCEPT !.mem = m2]
    BY <2>1 DEF m2
  <2> HIDE DEF x2
  <2> QED BY <1>1, <2>2
<1> HIDE DEF x2
<1>3. x3 = [mem |-> m2, syms |-> x.syms, funs |-> x.funs, pv |-> x.pv, gen |-> x.gen,
            refs |-> r2, landed |-> x.landed]
  <2>1. x3 = [x2 EXCEPT !.refs = Noted(x2.refs, a, to)] /\ x2.refs = x.refs
    BY <1>2 DEF Referring
  <2>2. x3 = [x2 EXCEPT !.refs = r2]
    BY <2>1 DEF r2
  <2> HIDE DEF x3
  <2> QED BY <1>2, <2>2
<1> QED
  BY <1>3 DEF x2, x1, m2, m1, r2

\* What y is when x is added a reference to to: the operation op and its word w.
AddsReference(x, y, op, w, to) ==
  LET a == Len(x.mem) + 1
  IN  /\ y.mem = Append(x.mem, op % 256) \o CodeWord(w)
      /\ Len(y.mem) < AddressSpace
      /\ y.refs = Noted(x.refs, a, to)
      /\ IsSymbols(y.syms, Len(y.mem)) /\ DOMAIN y.syms = DOMAIN x.syms
      /\ IsLabel(y.syms, y.refs, to)
      /\ \A r \in DOMAIN y.landed : r \in DOMAIN y.refs /\ y.landed[r] \in 0 .. Len(x.mem)
      /\ w = IF Known(y.syms, y.landed, to) THEN Goal(y.syms, y.landed, to, a)
             ELSE Latest(Refs(x.refs, to))
      /\ \A b \in DOMAIN x.refs :
           /\ Known(y.syms, y.landed, x.refs[b]) = Known(x.syms, x.landed, x.refs[b])
           /\ Known(x.syms, x.landed, x.refs[b]) =>
                Goal(y.syms, y.landed, x.refs[b], b) = Goal(x.syms, x.landed, x.refs[b], b)
      /\ \A s \in DOMAIN x.syms : ~y.syms[s].placed =>
           /\ ~x.syms[s].placed
           /\ y.syms[s].value = IF to = <<"symbol", s>> THEN a ELSE x.syms[s].value

LEMMA ReferenceAdded ==
  ASSUME NEW x, SoundWorkspace(x), NEW op \in Int, NEW w, w \in -AddressSpace .. AddressSpace - 1,
         NEW to, NEW y, IsWorkspace(y), AddsReference(x, y, op, w, to)
  PROVE  SoundWorkspace(y) /\ Kept(x, y)
<1>1. x.mem \in Seq(Byte)
  BY DEF SoundWorkspace, Sound
<1>2. PICK l \in Nat : l = Len(x.mem)
  BY <1>1
<1>3. PICK a \in Nat : a = Len(x.mem) + 1 /\ a = l + 1
  BY <1>2
<1>4. y.mem = Append(x.mem, op % 256) \o CodeWord(w)
  BY DEF AddsReference
<1>5. Extends(y.mem, x.mem) /\ Len(y.mem) = l + 1 + W /\ RdWord(y.mem, a) = w
  BY <1>1, <1>2, <1>3, <1>4, PutFacts
<1>6. PICK m \in Nat : m = Len(y.mem) /\ m = l + 1 + W /\ a + W = m
  BY <1>3, <1>5
<1>7. a \notin DOMAIN x.refs
  BY <1>2, <1>3 DEF SoundWorkspace, Sound, SitesApart
<1>8. y.refs = Noted(x.refs, a, to)
  BY <1>3 DEF AddsReference
<1>9. /\ DOMAIN y.refs = DOMAIN x.refs \cup {a} /\ y.refs[a] = to
      /\ \A b \in DOMAIN x.refs : y.refs[b] = x.refs[b]
  BY <1>7, <1>8 DEF Noted
<1>10. Labelled(y.syms, y.refs, y.landed, Len(y.mem))
  <2>1. \A r \in DOMAIN y.landed : r \in DOMAIN y.refs /\ y.landed[r] \in 0 .. l
    BY <1>2 DEF AddsReference
  <2>2. \A r \in DOMAIN y.landed : r \in DOMAIN y.refs /\ y.landed[r] \in 0 .. m
    BY <1>6, <2>1
  <2>3. ASSUME NEW b \in DOMAIN y.refs PROVE IsLabel(y.syms, y.refs, y.refs[b])
    <3>1. CASE b = a
      BY <1>9, <3>1 DEF AddsReference
    <3>2. CASE b # a
      <4>1. b \in DOMAIN x.refs /\ y.refs[b] = x.refs[b]
        BY <1>9, <3>2
      <4>2. IsLabel(x.syms, x.refs, x.refs[b])
        BY <4>1 DEF SoundWorkspace, Sound, Labelled
      <4>3. DOMAIN y.syms = DOMAIN x.syms
        BY DEF AddsReference
      <4>4. IsLabel(y.syms, y.refs, x.refs[b])
        BY <1>9, <4>2, <4>3 DEF IsLabel
      <4> QED BY <4>1, <4>4
    <3> QED BY <3>1, <3>2
  <2> QED BY <1>6, <2>2, <2>3 DEF Labelled
<1>11. Sound(y.mem, y.syms, y.refs, y.landed)
  <2>1. Sound(x.mem, x.syms, x.refs, x.landed)
    BY DEF SoundWorkspace
  <2>2. a > Len(x.mem) /\ a + W <= Len(y.mem)
    BY <1>2, <1>3, <1>6
  <2>3. RdWord(y.mem, a) = IF Known(y.syms, y.landed, to) THEN Goal(y.syms, y.landed, to, a)
                           ELSE Latest(Refs(x.refs, to))
    BY <1>3, <1>5 DEF AddsReference
  <2>4. /\ Len(y.mem) < AddressSpace
        /\ IsSymbols(y.syms, Len(y.mem)) /\ DOMAIN y.syms = DOMAIN x.syms
    BY DEF AddsReference
  <2>5. \A b \in DOMAIN x.refs :
           /\ Known(y.syms, y.landed, x.refs[b]) = Known(x.syms, x.landed, x.refs[b])
           /\ Known(x.syms, x.landed, x.refs[b]) =>
                Goal(y.syms, y.landed, x.refs[b], b) = Goal(x.syms, x.landed, x.refs[b], b)
    BY DEF AddsReference
  <2>6. \A s \in DOMAIN x.syms : ~y.syms[s].placed =>
           /\ ~x.syms[s].placed
           /\ y.syms[s].value = IF to = <<"symbol", s>> THEN a ELSE x.syms[s].value
    BY <1>3 DEF AddsReference
  <2>7. PutsReference(x.mem, x.syms, x.refs, x.landed, y.mem, y.syms, y.refs, y.landed, a, to)
    BY <1>5, <1>8, <1>10, <2>2, <2>3, <2>4, <2>5, <2>6 DEF PutsReference
  <2> QED BY <2>1, <2>7, NewReferenceSound
<1>12. Kept(x, y)
  BY <1>2, <1>5, <1>6 DEF Kept, Extends
<1> QED
  BY <1>11, <1>12 DEF SoundWorkspace

\* Code addresses, and the distances between them, are words.
LEMMA AddressFacts ==
  ASSUME NEW x, SoundWorkspace(x)
  PROVE  /\ x.mem \in Seq(Byte) /\ Len(x.mem) \in Nat /\ Len(x.mem) < AddressSpace
         /\ AddressSpace \in Nat
         /\ \A a \in 0 .. Len(x.mem) : a \in -AddressSpace .. AddressSpace - 1
<1>1. x.mem \in Seq(Byte) /\ Len(x.mem) < AddressSpace
  BY DEF SoundWorkspace, Sound
<1>2. PICK l \in Nat, h \in Nat : l = Len(x.mem) /\ h = AddressSpace /\ l < h
  BY <1>1, ModulusFacts
<1>3. \A a \in 0 .. l : a \in -h .. h - 1
  BY <1>2
<1> QED
  BY <1>1, <1>2, <1>3

LEMMA OldReferences ==
  ASSUME NEW x, SoundWorkspace(x), NEW b \in DOMAIN x.refs
  PROVE  \/ \E s \in DOMAIN x.syms : x.refs[b] = <<"symbol", s>>
         \/ \E r \in DOMAIN x.refs : x.refs[b] = <<"branch", r>> /\ x.refs[r] = <<"branch", r>>
BY DEF SoundWorkspace, Sound, Labelled, IsLabel

LEMMA ReferFacts ==
  ASSUME NEW x, SoundWorkspace(x), NEW s \in DOMAIN x.syms,
         NEW y, y = CodeSymbolRef(x, s), Len(y.mem) < AddressSpace
  PROVE  SoundWorkspace(y) /\ Kept(x, y)
<1> DEFINE w   == x.syms[s].value
           a   == Len(x.mem) + 1
           to  == <<"symbol", s>>
           z   == Referring(PutWord(PutByte(x, Op.LIT), w), a, to)
           sym == x.syms[s]
<1>1. /\ IsSymbol(sym, Len(x.mem)) /\ w \in 0 .. Len(x.mem) /\ IsSymbols(x.syms, Len(x.mem))
      /\ ~sym.placed => w = Latest(Refs(x.refs, to))
  BY DEF SoundWorkspace, Sound, IsSymbols, IsSymbol, Heads
<1>2. w \in -AddressSpace .. AddressSpace - 1 /\ Len(x.mem) \in Nat
  BY <1>1, AddressFacts
<1>3. Op.LIT \in Int
  BY DEF Op
<1>4. z = [mem |-> Append(x.mem, Op.LIT % 256) \o CodeWord(w), syms |-> x.syms, funs |-> x.funs,
           pv |-> x.pv, gen |-> x.gen, refs |-> Noted(x.refs, a, to), landed |-> x.landed]
  <2> DEFINE op == Op.LIT
  <2> HIDE DEF op, w, a, to
  <2>1. Referring(PutWord(PutByte(x, op), w), a, to) =
           [mem |-> Append(x.mem, op % 256) \o CodeWord(w), syms |-> x.syms, funs |-> x.funs,
            pv |-> x.pv, gen |-> x.gen, refs |-> Noted(x.refs, a, to), landed |-> x.landed]
    BY ReferringFields DEF SoundWorkspace
  <2> QED BY <2>1 DEF op
<1>5. y = IF sym.placed THEN z ELSE [z EXCEPT !.syms = [z.syms EXCEPT ![s] = [z.syms[s] EXCEPT !.value = a]]]
  BY DEF CodeSymbolRef, CodeAddr
<1> HIDE DEF z
<1>6. /\ IsWorkspace(z) /\ z.syms = x.syms /\ z.landed = x.landed
      /\ z.mem = Append(x.mem, Op.LIT % 256) \o CodeWord(w) /\ z.refs = Noted(x.refs, a, to)
  <2> HIDE DEF w, a, to
  <2> QED BY <1>4 DEF IsWorkspace
<1>7. Len(z.mem) = Len(x.mem) + 1 + W
  <2> DEFINE op == Op.LIT
  <2> HIDE DEF op, w, a, to
  <2>1. x.mem \in Seq(Byte) /\ op \in Int
    BY <1>3, AddressFacts DEF op
  <2>2. Len(Append(x.mem, op % 256) \o CodeWord(w)) = Len(x.mem) + 1 + W
    BY <1>2, <2>1, PutFacts
  <2>3. z.mem = Append(x.mem, op % 256) \o CodeWord(w)
    BY <1>6 DEF op
  <2> QED BY <2>2, <2>3
<1>8. PICK l \in Nat, m \in Nat : l = Len(x.mem) /\ m = Len(z.mem) /\ m = l + 1 + W /\ a = l + 1
  BY <1>2, <1>7
<1>9. \A r \in DOMAIN x.landed : r \in DOMAIN z.refs /\ x.landed[r] \in 0 .. Len(x.mem)
  BY <1>6 DEF SoundWorkspace, Sound, Labelled, Noted
<1>10. CASE sym.placed
  <2>1. y = z
    BY <1>5, <1>10
  <2>2. IsSymbols(y.syms, Len(y.mem))
    <3>1. \A v : IsSymbol(v, l) => IsSymbol(v, m)
      BY <1>8 DEF IsSymbol
    <3>2. IsSymbols(x.syms, m)
      BY <1>1, <1>8, <3>1 DEF IsSymbols
    <3> QED BY <1>6, <1>8, <2>1, <3>2
  <2>3. IsLabel(y.syms, y.refs, to)
    BY <1>6, <2>1 DEF IsLabel
  <2>4. Known(y.syms, y.landed, to) /\ Goal(y.syms, y.landed, to, a) = w
    BY <1>6, <1>10, <2>1 DEF Known, Goal
  <2>5. \A r \in DOMAIN x.syms : ~y.syms[r].placed =>
           /\ ~x.syms[r].placed
           /\ y.syms[r].value = IF to = <<"symbol", r>> THEN a ELSE x.syms[r].value
    BY <1>6, <1>10, <2>1
  <2> HIDE DEF w, a, to, sym
  <2>6. AddsReference(x, y, Op.LIT, w, to)
    BY <1>6, <1>9, <2>1, <2>2, <2>3, <2>4, <2>5 DEF AddsReference, a
  <2> QED BY <1>2, <1>3, <1>6, <2>1, <2>6, ReferenceAdded
<1>11. CASE ~sym.placed
  <2> DEFINE sym2  == [sym EXCEPT !.value = a]
             syms2 == [x.syms EXCEPT ![s] = sym2]
  <2>1. y = [z EXCEPT !.syms = syms2]
    BY <1>5, <1>6, <1>11
  <2>2. sym2 = [name |-> sym.name, class |-> sym.class, placed |-> sym.placed, value |-> a,
                type |-> sym.type]
    <3> HIDE DEF sym, a
    <3> QED BY <1>1 DEF IsSymbol
  <2> HIDE DEF sym2
  <2>3. IsSymbol(sym2, m) /\ ~sym2.placed /\ sym2.value = a
    <3>1. a \in 0 .. m
      BY <1>8
    <3> HIDE DEF sym, a
    <3> QED BY <1>1, <1>11, <2>2, <3>1 DEF IsSymbol
  <2>4. IsSymbols(x.syms, m)
    <3>1. \A v : IsSymbol(v, l) => IsSymbol(v, m)
      BY <1>8 DEF IsSymbol
    <3> QED BY <1>1, <1>8, <3>1 DEF IsSymbols
  <2>5. /\ IsSymbols(syms2, m) /\ DOMAIN syms2 = DOMAIN x.syms /\ syms2[s] = sym2
        /\ \A r \in DOMAIN x.syms : r # s => syms2[r] = x.syms[r]
    BY <2>3, <2>4, OtherSymbol
  <2> HIDE DEF syms2
  <2>6. /\ IsWorkspace(y) /\ y.syms = syms2
        /\ y.mem = z.mem /\ y.refs = z.refs /\ y.landed = x.landed
    <3>1. IsWorkspace(z) /\ z.landed = x.landed
      BY <1>6
    <3> HIDE DEF w, a, to, sym
    <3>2. /\ IsWorkspace(y) /\ y.syms = syms2
          /\ y.mem = z.mem /\ y.refs = z.refs /\ y.landed = z.landed
      BY <2>1, <3>1, OtherSymbols
    <3> QED BY <3>1, <3>2
  <2>7. IsLabel(y.syms, y.refs, to)
    BY <2>5, <2>6 DEF IsLabel
  <2>8. ~Known(y.syms, y.landed, to) /\ w = Latest(Refs(x.refs, to))
    BY <1>1, <1>11, <2>3, <2>5, <2>6 DEF Known
  <2>9. ASSUME NEW b \in DOMAIN x.refs
        PROVE  /\ Known(y.syms, y.landed, x.refs[b]) = Known(x.syms, x.landed, x.refs[b])
               /\ Known(x.syms, x.landed, x.refs[b]) =>
                    Goal(y.syms, y.landed, x.refs[b], b) = Goal(x.syms, x.landed, x.refs[b], b)
    <3>1. CASE \E r \in DOMAIN x.syms : x.refs[b] = <<"symbol", r>>
      <4>1. PICK r \in DOMAIN x.syms : x.refs[b] = <<"symbol", r>>
        BY <3>1
      <4>2. CASE r = s
        <5>1. y.syms[r].placed = FALSE /\ x.syms[r].placed = FALSE
          BY <1>1, <1>11, <2>3, <2>5, <2>6, <4>2 DEF IsSymbol
        <5>2. /\ Known(y.syms, y.landed, x.refs[b]) = y.syms[r].placed
              /\ Known(x.syms, x.landed, x.refs[b]) = x.syms[r].placed
          BY <4>1 DEF Known
        <5>3. Known(y.syms, y.landed, x.refs[b]) = FALSE /\ Known(x.syms, x.landed, x.refs[b]) = FALSE
          BY <5>1, <5>2
        <5> QED BY <5>3
      <4>3. CASE r # s
        <5>1. y.syms[r] = x.syms[r]
          BY <2>5, <2>6, <4>3
        <5> QED BY <4>1, <5>1 DEF Known, Goal
      <4> QED BY <4>2, <4>3
    <3>2. CASE \E r \in DOMAIN x.refs : x.refs[b] = <<"branch", r>>
      BY <2>6, <3>2 DEF Known, Goal
    <3> QED BY <3>1, <3>2, OldReferences
  <2>10. ASSUME NEW r \in DOMAIN x.syms, ~y.syms[r].placed
         PROVE  /\ ~x.syms[r].placed
                /\ y.syms[r].value = IF to = <<"symbol", r>> THEN a ELSE x.syms[r].value
    <3>1. CASE r = s
      BY <1>11, <2>3, <2>5, <2>6, <3>1
    <3>2. CASE r # s
      <4>1. to # <<"symbol", r>> /\ y.syms[r] = x.syms[r]
        BY <2>5, <2>6, <3>2
      <4> HIDE DEF to
      <4> QED BY <2>10, <4>1
    <3> QED BY <3>1, <3>2
  <2> HIDE DEF w, a, to, sym
  <2>11. IsSymbols(y.syms, Len(y.mem)) /\ DOMAIN y.syms = DOMAIN x.syms
    BY <1>8, <2>5, <2>6
  <2>12. AddsReference(x, y, Op.LIT, w, to)
    BY <1>6, <1>9, <2>6, <2>7, <2>8, <2>9, <2>10, <2>11 DEF AddsReference, a
  <2> QED BY <1>2, <1>3, <2>6, <2>12, ReferenceAdded
<1> QED
  BY <1>10, <1>11

\* chn is the last of the branches to a place that is not known yet, the first
\* of which is r.
Waits(x, r, chn) ==
  /\ r \in DOMAIN x.refs /\ x.refs[r] = <<"branch", r>>
  /\ r \notin DOMAIN x.landed
  /\ chn = Latest(Refs(x.refs, <<"branch", r>>))

LEMMA WaitsFacts ==
  ASSUME NEW x, SoundWorkspace(x), NEW r, NEW chn, Waits(x, r, chn)
  PROVE  chn \in DOMAIN x.refs /\ chn \in 1 .. Len(x.mem) /\ x.refs[chn] = <<"branch", r>>
<1> DEFINE S == Refs(x.refs, <<"branch", r>>)
<1>1. PICK l \in Nat : l = Len(x.mem)
  BY AddressFacts
<1>2. \A a \in DOMAIN x.refs : a \in 1 .. l
  BY <1>1 DEF SoundWorkspace, Sound, SitesApart
<1>3. r \in S /\ S \subseteq 1 .. l
  BY <1>2 DEF Waits, Refs
<1>4. S \in SUBSET (0 .. l)
  BY <1>3
<1> HIDE DEF S
<1>5. Latest(S) \in S \cup {0} /\ r <= Latest(S)
  BY <1>3, <1>4, LatestFacts
<1>6. Latest(S) \in S
  BY <1>2, <1>3, <1>5
<1> QED
  BY <1>1, <1>2, <1>6 DEF S, Waits, Refs

\* What y is when x is added a branch to the place that those go to the first of
\* which is r, which may be this one.
AddsBranch(x, y, op, w, r) ==
  LET a == Len(x.mem) + 1
  IN  /\ y.mem = Append(x.mem, op % 256) \o CodeWord(w)
      /\ Len(y.mem) < AddressSpace
      /\ y.syms = x.syms
      /\ y.refs = Noted(x.refs, a, <<"branch", r>>)
      /\ r \in DOMAIN y.refs /\ y.refs[r] = <<"branch", r>>
      /\ \A q \in DOMAIN y.landed : q \in DOMAIN y.refs /\ y.landed[q] \in 0 .. Len(x.mem)
      /\ w = IF r \in DOMAIN y.landed THEN y.landed[r] - (a + W)
             ELSE Latest(Refs(x.refs, <<"branch", r>>))
      /\ \A q \in DOMAIN x.refs : /\ q \in DOMAIN y.landed <=> q \in DOMAIN x.landed
                                  /\ q \in DOMAIN x.landed => y.landed[q] = x.landed[q]

LEMMA BranchAdded ==
  ASSUME NEW x, SoundWorkspace(x), NEW op \in Int, NEW w, w \in -AddressSpace .. AddressSpace - 1,
         NEW r, NEW y, IsWorkspace(y), AddsBranch(x, y, op, w, r)
  PROVE  SoundWorkspace(y) /\ Kept(x, y)
<1> DEFINE to == <<"branch", r>>
<1>1. PICK l \in Nat, m \in Nat, a \in Nat :
        l = Len(x.mem) /\ m = Len(y.mem) /\ l <= m /\ a = Len(x.mem) + 1
  <2>1. x.mem \in Seq(Byte) /\ Len(x.mem) \in Nat
    BY AddressFacts
  <2>2. y.mem = Append(x.mem, op % 256) \o CodeWord(w)
    BY DEF AddsBranch
  <2>3. Len(Append(x.mem, op % 256) \o CodeWord(w)) = Len(x.mem) + 1 + W
    BY <2>1, PutFacts
  <2> QED BY <2>1, <2>2, <2>3
<1>2. IsSymbols(y.syms, Len(y.mem))
  <2>1. \A v : IsSymbol(v, l) => IsSymbol(v, m)
    BY <1>1 DEF IsSymbol
  <2>2. IsSymbols(x.syms, l)
    BY <1>1 DEF SoundWorkspace, Sound
  <2>3. IsSymbols(x.syms, m)
    BY <2>1, <2>2 DEF IsSymbols
  <2> QED BY <1>1, <2>3 DEF AddsBranch
<1>3. IsLabel(y.syms, y.refs, to)
  BY DEF IsLabel, AddsBranch
<1>4. w = IF Known(y.syms, y.landed, to) THEN Goal(y.syms, y.landed, to, a)
          ELSE Latest(Refs(x.refs, to))
  <2>1. /\ Known(y.syms, y.landed, to) = (r \in DOMAIN y.landed)
        /\ Goal(y.syms, y.landed, to, a) = y.landed[r] - (a + W)
    BY DEF Known, Goal
  <2> QED BY <1>1, <2>1 DEF AddsBranch
<1>5. ASSUME NEW b \in DOMAIN x.refs
      PROVE  /\ Known(y.syms, y.landed, x.refs[b]) = Known(x.syms, x.landed, x.refs[b])
             /\ Known(x.syms, x.landed, x.refs[b]) =>
                  Goal(y.syms, y.landed, x.refs[b], b) = Goal(x.syms, x.landed, x.refs[b], b)
  <2>1. y.syms = x.syms
    BY DEF AddsBranch
  <2>2. CASE \E s \in DOMAIN x.syms : x.refs[b] = <<"symbol", s>>
    BY <2>1, <2>2 DEF Known, Goal
  <2>3. CASE \E q \in DOMAIN x.refs : x.refs[b] = <<"branch", q>>
    <3>1. PICK q \in DOMAIN x.refs : x.refs[b] = <<"branch", q>>
      BY <2>3
    <3>2. /\ Known(y.syms, y.landed, x.refs[b]) = (q \in DOMAIN y.landed)
          /\ Known(x.syms, x.landed, x.refs[b]) = (q \in DOMAIN x.landed)
          /\ Goal(y.syms, y.landed, x.refs[b], b) = y.landed[q] - (b + W)
          /\ Goal(x.syms, x.landed, x.refs[b], b) = x.landed[q] - (b + W)
      BY <3>1 DEF Known, Goal
    <3>3. /\ q \in DOMAIN y.landed <=> q \in DOMAIN x.landed
          /\ q \in DOMAIN x.landed => y.landed[q] = x.landed[q]
      BY <3>1 DEF AddsBranch
    <3>4. (q \in DOMAIN y.landed) = (q \in DOMAIN x.landed)
      BY <3>3
    <3>5. Known(y.syms, y.landed, x.refs[b]) = Known(x.syms, x.landed, x.refs[b])
      BY <3>2, <3>4
    <3>6. Known(x.syms, x.landed, x.refs[b]) => q \in DOMAIN x.landed
      BY <3>2
    <3> QED BY <3>2, <3>3, <3>5, <3>6
  <2> QED BY <2>2, <2>3, OldReferences
<1>6. \A s \in DOMAIN x.syms : to # <<"symbol", s>>
  OBVIOUS
<1>7. y.refs = Noted(x.refs, a, to)
  BY <1>1 DEF AddsBranch
<1> HIDE DEF to
<1>8. AddsReference(x, y, op, w, to)
  <2>1. y.syms = x.syms
    BY DEF AddsBranch
  <2>2. /\ y.mem = Append(x.mem, op % 256) \o CodeWord(w)
        /\ Len(y.mem) < AddressSpace
        /\ \A q \in DOMAIN y.landed : q \in DOMAIN y.refs /\ y.landed[q] \in 0 .. Len(x.mem)
    BY DEF AddsBranch
  <2> QED BY <1>1, <1>2, <1>3, <1>4, <1>5, <1>6, <1>7, <2>1, <2>2 DEF AddsReference
<1> QED
  BY <1>8, ReferenceAdded

LEMMA NewSite ==
  ASSUME NEW x, SoundWorkspace(x), NEW a, a = Len(x.mem) + 1
  PROVE  /\ a \in Nat /\ a \notin DOMAIN x.refs /\ a \notin DOMAIN x.landed
         /\ Refs(x.refs, <<"branch", a>>) = {}
<1>1. PICK l \in Nat : l = Len(x.mem) /\ a = l + 1
  BY AddressFacts
<1>2. a \notin DOMAIN x.refs
  BY <1>1 DEF SoundWorkspace, Sound, SitesApart
<1>3. a \notin DOMAIN x.landed
  BY <1>2 DEF SoundWorkspace, Sound, Labelled
<1>4. ASSUME NEW b \in DOMAIN x.refs PROVE x.refs[b] # <<"branch", a>>
  <2>1. CASE \E s \in DOMAIN x.syms : x.refs[b] = <<"symbol", s>>
    BY <2>1
  <2>2. CASE \E r \in DOMAIN x.refs : x.refs[b] = <<"branch", r>>
    BY <1>2, <2>2
  <2> QED BY <2>1, <2>2, OldReferences
<1>5. Refs(x.refs, <<"branch", a>>) = {}
  BY <1>4 DEF Refs
<1> QED
  BY <1>1, <1>2, <1>3, <1>5

LEMMA BranchFacts ==
  ASSUME NEW x, SoundWorkspace(x), NEW op \in Int, NEW chn,
         chn = 0 \/ \E r : Waits(x, r, chn),
         NEW y, y = PutBranch(x, op, chn), Len(y.mem) < AddressSpace
  PROVE  SoundWorkspace(y) /\ Kept(x, y)
<1> DEFINE a == Len(x.mem) + 1
<1>1. PICK r : /\ y = Referring(PutWord(PutByte(x, op), chn), a, <<"branch", r>>)
               /\ IF chn = 0 THEN r = a ELSE Waits(x, r, chn)
  <2>1. CASE chn = 0
    BY <2>1 DEF PutBranch, CodeAddr
  <2>2. CASE chn # 0
    <3>1. PICK r : Waits(x, r, chn)
      BY <2>2
    <3>2. x.refs[chn] = <<"branch", r>>
      BY <3>1, WaitsFacts
    <3> QED BY <2>2, <3>1, <3>2 DEF PutBranch, CodeAddr
  <2> QED BY <2>1, <2>2
<1> DEFINE to == <<"branch", r>>
<1>2. y = [mem |-> Append(x.mem, op % 256) \o CodeWord(chn), syms |-> x.syms, funs |-> x.funs,
           pv |-> x.pv, gen |-> x.gen, refs |-> Noted(x.refs, a, to), landed |-> x.landed]
  <2>1. y = Referring(PutWord(PutByte(x, op), chn), a, to)
    BY <1>1
  <2> HIDE DEF a, to
  <2>2. IsWorkspace(x)
    BY DEF SoundWorkspace
  <2>3. Referring(PutWord(PutByte(x, op), chn), a, to) =
          [mem |-> Append(x.mem, op % 256) \o CodeWord(chn), syms |-> x.syms, funs |-> x.funs,
           pv |-> x.pv, gen |-> x.gen, refs |-> Noted(x.refs, a, to), landed |-> x.landed]
    BY <2>2, ReferringFields
  <2> QED BY <2>1, <2>3
<1>3. /\ IsWorkspace(y) /\ y.mem = Append(x.mem, op % 256) \o CodeWord(chn)
      /\ y.syms = x.syms /\ y.refs = Noted(x.refs, a, to) /\ y.landed = x.landed
  <2> HIDE DEF a, to
  <2> QED BY <1>2 DEF IsWorkspace
<1>4. /\ a \in Nat /\ a \notin DOMAIN x.refs /\ a \notin DOMAIN x.landed
      /\ Refs(x.refs, <<"branch", a>>) = {}
  BY NewSite
<1>5. /\ r \in DOMAIN y.refs /\ y.refs[r] = to
      /\ r \notin DOMAIN y.landed /\ chn = Latest(Refs(x.refs, to))
      /\ chn \in 0 .. Len(x.mem)
  <2>1. CASE chn = 0
    <3>1. Latest({}) = 0
      BY LatestIs
    <3>2. 0 \in 0 .. Len(x.mem)
      BY AddressFacts
    <3> QED BY <1>1, <1>3, <1>4, <2>1, <3>1, <3>2 DEF Noted
  <2>2. CASE chn # 0
    <3>1. Waits(x, r, chn)
      BY <1>1, <2>2
    <3>2. chn \in 1 .. Len(x.mem)
      BY <3>1, WaitsFacts
    <3>3. r # a
      BY <1>4, <3>1 DEF Waits
    <3> HIDE DEF a
    <3> QED BY <1>3, <3>1, <3>2, <3>3 DEF Waits, Noted
  <2> QED BY <2>1, <2>2
<1>6. chn \in -AddressSpace .. AddressSpace - 1
  BY <1>5, AddressFacts
<1>7. \A q \in DOMAIN y.landed : q \in DOMAIN y.refs /\ y.landed[q] \in 0 .. Len(x.mem)
  BY <1>3 DEF SoundWorkspace, Sound, Labelled, Noted
<1>8. AddsBranch(x, y, op, chn, r)
  BY <1>3, <1>5, <1>7 DEF AddsBranch
<1> HIDE DEF a, to
<1> QED
  BY <1>3, <1>6, <1>8, BranchAdded

LEMMA BranchBackFacts ==
  ASSUME NEW x, SoundWorkspace(x), NEW op \in Int, NEW target \in 0 .. Len(x.mem),
         NEW y, y = PutBranchBack(x, op, target), Len(y.mem) < AddressSpace
  PROVE  SoundWorkspace(y) /\ Kept(x, y)
<1> DEFINE a  == Len(x.mem) + 1
           w  == target - Len(x.mem) - 1 - W
           to == <<"branch", a>>
           x1 == PutWord(PutByte(x, op), w)
           x2 == [x1 EXCEPT !.landed = Noted(x1.landed, a, target)]
           mem2 == Append(x.mem, op % 256) \o CodeWord(w)
           landed2 == Noted(x.landed, a, target)
<1>1. y = Referring(x2, a, to)
  BY DEF PutBranchBack, LoopBranch, CodeAddr
<1> HIDE DEF x1, mem2, landed2
<1>2. x1 = [mem |-> mem2, syms |-> x.syms, funs |-> x.funs, pv |-> x.pv, gen |-> x.gen,
            refs |-> x.refs, landed |-> x.landed]
  <2> DEFINE m1 == Append(x.mem, op % 256)
             x0 == [x EXCEPT !.mem = m1]
  <2>1. x1 = [x0 EXCEPT !.mem = x0.mem \o CodeWord(w)]
    BY DEF x1, PutWord, PutByte
  <2> HIDE DEF m1
  <2>2. x0 = [mem |-> m1, syms |-> x.syms, funs |-> x.funs, pv |-> x.pv, gen |-> x.gen,
              refs |-> x.refs, landed |-> x.landed]
    BY DEF SoundWorkspace, IsWorkspace
  <2> HIDE DEF x0
  <2>3. x1 = [x0 EXCEPT !.mem = mem2]
    BY <2>1, <2>2 DEF mem2, m1
  <2> QED BY <2>2, <2>3
<1>3. x2 = [mem |-> mem2, syms |-> x.syms, funs |-> x.funs, pv |-> x.pv, gen |-> x.gen,
            refs |-> x.refs, landed |-> landed2]
  <2>1. x2 = [x1 EXCEPT !.landed = landed2]
    BY <1>2 DEF landed2
  <2> HIDE DEF x2
  <2> QED BY <1>2, <2>1
<1> HIDE DEF x2, w, a, to
<1>4. y = [mem |-> mem2, syms |-> x.syms, funs |-> x.funs, pv |-> x.pv, gen |-> x.gen,
           refs |-> Noted(x.refs, a, to), landed |-> landed2]
  <2> DEFINE r2 == Noted(x.refs, a, to)
  <2>1. y = [x2 EXCEPT !.refs = r2]
    BY <1>1, <1>3 DEF Referring
  <2> HIDE DEF r2
  <2>2. y = [mem |-> mem2, syms |-> x.syms, funs |-> x.funs, pv |-> x.pv, gen |-> x.gen,
             refs |-> r2, landed |-> landed2]
    BY <1>3, <2>1
  <2> QED BY <2>2 DEF r2
<1>5. /\ IsWorkspace(y) /\ y.mem = mem2 /\ y.syms = x.syms
      /\ y.refs = Noted(x.refs, a, to) /\ y.landed = landed2
  BY <1>4 DEF IsWorkspace
<1>6. a \in Nat /\ a \notin DOMAIN x.refs /\ a \notin DOMAIN x.landed
  BY NewSite DEF a
<1>7. /\ DOMAIN landed2 = DOMAIN x.landed \cup {a} /\ landed2[a] = target
      /\ \A q \in DOMAIN x.landed : landed2[q] = x.landed[q]
  BY <1>6 DEF landed2, Noted
<1>8. \A q \in DOMAIN y.landed : q \in DOMAIN y.refs /\ y.landed[q] \in 0 .. Len(x.mem)
  BY <1>5, <1>7 DEF SoundWorkspace, Sound, Labelled, Noted
<1>9. a \in DOMAIN y.refs /\ y.refs[a] = <<"branch", a>>
  BY <1>5 DEF Noted, to
<1>10. x.mem \in Seq(Byte) /\ Len(x.mem) \in Nat
  BY AddressFacts
<1>11. PICK l \in Nat : l = Len(x.mem) /\ a = l + 1 /\ w = target - l - 1 - W /\ target \in 0 .. l
  BY <1>10 DEF a, w
<1>12. w = target - (a + W) /\ w \in Int
  BY <1>11
<1>13. Len(mem2) = l + 1 + W
  <2>1. CodeWord(w) \in Seq(Byte) /\ Len(CodeWord(w)) = W
    BY <1>12, CodeWordType
  <2>2. Append(x.mem, op % 256) \in Seq(Byte) /\ Len(Append(x.mem, op % 256)) = l + 1
    BY <1>10, <1>11, ByteExtends DEF Extends
  <2> QED BY <2>1, <2>2, ConcatExtends DEF mem2
<1>14. w \in -AddressSpace .. AddressSpace - 1
  <2>1. PICK h \in Nat : h = AddressSpace
    BY ModulusFacts
  <2>2. l + 1 + W < h
    BY <1>5, <1>13, <2>1
  <2> QED BY <1>11, <2>1, <2>2
<1>15. AddsBranch(x, y, op, w, a)
  <2>1. y.mem = Append(x.mem, op % 256) \o CodeWord(w)
    BY <1>5 DEF mem2
  <2>2. y.refs = Noted(x.refs, Len(x.mem) + 1, <<"branch", a>>)
    BY <1>5 DEF a, to
  <2>3. w = IF a \in DOMAIN y.landed THEN y.landed[a] - ((Len(x.mem) + 1) + W)
            ELSE Latest(Refs(x.refs, <<"branch", a>>))
    BY <1>5, <1>7, <1>12 DEF a
  <2>4. \A q \in DOMAIN x.refs : /\ q \in DOMAIN y.landed <=> q \in DOMAIN x.landed
                                 /\ q \in DOMAIN x.landed => y.landed[q] = x.landed[q]
    BY <1>5, <1>6, <1>7
  <2> QED BY <1>5, <1>8, <1>9, <2>1, <2>2, <2>3, <2>4 DEF AddsBranch
<1> QED
  BY <1>5, <1>14, <1>15, BranchAdded
-----------------------------------------------------------------------------
\* Fixing up a chain leaves all but memory, symbols and landings as they were.
LEMMA LandFacts ==
  ASSUME NEW x, SoundWorkspace(x), NEW r, NEW chn, Waits(x, r, chn),
         NEW y, y = FixupHere(x, chn)
  PROVE  SoundWorkspace(y) /\ Kept(x, y)
<1> DEFINE to == <<"branch", r>>
           here == Len(x.mem)
           words == [a \in Nat |-> here - (a + W)]
           mem2 == Patched(x.mem, Latest(Refs(x.refs, to)), words)
           landed2 == Noted(x.landed, r, here)
           x1 == FixupBranch(x, chn, here)
<1>1. x.refs[chn][2] = r
  BY WaitsFacts
<1>2. chn = Latest(Refs(x.refs, to))
  BY DEF Waits
<1>3. x1 = [x EXCEPT !.mem = mem2]
  BY <1>2 DEF FixupBranch
<1> HIDE DEF mem2
<1>4. x1 = [mem |-> mem2, syms |-> x.syms, funs |-> x.funs, pv |-> x.pv, gen |-> x.gen,
            refs |-> x.refs, landed |-> x.landed]
  <2> HIDE DEF x1
  <2> QED BY <1>3 DEF SoundWorkspace, IsWorkspace
<1>5. y = [x1 EXCEPT !.landed = Noted(x1.landed, r, here)]
  BY <1>1 DEF FixupHere, CodeAddr
<1> HIDE DEF x1, landed2
<1>6. y = [x1 EXCEPT !.landed = landed2]
  BY <1>4, <1>5 DEF landed2
<1>7. y = [mem |-> mem2, syms |-> x.syms, funs |-> x.funs, pv |-> x.pv, gen |-> x.gen,
           refs |-> x.refs, landed |-> landed2]
  BY <1>4, <1>6
<1>8. /\ IsWorkspace(y) /\ y.mem = mem2 /\ y.syms = x.syms /\ y.refs = x.refs
      /\ y.landed = landed2
  BY <1>7 DEF IsWorkspace
<1>9. /\ DOMAIN landed2 = DOMAIN x.landed \cup {r} /\ landed2[r] = here
      /\ \A q \in DOMAIN x.landed : landed2[q] = x.landed[q]
  BY DEF landed2, Noted, Waits
<1>10. PICK l \in Nat, h \in Nat : l = here /\ h = AddressSpace /\ l < h
  BY AddressFacts
<1>11. words \in [Nat -> Int]
  BY <1>10
<1>12. ~Known(x.syms, x.landed, to) /\ Known(x.syms, landed2, to)
  BY <1>9 DEF Known, Waits
<1>13. ASSUME NEW a \in Refs(x.refs, to)
       PROVE  /\ words[a] \in -AddressSpace .. AddressSpace - 1
              /\ Goal(x.syms, landed2, to, a) = words[a]
  <2>1. a \in Nat /\ a + W <= l
    BY <1>10 DEF SoundWorkspace, Sound, SitesApart, Refs
  <2>2. words[a] = l - (a + W)
    BY <1>10, <2>1
  <2>3. words[a] \in -AddressSpace .. AddressSpace - 1
    BY <1>10, <2>1, <2>2
  <2>4. Goal(x.syms, landed2, to, a) = landed2[r] - (a + W)
    BY DEF Goal
  <2> QED BY <1>9, <1>10, <2>2, <2>3, <2>4
<1>14. ASSUME NEW b \in DOMAIN x.refs, x.refs[b] # to
       PROVE  /\ Known(x.syms, landed2, x.refs[b]) = Known(x.syms, x.landed, x.refs[b])
              /\ Known(x.syms, x.landed, x.refs[b]) =>
                   Goal(x.syms, landed2, x.refs[b], b) = Goal(x.syms, x.landed, x.refs[b], b)
  <2>1. CASE \E s \in DOMAIN x.syms : x.refs[b] = <<"symbol", s>>
    BY <2>1 DEF Known, Goal
  <2>2. CASE \E q \in DOMAIN x.refs : x.refs[b] = <<"branch", q>>
    <3>1. PICK q \in DOMAIN x.refs : x.refs[b] = <<"branch", q>>
      BY <2>2
    <3>2. q # r
      BY <1>14, <3>1
    <3>3. (q \in DOMAIN landed2) = (q \in DOMAIN x.landed)
      BY <1>9, <3>2
    <3>4. /\ Known(x.syms, landed2, x.refs[b]) = (q \in DOMAIN landed2)
          /\ Known(x.syms, x.landed, x.refs[b]) = (q \in DOMAIN x.landed)
          /\ Goal(x.syms, landed2, x.refs[b], b) = landed2[q] - (b + W)
          /\ Goal(x.syms, x.landed, x.refs[b], b) = x.landed[q] - (b + W)
      BY <3>1 DEF Known, Goal
    <3>5. Known(x.syms, x.landed, x.refs[b]) => landed2[q] = x.landed[q]
      BY <1>9, <3>4
    <3>6. Known(x.syms, landed2, x.refs[b]) = Known(x.syms, x.landed, x.refs[b])
      BY <3>3, <3>4
    <3> QED BY <3>4, <3>5, <3>6
  <2> QED BY <2>1, <2>2, OldReferences
<1>15. Labelled(x.syms, x.refs, landed2, Len(x.mem))
  <2>1. r \in DOMAIN x.refs /\ here \in 0 .. Len(x.mem)
    BY <1>10 DEF Waits
  <2> QED BY <1>9, <2>1 DEF SoundWorkspace, Sound, Labelled
<1>16. Sound(x.mem, x.syms, x.refs, x.landed) /\ IsSymbols(x.syms, Len(x.mem))
  BY DEF SoundWorkspace, Sound
<1> HIDE DEF words
<1>17. mem2 = Patched(x.mem, Latest(Refs(x.refs, to)), words)
  BY DEF mem2
<1> HIDE DEF to
<1>18. /\ Sound(mem2, x.syms, x.refs, landed2)
       /\ Len(mem2) = Len(x.mem)
       /\ ChangedOnlyAt(mem2, x.mem, Refs(x.refs, to))
  BY <1>11, <1>12, <1>13, <1>14, <1>15, <1>16, <1>17, ResolveSound
<1>19. Kept(x, y)
  <2>1. \A a \in Refs(x.refs, to) : a \in DOMAIN x.refs /\ x.refs[a] = to
    BY DEF Refs
  <2> QED BY <1>8, <1>10, <1>12, <1>18, <2>1 DEF Kept, ChangedOnlyAt
<1> QED
  BY <1>8, <1>18, <1>19 DEF SoundWorkspace

LEMMA FatalFacts ==
  ASSUME NEW x, SoundWorkspace(x)
  PROVE  SoundWorkspace(Fatal(x)) /\ Kept(x, Fatal(x))
<1> DEFINE fatal == "fatal"
           y == [x EXCEPT !.gen = fatal]
<1> HIDE DEF fatal
<1>1. y = [mem |-> x.mem, syms |-> x.syms, funs |-> x.funs, pv |-> x.pv, gen |-> fatal,
           refs |-> x.refs, landed |-> x.landed]
  BY DEF SoundWorkspace, IsWorkspace
<1>2. y = Fatal(x)
  BY DEF Fatal, fatal
<1> HIDE DEF y
<1>3. IsWorkspace(y) /\ y.mem = x.mem /\ y.syms = x.syms /\ y.refs = x.refs /\ y.landed = x.landed
  BY <1>1 DEF IsWorkspace
<1>4. Sound(y.mem, y.syms, y.refs, y.landed)
  BY <1>3 DEF SoundWorkspace
<1>5. Kept(x, y)
  BY <1>3, AddressFacts DEF Kept
<1> QED
  BY <1>2, <1>3, <1>4, <1>5 DEF SoundWorkspace

LEMMA PlaceFacts ==
  ASSUME NEW x, SoundWorkspace(x), NEW s \in DOMAIN x.syms, NEW a \in 0 .. Len(x.mem),
         NEW y, y = PlaceSymbol(x, s, a)
  PROVE  SoundWorkspace(y) /\ Kept(x, y)
<1> DEFINE sym == x.syms[s]
           to  == <<"symbol", s>>
<1>1. CASE sym.placed
  BY <1>1, FatalFacts DEF PlaceSymbol
<1>2. CASE ~sym.placed
  <2> DEFINE words == [b \in Nat |-> a]
             mem2  == Patched(x.mem, Latest(Refs(x.refs, to)), words)
             x1    == Fixup(x, sym.value, a)
             r1    == [sym EXCEPT !.placed = TRUE]
             r2    == [r1 EXCEPT !.value = a]
             syms2 == [x.syms EXCEPT ![s] = r2]
             z     == SetSymbol(x1, s, r1)
  <2>1. IsSymbol(sym, Len(x.mem)) /\ sym.value = Latest(Refs(x.refs, to))
    BY <1>2 DEF SoundWorkspace, Sound, IsSymbols, Heads
  <2>2. x1 = [x EXCEPT !.mem = mem2]
    BY <2>1 DEF Fixup
  <2> HIDE DEF mem2
  <2>3. x1 = [mem |-> mem2, syms |-> x.syms, funs |-> x.funs, pv |-> x.pv, gen |-> x.gen,
              refs |-> x.refs, landed |-> x.landed]
    <3> HIDE DEF x1
    <3> QED BY <2>2 DEF SoundWorkspace, IsWorkspace
  <2>4. y = SetSymbol(SetSymbol(x1, s, [x1.syms[s] EXCEPT !.placed = TRUE]), s,
                      [SetSymbol(x1, s, [x1.syms[s] EXCEPT !.placed = TRUE]).syms[s] EXCEPT !.value = a])
    BY <1>2 DEF PlaceSymbol, SetSymbol
  <2> HIDE DEF x1
  <2>5. IsWorkspace(x1) /\ x1.syms = x.syms
    BY <2>3 DEF IsWorkspace
  <2>6. y = SetSymbol(z, s, [z.syms[s] EXCEPT !.value = a])
    BY <2>4, <2>5
  <2>7. z.syms[s] = r1 /\ SetSymbol(z, s, r2) = SetSymbol(x1, s, r2)
    <3> HIDE DEF r1, r2
    <3> QED BY <2>5, SymbolTwice
  <2>8. y = [x1 EXCEPT !.syms = syms2]
    <3> HIDE DEF r1, z
    <3>1. y = SetSymbol(x1, s, r2)
      BY <2>6, <2>7
    <3> QED BY <2>5, <3>1 DEF SetSymbol
  <2>9. r2 = [name |-> sym.name, class |-> sym.class, placed |-> TRUE, value |-> a,
              type |-> sym.type]
    <3>1. PICK true : true = TRUE
      OBVIOUS
    <3> HIDE DEF sym
    <3>2. [sym EXCEPT !.placed = true] =
            [name |-> sym.name, class |-> sym.class, placed |-> true, value |-> sym.value,
             type |-> sym.type]
      BY <2>1 DEF IsSymbol
    <3>3. r1 = [name |-> sym.name, class |-> sym.class, placed |-> true, value |-> sym.value,
                type |-> sym.type]
      BY <3>1, <3>2
    <3> HIDE DEF r1
    <3>4. r2 = [name |-> sym.name, class |-> sym.class, placed |-> true, value |-> a,
                type |-> sym.type]
      BY <3>3
    <3> HIDE DEF r2
    <3> QED BY <3>1, <3>4
  <2> HIDE DEF r1, r2, z
  <2>10. IsSymbol(r2, Len(x.mem)) /\ r2.placed /\ r2.value = a
    BY <2>9 DEF IsSymbol
  <2>11. /\ IsSymbols(syms2, Len(x.mem)) /\ DOMAIN syms2 = DOMAIN x.syms /\ syms2[s] = r2
         /\ \A r \in DOMAIN x.syms : r # s => syms2[r] = x.syms[r]
    BY <2>10, OtherSymbol DEF SoundWorkspace, Sound
  <2> HIDE DEF syms2
  <2>12. y = [mem |-> mem2, syms |-> syms2, funs |-> x.funs, pv |-> x.pv, gen |-> x.gen,
              refs |-> x.refs, landed |-> x.landed]
    BY <2>3, <2>8
  <2>13. /\ IsWorkspace(y) /\ y.mem = mem2 /\ y.syms = syms2 /\ y.refs = x.refs
         /\ y.landed = x.landed
    BY <2>12 DEF IsWorkspace
  <2>14. words \in [Nat -> Int] /\ a \in -AddressSpace .. AddressSpace - 1
    BY AddressFacts
  <2>15. ~Known(x.syms, x.landed, to) /\ Known(syms2, x.landed, to)
    BY <1>2, <2>10, <2>11 DEF Known
  <2>16. ASSUME NEW b \in Refs(x.refs, to)
         PROVE  /\ words[b] \in -AddressSpace .. AddressSpace - 1
                /\ Goal(syms2, x.landed, to, b) = words[b]
    <3>1. b \in Nat
      BY DEF SoundWorkspace, Sound, SitesApart, Refs
    <3>2. words[b] = a
      BY <3>1
    <3>3. Goal(syms2, x.landed, to, b) = a
      BY <2>10, <2>11 DEF Goal
    <3> QED BY <2>14, <3>2, <3>3
  <2>17. ASSUME NEW b \in DOMAIN x.refs, x.refs[b] # to
         PROVE  /\ Known(syms2, x.landed, x.refs[b]) = Known(x.syms, x.landed, x.refs[b])
                /\ Known(x.syms, x.landed, x.refs[b]) =>
                     Goal(syms2, x.landed, x.refs[b], b) = Goal(x.syms, x.landed, x.refs[b], b)
    <3>1. CASE \E r \in DOMAIN x.syms : x.refs[b] = <<"symbol", r>>
      <4>1. PICK r \in DOMAIN x.syms : x.refs[b] = <<"symbol", r>>
        BY <3>1
      <4>2. r # s
        BY <2>17, <4>1
      <4>3. syms2[r] = x.syms[r]
        BY <2>11, <4>2
      <4> QED BY <4>1, <4>3 DEF Known, Goal
    <3>2. CASE \E q \in DOMAIN x.refs : x.refs[b] = <<"branch", q>>
      BY <3>2 DEF Known, Goal
    <3> QED BY <3>1, <3>2, OldReferences
  <2>18. Labelled(syms2, x.refs, x.landed, Len(x.mem))
    BY <2>11 DEF SoundWorkspace, Sound, Labelled, IsLabel
  <2>19. \A r \in DOMAIN x.syms : ~syms2[r].placed => ~x.syms[r].placed /\ syms2[r].value = x.syms[r].value
    BY <2>10, <2>11
  <2>20. Sound(x.mem, x.syms, x.refs, x.landed)
    BY DEF SoundWorkspace
  <2> HIDE DEF words
  <2>21. mem2 = Patched(x.mem, Latest(Refs(x.refs, to)), words)
    BY DEF mem2
  <2> HIDE DEF to
  <2>22. /\ Sound(mem2, syms2, x.refs, x.landed)
         /\ Len(mem2) = Len(x.mem)
         /\ ChangedOnlyAt(mem2, x.mem, Refs(x.refs, to))
    BY <2>11, <2>14, <2>15, <2>16, <2>17, <2>18, <2>19, <2>20, <2>21, ResolveSound
  <2>23. Kept(x, y)
    <3>1. \A b \in Refs(x.refs, to) : b \in DOMAIN x.refs /\ x.refs[b] = to
      BY DEF Refs
    <3>2. Len(x.mem) \in Nat
      BY AddressFacts
    <3> QED BY <2>13, <2>15, <2>22, <3>1, <3>2 DEF Kept, ChangedOnlyAt
  <2> QED BY <2>13, <2>22, <2>23 DEF SoundWorkspace
<1> QED
  BY <1>1, <1>2
-----------------------------------------------------------------------------
(***************************************************************************)
(* The specification.                                                       *)
(***************************************************************************)
WorkspaceInv == SoundWorkspace(g)

LEMMA InitSound == Init => WorkspaceInv
<1> SUFFICES ASSUME Init PROVE WorkspaceInv
  OBVIOUS
<1>1. /\ g.mem = <<>> /\ g.syms = <<>> /\ g.refs = <<>> /\ g.landed = <<>> /\ IsWorkspace(g)
  BY DEF Init, EmptyWorkspace, IsWorkspace
<1>2. <<>> \in Seq(Byte) /\ Len(<<>>) = 0 /\ DOMAIN <<>> = {}
  OBVIOUS
<1>3. Len(<<>>) < AddressSpace
  BY <1>2, ModulusFacts
<1>4. IsSymbols(<<>>, 0)
  <2>1. <<>> \in Seq({})
    OBVIOUS
  <2> QED BY <1>2, <2>1 DEF IsSymbols
<1>5. SitesApart(<<>>, 0) /\ Labelled(<<>>, <<>>, <<>>, 0)
  BY <1>2 DEF SitesApart, Labelled
<1>6. Words(<<>>, <<>>, <<>>, <<>>) /\ Heads(<<>>, <<>>)
  BY <1>2 DEF Words, Heads
<1>7. Sound(<<>>, <<>>, <<>>, <<>>)
  BY <1>2, <1>3, <1>4, <1>5, <1>6 DEF Sound
<1> QED
  BY <1>1, <1>7 DEF WorkspaceInv, SoundWorkspace

LEMMA PendingWaits ==
  ASSUME NEW chn \in Pending
  PROVE  \E r : Waits(g, r, chn)
<1>1. PICK r \in Open : chn = Latest(Chain(<<"branch", r>>))
  BY DEF Pending
<1>2. r \in DOMAIN g.refs /\ g.refs[r] = <<"branch", r>> /\ ~Resolved(r)
  BY <1>1 DEF Open, Sites
<1>3. r \notin DOMAIN g.landed
  BY <1>2 DEF Resolved
<1>4. Chain(<<"branch", r>>) = Refs(g.refs, <<"branch", r>>)
  BY DEF Chain, Refs, Sites
<1> QED
  BY <1>1, <1>2, <1>3, <1>4 DEF Waits

LEMMA StepSound ==
  ASSUME WorkspaceInv, Next
  PROVE  SoundWorkspace(g') /\ Kept(g, g')
<1> USE DEF WorkspaceInv, CodeAddr, Symbols
<1>1. Len(g'.mem) < AddressSpace
  BY DEF Next
<1>2. ASSUME NEW b \in Int, Code(b) PROVE SoundWorkspace(g') /\ Kept(g, g')
  BY <1>1, <1>2, PutBytesFacts DEF Code
<1>3. ASSUME NEW w \in Int, Word(w) \/ Data(w) PROVE SoundWorkspace(g') /\ Kept(g, g')
  BY <1>1, <1>3, PutBytesFacts DEF Word, Data
<1>4. ASSUME NEW text \in Seq(Byte), Text(text) PROVE SoundWorkspace(g') /\ Kept(g, g')
  BY <1>1, <1>4, PutBytesFacts DEF Text
<1>5. ASSUME NEW name, NEW class, NEW type, Declare(name, class, type)
      PROVE  SoundWorkspace(g') /\ Kept(g, g')
  <2>1. 0 \in 0 .. Len(g.mem)
    BY AddressFacts
  <2> QED BY <1>5, <2>1, DeclareFacts DEF Declare
<1>6. ASSUME NEW name, NEW class, NEW type, NEW a \in 0 .. CodeAddr(g), Define(name, class, a, type)
      PROVE  SoundWorkspace(g') /\ Kept(g, g')
  BY <1>6, DeclareFacts DEF Define
<1>7. ASSUME NEW s \in Symbols, NEW class, NEW type, Classify(s, class, type)
      PROVE  SoundWorkspace(g') /\ Kept(g, g')
  BY <1>7, ClassifyFacts DEF Classify
<1>8. ASSUME NEW s \in Symbols, Refer(s) PROVE SoundWorkspace(g') /\ Kept(g, g')
  BY <1>1, <1>8, ReferFacts DEF Refer
<1>9. ASSUME NEW s \in Symbols, NEW a \in 0 .. CodeAddr(g), Place(s, a)
      PROVE  SoundWorkspace(g') /\ Kept(g, g')
  BY <1>9, PlaceFacts DEF Place
<1>10. ASSUME NEW op \in Int, NEW chn \in Pending \cup {0}, Branch(op, chn)
       PROVE  SoundWorkspace(g') /\ Kept(g, g')
  <2>1. chn = 0 \/ \E r : Waits(g, r, chn)
    BY PendingWaits
  <2> QED BY <1>1, <1>10, <2>1, BranchFacts DEF Branch
<1>11. ASSUME NEW op \in Int, NEW target \in 0 .. CodeAddr(g), BranchBack(op, target)
       PROVE  SoundWorkspace(g') /\ Kept(g, g')
  BY <1>1, <1>11, BranchBackFacts DEF BranchBack
<1>12. ASSUME NEW chn \in Pending, Land(chn) PROVE SoundWorkspace(g') /\ Kept(g, g')
  BY <1>12, PendingWaits, LandFacts DEF Land
<1>13. ASSUME NEW funs, NEW pv, NEW gen, Note(funs, pv, gen) PROVE SoundWorkspace(g') /\ Kept(g, g')
  BY <1>13, NoteFacts DEF Note
<1>14. Emit
  BY DEF Next
<1> QED
  BY <1>2, <1>3, <1>4, <1>5, <1>6, <1>7, <1>8, <1>9, <1>10, <1>11, <1>12, <1>13, <1>14 DEF Emit

\* The references are sound in every workspace that the operations lead to.
THEOREM WorkspaceSound == Spec => []WorkspaceInv
<1>1. Init => WorkspaceInv
  BY InitSound
<1>2. WorkspaceInv /\ [Next]_g => WorkspaceInv'
  BY StepSound DEF WorkspaceInv
<1> QED
  BY <1>1, <1>2, PTL DEF Spec

LEMMA SoundImplies ==
  ASSUME WorkspaceInv
  PROVE  ReferencesSound /\ BranchesSound
<1>1. Sound(g.mem, g.syms, g.refs, g.landed)
  BY DEF WorkspaceInv, SoundWorkspace
<1>2. \A to : Chain(to) = Refs(g.refs, to)
  BY DEF Chain, Refs, Sites
<1>3. \A a \in Sites : /\ Resolved(a) = Known(g.syms, g.landed, g.refs[a])
                       /\ Target(a) = Goal(g.syms, g.landed, g.refs[a], a)
                       /\ Previous(a) = Latest({b \in Refs(g.refs, g.refs[a]) : b < a})
  BY <1>2 DEF Resolved, Known, Target, Goal, Previous
<1>4. \A a \in Sites : RdWord(g.mem, a) = IF Resolved(a) THEN Target(a) ELSE Previous(a)
  BY <1>1, <1>3 DEF Sound, Words, Sites
<1>5. \A s \in Symbols : ~g.syms[s].placed => g.syms[s].value = Latest(Chain(<<"symbol", s>>))
  BY <1>1, <1>2 DEF Sound, Heads, Symbols
<1> QED
  BY <1>4, <1>5 DEF ReferencesSound, BranchesSound

\* A word of code that refers to a symbol holds its address from when the symbol
\* is placed, and the chain of the words that wait for one has them all: what
\* codeSymbolRef puts and PlaceSymbol fixes up.
THEOREM ReferencesAreSound == Spec => []ReferencesSound
BY WorkspaceSound, SoundImplies, PTL

\* A branch has the distance to where it goes from when that is known: what
\* putcword puts in a chain and fixupbranch fixes up.
THEOREM BranchesAreSound == Spec => []BranchesSound
BY WorkspaceSound, SoundImplies, PTL

\* Nothing that is in memory changes, but for a word of a reference, once, when it
\* becomes known where it goes.
THEOREM PatchesOnce == Spec => PatchedOnce
<1> DEFINE Patches == /\ Len(g'.mem) >= Len(g.mem)
                      /\ \A i \in 1 .. Len(g.mem) :
                           g'.mem[i] # g.mem[i] =>
                             \E a \in Sites : i \in a + 1 .. a + W /\ ~Resolved(a) /\ Resolved(a)'
<1>1. WorkspaceInv /\ Next => Patches
  <2> SUFFICES ASSUME WorkspaceInv, Next PROVE Patches
    OBVIOUS
  <2>1. Kept(g, g') /\ SoundWorkspace(g')
    BY StepSound
  <2>2. \A a \in Sites : Resolved(a) = Known(g.syms, g.landed, g.refs[a])
    BY DEF Resolved, Known
  <2>3. \A a \in Sites : Resolved(a)' = Known(g'.syms, g'.landed, g'.refs[a])
    BY DEF Resolved, Known
  <2> QED BY <2>1, <2>2, <2>3 DEF Kept, Sites
<1>2. WorkspaceInv /\ [Next]_g => [Patches]_g
  BY <1>1
<1> QED
  BY <1>2, WorkspaceSound, PTL DEF Spec, PatchedOnce
=============================================================================
