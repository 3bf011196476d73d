---------------------------- MODULE LineListProofs ----------------------------
(***************************************************************************)
(* Proofs about LineList, for every set of numbers and texts and every      *)
(* bound on the number of lines: the list stays in ascending order, and it   *)
(* implements the set of numbered lines of ProgramText.                     *)
(***************************************************************************)
EXTENDS LineList, FiniteSetTheorems, TLAPS

USE LineListAssumption

Inv == TypeOK /\ Increasing

\* What each command leaves, seen as a sequence of lines.
LEMMA ListFacts ==
  ASSUME TypeOK
  PROVE  /\ Len(list) \in Nat
         /\ DOMAIN list = 1 .. Len(list)
         /\ \A i \in 1 .. Len(list) : list[i] \in Line /\ list[i].number \in Nat
<1>1. /\ Len(list) \in Nat
      /\ DOMAIN list = 1 .. Len(list)
      /\ \A i \in 1 .. Len(list) : list[i] \in Line
  BY DEF TypeOK
<1>2. \A l \in Line : l.number \in Nat
  BY DEF Line
<1> QED
  BY <1>1, <1>2

LEMMA SequenceFacts ==
  ASSUME NEW k \in Nat, NEW s, s = [i \in 1 .. k |-> s[i]],
         \A i \in 1 .. k : s[i] \in Line
  PROVE  s \in Seq(Line) /\ Len(s) = k
  OBVIOUS

LEMMA InsertFacts ==
  ASSUME TypeOK, NEW i \in 1 .. Len(list) + 1, NEW l \in Line
  PROVE  /\ Inserted(i, l) \in Seq(Line)
         /\ Len(Inserted(i, l)) = Len(list) + 1
         /\ \A j \in 1 .. Len(list) + 1 :
              Inserted(i, l)[j] = IF j < i THEN list[j] ELSE IF j = i THEN l ELSE list[j - 1]
<1>1. \A j \in 1 .. Len(list) + 1 :
        (IF j < i THEN list[j] ELSE IF j = i THEN l ELSE list[j - 1]) \in Line
  BY ListFacts
<1> QED
  BY <1>1, ListFacts DEF Inserted

LEMMA DeleteFacts ==
  ASSUME TypeOK, NEW i \in 1 .. Len(list)
  PROVE  /\ Deleted(i) \in Seq(Line)
         /\ Len(Deleted(i)) = Len(list) - 1
         /\ \A j \in 1 .. Len(list) - 1 :
              Deleted(i)[j] = IF j < i THEN list[j] ELSE list[j + 1]
<1>1. \A j \in 1 .. Len(list) - 1 : (IF j < i THEN list[j] ELSE list[j + 1]) \in Line
  BY ListFacts
<1>2. Len(list) - 1 \in Nat
  BY ListFacts
<1> QED
  BY <1>1, <1>2 DEF Deleted

LEMMA RenumFacts ==
  ASSUME TypeOK, DoRenum
  PROVE  /\ list' \in Seq(Line)
         /\ Len(list') = Len(list)
         /\ \A i \in 1 .. Len(list) :
              list'[i] = [number |-> 100 + 10 * (i - 1), text |-> list[i].text]
<1>1. \A i \in 1 .. Len(list) :
        [number |-> 100 + 10 * (i - 1), text |-> list[i].text] \in Line
  BY ListFacts DEF Line
<1> QED
  BY <1>1, ListFacts DEF DoRenum
-----------------------------------------------------------------------------
LEMMA InitInv == Init => Inv
  BY DEF Init, Inv, TypeOK, Increasing

LEMMA AddInv ==
  ASSUME Inv, NEW n \in Numbers, NEW t \in Texts, BufAddLineN(n, t)
  PROVE  Inv'
<1> DEFINE l == [number |-> n, text |-> t]
<1>1. TypeOK /\ Increasing /\ l \in Line /\ l.number = n /\ n \in Nat
  BY DEF Inv, Line
<1>2. PICK i \in 1 .. Len(list) + 1 :
        /\ FindLineN(n, i)
        /\ \/ Found(n, i) /\ list' = [list EXCEPT ![i] = l]
           \/ ~Found(n, i) /\ list' = Inserted(i, l)
  BY DEF BufAddLineN
<1>3. /\ \A j \in 1 .. i - 1 : list[j].number < n
      /\ i <= Len(list) => n <= list[i].number
  BY <1>2 DEF FindLineN
<1> HIDE DEF l
<1>4. CASE Found(n, i) /\ list' = [list EXCEPT ![i] = l]
  <2>1. i \in 1 .. Len(list) /\ list[i].number = n
    BY <1>1, <1>2, <1>4, ListFacts DEF Found
  <2>2. /\ list' \in Seq(Line)
        /\ Len(list') = Len(list)
        /\ \A j \in 1 .. Len(list) : list'[j] = IF j = i THEN l ELSE list[j]
    BY <1>1, <1>4, <2>1 DEF TypeOK
  <2>3. \A j \in 1 .. Len(list) : list'[j].number = list[j].number
    BY <1>1, <2>1, <2>2
  <2> QED
    BY <1>1, <2>2, <2>3 DEF Inv, TypeOK, Increasing
<1>5. CASE ~Found(n, i) /\ list' = Inserted(i, l)
  <2>1. /\ list' \in Seq(Line)
        /\ Len(list') = Len(list) + 1
        /\ \A j \in 1 .. Len(list) + 1 :
             list'[j] = IF j < i THEN list[j] ELSE IF j = i THEN l ELSE list[j - 1]
    BY <1>1, <1>5, InsertFacts
  <2>2. i <= Len(list) => n < list[i].number
    BY <1>1, <1>3, <1>5, ListFacts DEF Found
  <2>3. \A j \in i .. Len(list) : n < list[j].number
    BY <1>1, <1>2, <2>2, ListFacts DEF Increasing
  <2>4. ASSUME NEW j \in 1 .. Len(list) + 1, NEW k \in 1 .. Len(list) + 1, j < k
        PROVE  list'[j].number < list'[k].number
    <3>1. CASE k < i
      BY <1>1, <2>1, <2>4, <3>1, ListFacts DEF Increasing
    <3>2. CASE k = i
      BY <1>1, <1>3, <2>1, <2>4, <3>2, ListFacts
    <3>3. CASE k > i /\ j < i
      <4>1. j \in 1 .. Len(list) /\ k - 1 \in 1 .. Len(list)
        BY <1>1, <3>3, ListFacts
      <4>2. list'[j] = list[j] /\ list'[k] = list[k - 1] /\ k - 1 \in i .. Len(list) /\ j \in 1 .. i - 1
        BY <1>1, <2>1, <3>3, ListFacts
      <4>3. list[j].number < n /\ n < list[k - 1].number
        BY <1>3, <2>3, <4>2
      <4>4. list[j].number \in Nat /\ list[k - 1].number \in Nat
        BY <1>1, <4>2, ListFacts
      <4> QED
        BY <1>1, <4>2, <4>3, <4>4
    <3>4. CASE k > i /\ j = i
      <4>1. k - 1 \in i .. Len(list) /\ list'[k] = list[k - 1] /\ list'[j] = l
        BY <1>1, <2>1, <3>4, ListFacts
      <4> QED
        BY <1>1, <2>3, <4>1
    <3>5. CASE k > i /\ j > i
      <4>1. /\ j - 1 \in 1 .. Len(list) /\ k - 1 \in 1 .. Len(list) /\ j - 1 < k - 1
            /\ list'[j] = list[j - 1] /\ list'[k] = list[k - 1]
        BY <1>1, <2>1, <2>4, <3>5, ListFacts
      <4> QED
        BY <1>1, <4>1 DEF Increasing
    <3> QED
      BY <1>1, <3>1, <3>2, <3>3, <3>4, <3>5, ListFacts
  <2> QED
    BY <2>1, <2>4 DEF Inv, TypeOK, Increasing
<1> QED
  BY <1>2, <1>4, <1>5

LEMMA DeleteInv ==
  ASSUME Inv, NEW n \in Numbers, BufDeleteLineN(n)
  PROVE  Inv'
<1>1. PICK i \in 1 .. Len(list) : list' = Deleted(i)
  BY DEF BufDeleteLineN
<1>2. TypeOK /\ Increasing
  BY DEF Inv
<1>3. /\ list' \in Seq(Line)
      /\ Len(list') = Len(list) - 1
      /\ \A j \in 1 .. Len(list) - 1 : list'[j] = IF j < i THEN list[j] ELSE list[j + 1]
  BY <1>1, <1>2, DeleteFacts
<1>4. ASSUME NEW j \in 1 .. Len(list) - 1, NEW k \in 1 .. Len(list) - 1, j < k
      PROVE  list'[j].number < list'[k].number
  <2> DEFINE at(m) == IF m < i THEN m ELSE m + 1
  <2>1. at(j) \in 1 .. Len(list) /\ at(k) \in 1 .. Len(list) /\ at(j) < at(k)
    BY <1>2, <1>4, ListFacts
  <2>2. list'[j] = list[at(j)] /\ list'[k] = list[at(k)]
    BY <1>3
  <2> HIDE DEF at
  <2> QED
    BY <1>2, <2>1, <2>2 DEF Increasing
<1> QED
  BY <1>3, <1>4 DEF Inv, TypeOK, Increasing

LEMMA RenumInv ==
  ASSUME Inv, DoRenum
  PROVE  Inv'
<1>1. TypeOK
  BY DEF Inv
<1>2. \A i \in 1 .. Len(list) : list'[i].number = 100 + 10 * (i - 1)
  <2>1. \A i \in 1 .. Len(list) :
          list'[i] = [number |-> 100 + 10 * (i - 1), text |-> list[i].text]
    BY <1>1, RenumFacts
  <2> TAKE i \in 1 .. Len(list)
  <2>2. list'[i] = [number |-> 100 + 10 * (i - 1), text |-> list[i].text]
    BY <2>1
  <2>3. \A r, a, b : r = [number |-> a, text |-> b] => r.number = a
    OBVIOUS
  <2> QED
    BY <2>2, <2>3
<1>3. \A i, j \in 1 .. Len(list) : i < j => list'[i].number < list'[j].number
  BY <1>1, <1>2, ListFacts
<1> QED
  BY <1>1, <1>3, RenumFacts DEF Inv, TypeOK, Increasing

LEMMA NextInv == Inv /\ [Next]_list => Inv'
<1> SUFFICES ASSUME Inv, [Next]_list
             PROVE  Inv'
  OBVIOUS
<1>1. ASSUME NEW n \in Numbers, NEW t \in Texts, BufAddLineN(n, t)
      PROVE  Inv'
  BY <1>1, AddInv
<1>2. ASSUME NEW n \in Numbers, BufDeleteLineN(n)
      PROVE  Inv'
  BY <1>2, DeleteInv
<1>3. CASE BufNew
  BY <1>3 DEF BufNew, Inv, TypeOK, Increasing
<1>4. CASE DoRenum
  BY <1>4, RenumInv
<1>5. CASE UNCHANGED list
  BY <1>5 DEF Inv, TypeOK, Increasing
<1> QED
  BY <1>1, <1>2, <1>3, <1>4, <1>5 DEF Next

\* In every state the lines are well formed.
THEOREM TypeCorrect == Spec => []TypeOK
<1>1. Inv => TypeOK
  BY DEF Inv
<1> QED
  BY <1>1, InitInv, NextInv, PTL DEF Spec

\* In every state the lines are in ascending order and no number occurs twice.
THEOREM IncreasingCorrect == Spec => []Increasing
<1>1. Inv => Increasing
  BY DEF Inv
<1> QED
  BY <1>1, InitInv, NextInv, PTL DEF Spec
-----------------------------------------------------------------------------
(***************************************************************************)
(* The refinement of ProgramText.                                           *)
(***************************************************************************)

\* Two places hold lines of the same number only if they are the same place.
LEMMA PlaceUnique ==
  ASSUME Inv, NEW i \in 1 .. Len(list), NEW j \in 1 .. Len(list),
         list[i].number = list[j].number
  PROVE  i = j
<1>1. TypeOK
  BY DEF Inv
<1>2. i < j => list[i].number < list[j].number
  BY DEF Inv, Increasing
<1>3. j < i => list[j].number < list[i].number
  BY DEF Inv, Increasing
<1> QED
  BY <1>1, <1>2, <1>3, ListFacts

\* The lines below a line are those at the places before its own.
LEMMA Rank ==
  ASSUME Inv, NEW i \in 1 .. Len(list)
  PROVE  Cardinality({m \in LinesOf(list) : m.number < list[i].number}) = i - 1
<1> DEFINE S == {m \in LinesOf(list) : m.number < list[i].number}
           f == [j \in 1 .. i - 1 |-> list[j]]
<1>1. TypeOK /\ i - 1 \in Nat
  BY ListFacts DEF Inv
<1>2. \A j \in 1 .. Len(list) : list[j].number < list[i].number <=> j < i
  <2> TAKE j \in 1 .. Len(list)
  <2>1. j < i => list[j].number < list[i].number
    BY DEF Inv, Increasing
  <2>2. i < j => list[i].number < list[j].number
    BY DEF Inv, Increasing
  <2> QED
    BY <1>1, <2>1, <2>2, ListFacts
<1>3. \A m \in S : \E j \in 1 .. i - 1 : f[j] = m
  BY <1>1, <1>2, ListFacts DEF LinesOf
<1>4. \A j \in 1 .. i - 1 : f[j] \in S
  BY <1>1, <1>2, ListFacts DEF LinesOf
<1>5. \A j, k \in 1 .. i - 1 : f[j] = f[k] => j = k
  BY <1>1, PlaceUnique, ListFacts
<1>6. f \in Bijection(1 .. i - 1, S)
  <2> f = [j \in DOMAIN f |-> f[j]] /\ DOMAIN f = 1 .. i - 1
    OBVIOUS
  <2> HIDE DEF f, S
  <2> QED
    BY <1>3, <1>4, <1>5 DEF Bijection, Injection, Surjection, IsInjective
<1> HIDE DEF f, S
<1>7. Cardinality(S) = i - 1
  BY <1>1, <1>6, FS_CountingElements DEF ExistsBijection
<1> QED
  BY <1>7 DEF S

LEMMA AddStep ==
  ASSUME Inv, NEW n \in Numbers, NEW t \in Texts, BufAddLineN(n, t)
  PROVE  Text!Enter(n, t)
<1> DEFINE l == [number |-> n, text |-> t]
           others == {m \in LinesOf(list) : m.number # n}
<1>1. TypeOK /\ l \in Line /\ n \in Nat
  BY DEF Inv, Line
<1>2. PICK i \in 1 .. Len(list) + 1 :
        /\ FindLineN(n, i)
        /\ \/ Found(n, i) /\ list' = [list EXCEPT ![i] = l]
           \/ ~Found(n, i) /\ list' = Inserted(i, l)
  BY DEF BufAddLineN
<1> HIDE DEF l
<1>3. CASE Found(n, i) /\ list' = [list EXCEPT ![i] = l]
  <2>1. i \in 1 .. Len(list) /\ list[i].number = n
    BY <1>1, <1>2, <1>3, ListFacts DEF Found
  <2>2. /\ Len(list') = Len(list)
        /\ \A j \in 1 .. Len(list) : list'[j] = IF j = i THEN l ELSE list[j]
    BY <1>1, <1>3, <2>1 DEF TypeOK
  <2>3. \A j \in 1 .. Len(list) : list[j].number # n <=> j # i
    BY <2>1, PlaceUnique
  <2> QED
    BY <1>1, <2>1, <2>2, <2>3, ListFacts DEF Text!Enter, Text!Others, LinesOf, l
<1>4. CASE ~Found(n, i) /\ list' = Inserted(i, l)
  <2>1. /\ Len(list') = Len(list) + 1
        /\ \A j \in 1 .. Len(list) + 1 :
             list'[j] = IF j < i THEN list[j] ELSE IF j = i THEN l ELSE list[j - 1]
    BY <1>1, <1>4, InsertFacts
  <2>2. \A j \in 1 .. Len(list) : list[j].number # n
    <3> TAKE j \in 1 .. Len(list)
    <3>1. CASE j < i
      BY <1>1, <1>2, <3>1, ListFacts DEF FindLineN
    <3>2. CASE j >= i
      <4>1. i \in 1 .. Len(list) /\ n <= list[i].number /\ n # list[i].number
        BY <1>1, <1>2, <1>4, <3>2, ListFacts DEF FindLineN, Found
      <4>2. list[i].number <= list[j].number
        BY <1>1, <3>2, <4>1, ListFacts DEF Inv, Increasing
      <4> QED
        BY <1>1, <4>1, <4>2, ListFacts
    <3> QED
      BY <1>1, <3>1, <3>2, ListFacts
  <2>3. LinesOf(list') \subseteq LinesOf(list) \cup {l}
    <3> SUFFICES ASSUME NEW j \in 1 .. Len(list) + 1
                 PROVE  list'[j] \in LinesOf(list) \cup {l}
      BY <2>1 DEF LinesOf
    <3>1. CASE j < i
      <4>1. j \in 1 .. Len(list) /\ list'[j] = list[j]
        BY <1>1, <2>1, <3>1, ListFacts
      <4> QED
        BY <4>1 DEF LinesOf
    <3>2. CASE j = i
      BY <1>1, <2>1, <3>2
    <3>3. CASE j > i
      <4>1. j - 1 \in 1 .. Len(list) /\ list'[j] = list[j - 1]
        BY <1>1, <2>1, <3>3, ListFacts
      <4> QED
        BY <4>1 DEF LinesOf
    <3> QED
      BY <1>1, <3>1, <3>2, <3>3, ListFacts
  <2>4. l \in LinesOf(list')
    BY <1>1, <2>1, ListFacts DEF LinesOf
  <2>5. LinesOf(list) \subseteq LinesOf(list')
    <3> SUFFICES ASSUME NEW j \in 1 .. Len(list)
                 PROVE  list[j] \in LinesOf(list')
      BY DEF LinesOf
    <3>1. CASE j < i
      BY <1>1, <2>1, <3>1, ListFacts DEF LinesOf
    <3>2. CASE j >= i
      <4>1. j + 1 \in 1 .. Len(list') /\ list'[j + 1] = list[j]
        BY <1>1, <2>1, <3>2, ListFacts
      <4> QED
        BY <4>1 DEF LinesOf
    <3> QED
      BY <1>1, <3>1, <3>2, ListFacts
  <2>6. others = LinesOf(list)
    BY <2>2 DEF LinesOf
  <2> QED
    BY <2>3, <2>4, <2>5, <2>6 DEF Text!Enter, Text!Others, l
<1> QED
  BY <1>2, <1>3, <1>4

LEMMA DeleteStep ==
  ASSUME Inv, NEW n \in Numbers, BufDeleteLineN(n)
  PROVE  Text!Remove(n)
<1>1. PICK i \in 1 .. Len(list) : list[i].number = n /\ list' = Deleted(i)
  BY DEF BufDeleteLineN, Found
<1>2. TypeOK
  BY DEF Inv
<1>3. /\ Len(list') = Len(list) - 1
      /\ \A j \in 1 .. Len(list) - 1 : list'[j] = IF j < i THEN list[j] ELSE list[j + 1]
  BY <1>1, <1>2, DeleteFacts
<1>4. \A j \in 1 .. Len(list) : list[j].number # n <=> j # i
  BY <1>1, PlaceUnique
<1>5. LinesOf(list') \subseteq {l \in LinesOf(list) : l.number # n}
  <2> SUFFICES ASSUME NEW j \in 1 .. Len(list) - 1
               PROVE  list'[j] \in {l \in LinesOf(list) : l.number # n}
    BY <1>3 DEF LinesOf
  <2>1. CASE j < i
    BY <1>2, <1>3, <1>4, <2>1, ListFacts DEF LinesOf
  <2>2. CASE j >= i
    <3>1. j + 1 \in 1 .. Len(list) /\ j + 1 # i /\ list'[j] = list[j + 1]
      BY <1>2, <1>3, <2>2, ListFacts
    <3> QED
      BY <1>4, <3>1 DEF LinesOf
  <2> QED
    BY <1>2, <2>1, <2>2, ListFacts
<1>6. ASSUME NEW j \in 1 .. Len(list), j # i
      PROVE  list[j] \in LinesOf(list')
  <2>1. CASE j < i
    BY <1>2, <1>3, <2>1, ListFacts DEF LinesOf
  <2>2. CASE j > i
    <3>1. j - 1 \in 1 .. Len(list') /\ list'[j - 1] = list[j]
      BY <1>2, <1>3, <2>2, ListFacts
    <3> QED
      BY <3>1 DEF LinesOf
  <2> QED
    BY <1>2, <1>6, <2>1, <2>2, ListFacts
<1>7. {l \in LinesOf(list) : l.number # n} \subseteq LinesOf(list')
  BY <1>4, <1>6 DEF LinesOf
<1> QED
  BY <1>5, <1>7 DEF Text!Remove, Text!Others

LEMMA RenumStep ==
  ASSUME Inv, DoRenum
  PROVE  Text!Renumber
<1> DEFINE new(l) == [number |-> 100 + 10 * Cardinality(Text!Before(l)), text |-> l.text]
<1>1. TypeOK
  BY DEF Inv
<1>2. /\ Len(list') = Len(list)
      /\ \A i \in 1 .. Len(list) :
           list'[i] = [number |-> 100 + 10 * (i - 1), text |-> list[i].text]
  BY <1>1, RenumFacts
<1>3. \A i \in 1 .. Len(list) : list'[i] = new(list[i])
  BY <1>2, Rank DEF Text!Before
<1> HIDE DEF new
<1>4. LinesOf(list') = {new(l) : l \in LinesOf(list)}
  BY <1>2, <1>3 DEF LinesOf
<1> QED
  BY <1>4 DEF Text!Renumber, new, Text!Cardinality, Cardinality

\* The sorted sequence of lines implements the set of numbered lines: entering,
\* deleting and renumbering do to the set what the editor promises.
THEOREM ImplementsProgramTextCorrect == Spec => ImplementsProgramText
<1>1. Init => Text!Init
  BY DEF Init, Text!Init, LinesOf
<1>2. ASSUME Inv, [Next]_list
      PROVE  [Text!Next]_(LinesOf(list))
  <2>1. ASSUME NEW n \in Numbers, NEW t \in Texts, BufAddLineN(n, t)
        PROVE  Text!Next
    BY <1>2, <2>1, AddStep DEF Text!Next
  <2>2. ASSUME NEW n \in Numbers, BufDeleteLineN(n)
        PROVE  Text!Next
    BY <1>2, <2>2, DeleteStep DEF Text!Next
  <2>3. CASE BufNew
    BY <2>3 DEF BufNew, Text!Next, Text!Clear, LinesOf
  <2>4. CASE DoRenum
    BY <1>2, <2>4, RenumStep DEF Text!Next
  <2>5. CASE UNCHANGED list
    BY <2>5 DEF LinesOf
  <2> QED
    BY <1>2, <2>1, <2>2, <2>3, <2>4, <2>5 DEF Next
<1> QED
  BY <1>1, <1>2, InitInv, NextInv, PTL DEF Spec, ImplementsProgramText, Text!Spec
=============================================================================
