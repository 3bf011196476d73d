--------------------------- MODULE EditBufferProofs ---------------------------
(***************************************************************************)
(* Proofs about EditBuffer, for every size of the buffer, alignment, console *)
(* and disk: the records fill the buffer exactly, LIST, SAVE and RUN see      *)
(* each line once, and the bytes implement the ordered list of LineList; what *)
(* SAVE leaves in a file is the program's text, and LOAD numbers the lines it *)
(* finds in one by their places and drops none of a file that fits.           *)
(***************************************************************************)
EXTENDS EditWalkProofs

Places == [i \in 1 .. Len(Program) + 1 |-> LineAt[i - 1]]
Laid   == buffer \in Nat /\ Layout(mem, buffer, Program, Places)

\* There is only one way to lay out a memory.
OneLayout ==
  \A s, w : buffer \in Nat /\ Layout(mem, buffer, s, w) => Program = s /\ Places = w

LEMMA LayoutUnique == OneLayout
<1> SUFFICES ASSUME NEW s, NEW w, buffer \in Nat, Layout(mem, buffer, s, w)
             PROVE  Program = s /\ Places = w
  BY DEF OneLayout
<1>1. /\ \A i \in 0 .. MaxLines : LineAt[i] = IF i < Len(s) THEN w[i + 1] ELSE Top
      /\ Len(s) \in 0 .. MaxLines /\ MaxLines \in Nat
      /\ Program = s
  BY ProgramIs
<1>2. w \in [1 .. Len(s) + 1 -> Nat] /\ w[Len(s) + 1] = Top
  BY DEF Layout
<1>3. PICK n \in Nat : n = Len(s) /\ n \in 0 .. MaxLines
  BY <1>1
<1>4. ASSUME NEW i \in 1 .. n + 1
      PROVE  LineAt[i - 1] = w[i]
  <2>1. i - 1 \in 0 .. MaxLines /\ i - 1 + 1 = i
    BY <1>1, <1>3
  <2>2. CASE i <= n
    <3>1. i - 1 < n
      BY <2>2
    <3> QED
      BY <1>1, <1>3, <2>1, <3>1
  <2>3. CASE i = n + 1
    <3>1. ~(i - 1 < n)
      BY <2>3
    <3> QED
      BY <1>1, <1>2, <1>3, <2>1, <2>3, <3>1
  <2> QED
    BY <2>2, <2>3
<1>5. Places = w
  BY <1>1, <1>2, <1>3, <1>4 DEF Places
<1> QED
  BY <1>1, <1>5

LEMMA LayoutUniqueNext ==
  ASSUME NEW s, NEW w, buffer' \in Nat, Layout(mem', buffer', s, w)
  PROVE  Program' = s /\ Places' = w
<1>1. OneLayout'
  BY LayoutUnique, PTL
<1> QED
  BY <1>1 DEF OneLayout

LEMMA LaidNext ==
  ASSUME NEW s, NEW w, buffer' \in Nat, Layout(mem', buffer', s, w)
  PROVE  Program' = s /\ Places' = w /\ Laid'
<1>1. Program' = s /\ Places' = w
  BY LayoutUniqueNext
<1> QED
  BY <1>1 DEF Laid

LEMMA NothingEdited ==
  ASSUME Laid, UNCHANGED edit
  PROVE  Program' = Program /\ Places' = Places /\ Laid'
<1>1. buffer' \in Nat /\ Layout(mem', buffer', Program, Places)
  BY DEF Laid, edit
<1> QED
  BY <1>1, LaidNext
-----------------------------------------------------------------------------
\* The cells of a line that is written at p.
Cells(m, c) == m = [a \in c .. Top - 1 |-> m[a]]
Joining(x, y, t, z) == <<x, y>> \o t \o <<z>>
WithLine(m, p, l) == Store(m, p, Joining(l.number, NewLength(l.text), l.text, NUL))

LEMMA Joined ==
  ASSUME NEW x, NEW y, NEW z, NEW S, NEW t \in Seq(S), NEW n \in Nat, n = Len(t)
  PROVE  LET cells == Joining(x, y, t, z)
         IN  /\ Len(cells) = n + 3
             /\ cells[1] = x /\ cells[2] = y
             /\ \A i \in 1 .. n : cells[2 + i] = t[i]
             /\ cells[n + 3] = z
<1> DEFINE front == <<x, y>> \o t
           cells == front \o <<z>>
           T     == S \cup {x, y, z}
<1>1. front \in Seq(T) /\ <<z>> \in Seq(T) /\ Len(<<z>>) = 1
  <2>1. t \in Seq(T) /\ <<x, y>> \in Seq(T)
    OBVIOUS
  <2> QED
    BY <2>1
<1>2. /\ Len(front) = n + 2
      /\ front[1] = x /\ front[2] = y
      /\ \A i \in 1 .. n : front[2 + i] = t[i]
  OBVIOUS
<1> HIDE DEF front, T
<1>3. /\ Len(cells) = n + 3
      /\ \A i \in 1 .. n + 2 : cells[i] = front[i]
      /\ cells[n + 3] = z
  BY <1>1, <1>2
<1> HIDE DEF cells
<1>4. cells[1] = x /\ cells[2] = y
  BY <1>2, <1>3
<1>5. \A i \in 1 .. n : cells[2 + i] = t[i]
  <2> TAKE i \in 1 .. n
  <2>1. 2 + i \in 1 .. n + 2
    OBVIOUS
  <2> QED
    BY <1>2, <1>3, <2>1
<1> QED
  BY <1>3, <1>4, <1>5 DEF cells, front, Joining

LEMMA Written ==
  ASSUME NEW m, NEW c \in Nat, Cells(m, c),
         NEW l \in LineRecord, NEW p \in Nat, c <= p, p + NewLength(l.text) <= Top,
         NEW m2, m2 = WithLine(m, p, l)
  PROVE  /\ Cells(m2, c)
         /\ Holds(m2, p, l)
         /\ \A a \in c .. Top - 1 : a < p \/ a >= p + NewLength(l.text) => m2[a] = m[a]
<1> DEFINE size  == NewLength(l.text)
           cells == Joining(l.number, size, l.text, NUL)
<1>0. m2 = Store(m, p, cells)
  BY DEF WithLine
<1>1. /\ l.text \in Seq(Chars \cup {NL})
      /\ size \in Nat /\ size >= LineSize + Len(l.text) /\ LineSize \in Nat /\ LineSize >= 3
  <2>1. l.text \in TextsUpTo(MaxLine - 1) /\ MaxLine - 1 \in Nat
    BY LineFacts, EditAssumption
  <2> QED
    BY <2>1, TextFacts, LineFacts, EditAssumption
<1>2. PICK n \in Nat : n = Len(l.text)
  BY <1>1
<1> HIDE DEF size
<1>3. /\ Len(cells) = n + 3
      /\ cells[1] = l.number /\ cells[2] = size
      /\ \A i \in 1 .. n : cells[2 + i] = l.text[i]
      /\ cells[n + 3] = NUL
  <2> HIDE DEF cells
  <2> QED
    BY <1>1, <1>2, Joined DEF cells
<1> HIDE DEF cells
<1>4. m2 = [a \in c .. Top - 1 |-> IF a \in p .. p + n + 2 THEN cells[a - p + 1] ELSE m[a]]
  <2>1. DOMAIN m = c .. Top - 1
    BY DEF Cells
  <2>2. p + Len(cells) - 1 = p + n + 2
    BY <1>3
  <2> QED
    BY <1>0, <2>1, <2>2 DEF Store
<1>5. \A x \in 0 .. n + 2 : m2[p + x] = cells[x + 1]
  <2> TAKE x \in 0 .. n + 2
  <2>1. p + n + 3 <= Top
    <3>1. p + size <= Top
      BY DEF size
    <3> QED
      BY <1>1, <1>2, <3>1, EditAssumption
  <2>2. p + x \in c .. Top - 1 /\ p + x \in p .. p + n + 2 /\ p + x - p + 1 = x + 1
    BY <2>1, EditAssumption
  <2>3. \A a \in c .. Top - 1 : a \in p .. p + n + 2 => m2[a] = cells[a - p + 1]
    BY <1>4
  <2> QED
    BY <2>2, <2>3
<1>6. Holds(m2, p, l)
  <2>1. m2[p] = cells[1]
    <3>1. m2[p + 0] = cells[0 + 1]
      BY <1>5
    <3> QED
      BY <3>1
  <2>2. m2[p + 1] = cells[2]
    <3>1. m2[p + 1] = cells[1 + 1]
      BY <1>5
    <3> QED
      BY <3>1
  <2>3. \A i \in 1 .. n : m2[p + 1 + i] = cells[2 + i]
    <3> TAKE i \in 1 .. n
    <3>1. m2[p + (1 + i)] = cells[1 + i + 1]
      BY <1>5
    <3>2. p + (1 + i) = p + 1 + i /\ 1 + i + 1 = 2 + i
      OBVIOUS
    <3> QED
      BY <3>1, <3>2
  <2>4. m2[p + 2 + n] = cells[n + 3]
    <3>1. m2[p + (2 + n)] = cells[2 + n + 1]
      <4> 2 + n \in 0 .. n + 2
        OBVIOUS
      <4> QED
        BY <1>5
    <3>2. p + (2 + n) = p + 2 + n /\ 2 + n + 1 = n + 3
      OBVIOUS
    <3> QED
      BY <3>1, <3>2
  <2> QED
    BY <1>2, <1>3, <2>1, <2>2, <2>3, <2>4 DEF Holds, size
<1>7. \A a \in c .. Top - 1 : a < p \/ a >= p + size => m2[a] = m[a]
  <2> TAKE a \in c .. Top - 1
  <2>1. a < p \/ a >= p + size => a \notin p .. p + n + 2
    BY <1>1, <1>2, EditAssumption
  <2> QED
    BY <1>4, <2>1
<1>8. Cells(m2, c)
  BY <1>4 DEF Cells
<1> QED
  BY <1>6, <1>7, <1>8 DEF size

\* What an edit that makes room and writes a line does to the cells.
LEMMA AddCells ==
  ASSUME NEW s, NEW w, buffer \in Nat, Layout(mem, buffer, s, w),
         NEW i \in 1 .. Len(s) + 1, NEW d \in {0, 1}, i + d <= Len(s) + 1,
         NEW l \in LineRecord, NEW space \in Int, buffer - space \in Nat,
         w[i] - space + NewLength(l.text) = w[i + d]
  PROVE  SplicedCells(mem, buffer, w, i, d, l, space, buffer - space,
           WithLine(Memmove(buffer - space, buffer - space, buffer, w[i] - buffer), w[i] - space, l))
<1> DEFINE c     == buffer - space
           moved == Memmove(c, c, buffer, w[i] - buffer)
           m2    == WithLine(moved, w[i] - space, l)
           size  == NewLength(l.text)
<1>1. /\ w[i] \in Nat /\ buffer <= w[i] /\ w[i] <= Top
      /\ w[i + d] \in Nat /\ w[i + d] <= Top /\ buffer <= w[i + d]
  <2>1. Len(s) \in Nat /\ \A j \in 1 .. Len(s) + 1 : w[j] \in Nat /\ buffer <= w[j] /\ w[j] <= Top
    BY PlaceFacts
  <2>2. i + d \in 1 .. Len(s) + 1
    BY <2>1
  <2> QED
    BY <2>1, <2>2
<1>2. PICK q \in Nat, r \in Nat : q = w[i] /\ r = w[i + d]
  BY <1>1
<1>3. size \in Nat /\ size >= LineSize /\ LineSize \in Nat
  BY LineFacts, EditAssumption
<1>4. q - space + size = r
  BY <1>2
<1>5. c \in Nat /\ q - space \in Nat /\ c <= q - space /\ q - space + size <= Top
  <2>1. q >= buffer
    BY <1>1, <1>2
  <2> QED
    BY <1>1, <1>2, <1>4, <2>1
<1> HIDE DEF size
<1>6. DOMAIN mem = buffer .. Top - 1
  BY DEF Layout
<1>7. moved = [a \in c .. Top - 1 |-> IF a \in c .. q - space - 1 THEN mem[a + space]
                                      ELSE IF a \in buffer .. Top - 1 THEN mem[a] ELSE 0]
  <2>1. c + (q - buffer) - 1 = q - space - 1
    BY <1>2
  <2>2. \A a \in c .. Top - 1 : a - c + buffer = a + space
    BY <1>5
  <2> QED
    BY <1>2, <1>6, <2>1, <2>2 DEF Memmove
<1> HIDE DEF moved
<1>8. Cells(moved, c)
  BY <1>7 DEF Cells
<1>9. /\ Cells(m2, c)
      /\ Holds(m2, q - space, l)
      /\ \A a \in c .. Top - 1 : a < q - space \/ a >= q - space + size => m2[a] = moved[a]
  <2>1. q - space + NewLength(l.text) <= Top
    BY <1>5 DEF size
  <2>2. m2 = WithLine(moved, q - space, l)
    BY <1>2
  <2> DEFINE e == q - space
  <2>3. e \in Nat /\ c \in Nat /\ c <= e /\ e + NewLength(l.text) <= Top
    BY <1>5, <2>1
  <2>4. m2 = WithLine(moved, e, l)
    BY <2>2
  <2> HIDE DEF c, m2, e
  <2>5. /\ Cells(m2, c)
        /\ Holds(m2, e, l)
        /\ \A a \in c .. Top - 1 : a < e \/ a >= e + NewLength(l.text) => m2[a] = moved[a]
    BY <1>8, <2>3, <2>4, Written
  <2> QED
    BY <2>5 DEF e, size
<1> HIDE DEF m2
<1>10. ASSUME NEW a \in c .. q - space - 1
       PROVE  m2[a] = mem[a + space]
  <2>1. a \in c .. Top - 1 /\ a < q - space
    BY <1>3, <1>5, EditAssumption
  <2> QED
    BY <1>7, <1>9, <2>1
<1>11. ASSUME NEW a \in r .. Top - 1
       PROVE  m2[a] = mem[a]
  <2>1. a \in c .. Top - 1 /\ a >= q - space + size /\ a \notin c .. q - space - 1
    BY <1>3, <1>4, <1>5, EditAssumption
  <2>2. a \in buffer .. Top - 1
    BY <1>1, <1>2, EditAssumption
  <2>3. moved[a] = mem[a]
    BY <1>7, <2>1, <2>2
  <2> QED
    BY <1>9, <2>1, <2>3
<1>12. SplicedCells(mem, buffer, w, i, d, l, space, c, m2)
  BY <1>2, <1>9, <1>10, <1>11 DEF SplicedCells, Cells
<1> QED
  BY <1>12 DEF m2, moved

LEMMA LineAdded ==
  ASSUME NEW s, NEW w, buffer \in Nat, Layout(mem, buffer, s, w),
         NEW i \in 1 .. Len(s) + 1, NEW d \in {0, 1}, i + d <= Len(s) + 1,
         NEW l \in LineRecord, NEW space \in Int, buffer - space \in Nat,
         w[i] - space + NewLength(l.text) = w[i + d],
         buffer' = buffer - space,
         mem' = WithLine(Memmove(buffer - space, buffer - space, buffer, w[i] - buffer), w[i] - space, l),
         NEW s2, SplicedLines(s, i, d, l, s2)
  PROVE  Program' = s2 /\ Laid'
<1>1. SplicedCells(mem, buffer, w, i, d, l, space, buffer - space, mem')
  BY AddCells
<1> DEFINE c  == buffer - space
           m2 == mem'
<1>2. c \in Nat /\ SplicedCells(mem, buffer, w, i, d, l, space, c, m2)
  BY <1>1
<1> HIDE DEF c, m2
<1>3. LaidOut(m2, c, s2)
  BY <1>2, Spliced
<1>4. PICK w2 : Layout(mem', buffer', s2, w2)
  BY <1>3 DEF LaidOut, c, m2
<1>5. buffer' \in Nat
  OBVIOUS
<1> QED
  BY <1>4, <1>5, LaidNext

\* The lines there are, as LineList has them.
LEMMA LaidFacts ==
  ASSUME Laid
  PROVE  /\ buffer \in Nat /\ Layout(mem, buffer, Program, Places)
         /\ Len(Program) \in Nat /\ Program \in Seq(LineRecord)
         /\ Program = [i \in 1 .. Len(Program) |-> Program[i]]
         /\ \A i \in 1 .. Len(Program) : Program[i] \in LineRecord /\ Program[i].number \in Nat
         /\ \A i \in 1 .. Len(Program) + 1 : Places[i] \in Nat /\ buffer <= Places[i] /\ Places[i] <= Top
         /\ \A i, j \in 1 .. Len(Program) + 1 : i < j => Places[i] < Places[j]
         /\ Places[1] = buffer /\ Places[Len(Program) + 1] = Top
         /\ Len(Program) <= MaxLines
<1>1. buffer \in Nat /\ Layout(mem, buffer, Program, Places)
  BY DEF Laid
<1>2. /\ Len(Program) \in Nat
      /\ \A i \in 1 .. Len(Program) : Program[i] \in LineRecord
      /\ \A i \in 1 .. Len(Program) + 1 : Places[i] \in Nat /\ buffer <= Places[i] /\ Places[i] <= Top
      /\ \A i, j \in 1 .. Len(Program) + 1 : i < j => Places[i] < Places[j]
      /\ Len(Program) <= MaxLines
  BY <1>1, PlaceFacts
<1>3. /\ Program \in Seq(LineRecord)
      /\ Places[1] = buffer /\ Places[Len(Program) + 1] = Top
  BY <1>1 DEF Layout
<1>4. Program = [i \in 1 .. Len(Program) |-> Program[i]]
  BY <1>3
<1>5. \A i \in 1 .. Len(Program) : Program[i].number \in Nat
  BY <1>2, LineFacts
<1> QED
  BY <1>1, <1>2, <1>3, <1>4, <1>5

\* Entering a line, replacing the one with its number or between those around it.
LEMMA AddStep ==
  ASSUME Laid, nextLow \in Nat, NEW n \in Nat, NEW t \in TextsUpTo(MaxLine - 1), BufAddLineN(n, t)
  PROVE  Laid' /\ nextLow <= buffer' /\ Ordered!BufAddLineN(n, t)
<1> DEFINE l == [number |-> n, text |-> t]
<1>1. l \in LineRecord /\ l.number = n /\ l.text = t
  BY DEF LineRecord
<1>2. NewLength(t) \in Nat
  BY <1>1, LineFacts
<1> DEFINE space == SpaceNeeded(n, t)
           line  == FindLineN(n)
<1>3. /\ buffer' = buffer - space /\ buffer - space >= nextLow
      /\ mem' = WithLine(Memmove(buffer - space, buffer - space, buffer, line - buffer), line - space, l)
  BY <1>1 DEF BufAddLineN, Fits, WithLine, Joining
<1> HIDE DEF l
<1>4. PICK i \in 1 .. Len(Program) + 1 :
        /\ line = Places[i]
        /\ \A j \in 1 .. i - 1 : Program[j].number < n
        /\ i <= Len(Program) => n <= Program[i].number
        /\ Found(n) <=> i <= Len(Program) /\ Program[i].number = n
  <2>1. buffer \in Nat /\ Layout(mem, buffer, Program, Places)
    BY LaidFacts
  <2> QED
    BY <2>1, FindLineNIs
<1>5. Ordered!FindLineN(n, i) /\ (Ordered!Found(n, i) <=> Found(n))
  BY <1>4 DEF Ordered!FindLineN, Ordered!Found
<1>6. CASE Found(n)
  <2>1. i \in 1 .. Len(Program) /\ i + 1 \in 1 .. Len(Program) + 1
    BY <1>4, <1>6, LaidFacts
  <2>2. /\ Places[i + 1] = Places[i] + NewLength(Program[i].text)
        /\ Length(Places[i]) = NewLength(Program[i].text)
    <3>1. buffer \in Nat /\ Layout(mem, buffer, Program, Places)
      BY LaidFacts
    <3>2. Places[i + 1] = Places[i] + NewLength(Program[i].text)
      BY <2>1, <3>1 DEF Layout
    <3>3. Length(Places[i]) = NewLength(Program[i].text)
      BY <2>1, <3>1, ProgramIs
    <3> QED
      BY <3>2, <3>3
  <2>3. PICK old \in Nat : old = NewLength(Program[i].text)
    BY <2>1, LaidFacts, LineFacts
  <2>4. space = NewLength(t) - old
    BY <1>4, <1>6, <2>2, <2>3 DEF SpaceNeeded
  <2> DEFINE s2 == [Program EXCEPT ![i] = l]
  <2>5. SplicedLines(Program, i, 1, l, s2)
    <3>1. PICK k \in Nat : k = Len(Program)
      BY LaidFacts
    <3>2. s2 \in Seq(LineRecord) /\ Len(s2) = k /\ s2[i] = l
      BY <1>1, <2>1, <3>1, LaidFacts
    <3>3. \A j \in 1 .. k : j # i => s2[j] = Program[j]
      BY <3>1, LaidFacts
    <3> HIDE DEF s2
    <3>4. \A j \in 1 .. i - 1 : s2[j] = Program[j]
      <4> TAKE j \in 1 .. i - 1
      <4>1. j \in 1 .. k /\ j # i
        BY <2>1, <3>1
      <4> QED
        BY <3>3, <4>1
    <3>5. \A j \in i + 1 .. k : s2[j] = Program[j + 1 - 1]
      <4> TAKE j \in i + 1 .. k
      <4>1. j \in 1 .. k /\ j # i /\ j + 1 - 1 = j
        BY <2>1, <3>1
      <4> QED
        BY <3>3, <4>1
    <3>6. i + 1 <= k + 1 /\ k = k + 1 - 1
      BY <2>1, <3>1
    <3> QED
      BY <3>1, <3>2, <3>4, <3>5, <3>6 DEF SplicedLines
  <2> HIDE DEF s2
  <2>6. Places[i] \in Nat
    BY LaidFacts
  <2>7. /\ space \in Int /\ buffer - space \in Nat
        /\ Places[i] - space + NewLength(l.text) = Places[i + 1]
    <3>1. PICK size \in Nat : size = NewLength(t)
      BY <1>2
    <3> HIDE DEF space
    <3>2. space = size - old
      BY <2>4, <3>1
    <3>3. Places[i + 1] = Places[i] + old
      BY <2>2, <2>3
    <3> QED
      BY <1>1, <1>3, <2>6, <3>1, <3>2, <3>3, LaidFacts
  <2> HIDE DEF space, line
  <2>8. Program' = s2 /\ Laid'
    <3>1. mem' = WithLine(Memmove(buffer - space, buffer - space, buffer, Places[i] - buffer), Places[i] - space, l)
      BY <1>3, <1>4
    <3>2. 1 \in {0, 1} /\ i + 1 <= Len(Program) + 1
      BY <2>1, LaidFacts
    <3> QED
      BY <1>1, <1>3, <2>1, <2>5, <2>7, <3>1, <3>2, LaidFacts, LineAdded
  <2>9. Ordered!BufAddLineN(n, t)
    BY <1>4, <1>5, <1>6, <2>8 DEF Ordered!BufAddLineN, s2, l
  <2> QED
    BY <1>3, <2>8, <2>9
<1>7. CASE ~Found(n)
  <2>1. space = NewLength(t)
    BY <1>2, <1>7 DEF SpaceNeeded
  <2> DEFINE s2 == Ordered!Inserted(i, l)
  <2>2. SplicedLines(Program, i, 0, l, s2)
    <3>1. PICK k \in Nat : k = Len(Program)
      BY LaidFacts
    <3>2. \A j \in 1 .. k + 1 : (IF j < i THEN Program[j] ELSE IF j = i THEN l ELSE Program[j - 1]) \in LineRecord
      <4> TAKE j \in 1 .. k + 1
      <4>1. \A h \in 1 .. k : Program[h] \in LineRecord
        BY <3>1, LaidFacts
      <4> QED
        BY <1>1, <3>1, <4>1
    <3>3. s2 = [j \in 1 .. k + 1 |-> IF j < i THEN Program[j] ELSE IF j = i THEN l ELSE Program[j - 1]]
      BY <3>1 DEF Ordered!Inserted
    <3> HIDE DEF s2
    <3>4. s2 \in Seq(LineRecord) /\ Len(s2) = k + 1
      BY <3>2, <3>3
    <3>5. \A j \in 1 .. i - 1 : s2[j] = Program[j]
      <4> TAKE j \in 1 .. i - 1
      <4>1. j \in 1 .. k + 1 /\ j < i
        BY <3>1
      <4> QED
        BY <3>3, <4>1
    <3>6. s2[i] = l
      BY <3>1, <3>3
    <3>7. \A j \in i + 1 .. k + 1 : s2[j] = Program[j + 0 - 1]
      <4> TAKE j \in i + 1 .. k + 1
      <4>1. j \in 1 .. k + 1 /\ ~(j < i) /\ j # i /\ j + 0 - 1 = j - 1
        BY <3>1
      <4> QED
        BY <3>3, <4>1
    <3> QED
      BY <3>1, <3>4, <3>5, <3>6, <3>7 DEF SplicedLines
  <2> HIDE DEF s2
  <2>3. Places[i] \in Nat /\ i + 0 = i
    BY LaidFacts
  <2>4. /\ space \in Int /\ buffer - space \in Nat
        /\ Places[i] - space + NewLength(l.text) = Places[i + 0]
    <3>1. PICK size \in Nat : size = NewLength(t)
      BY <1>2
    <3> HIDE DEF space
    <3> QED
      BY <1>1, <1>3, <2>1, <2>3, <3>1, LaidFacts
  <2> HIDE DEF space, line
  <2>5. Program' = s2 /\ Laid'
    <3>1. mem' = WithLine(Memmove(buffer - space, buffer - space, buffer, Places[i] - buffer), Places[i] - space, l)
      BY <1>3, <1>4
    <3>2. 0 \in {0, 1} /\ i + 0 <= Len(Program) + 1
      BY LaidFacts
    <3> QED
      BY <1>1, <1>3, <2>2, <2>4, <3>1, <3>2, LaidFacts, LineAdded
  <2>6. Len(Program) < MaxLines
    <3>1. Len(s2) = Len(Program) + 1
      BY <2>2, LaidFacts DEF SplicedLines
    <3>2. buffer' \in Nat /\ Layout(mem', buffer', Program', Places')
      BY <2>5 DEF Laid
    <3>3. Len(Program') <= MaxLines
      BY <3>2, PlaceFacts
    <3>4. MaxLines \in Nat
      BY EditAssumption DEF MaxLines
    <3> QED
      BY <2>5, <3>1, <3>3, <3>4, LaidFacts
  <2>7. Ordered!BufAddLineN(n, t)
    BY <1>4, <1>5, <1>7, <2>5, <2>6 DEF Ordered!BufAddLineN, s2, l
  <2> QED
    BY <1>3, <2>5, <2>7
<1> QED
  BY <1>6, <1>7

\* Taking out a line.
LEMMA DeleteStep ==
  ASSUME Laid, NEW n \in Nat, Found(n), BufDeleteLineN(n)
  PROVE  Laid' /\ buffer <= buffer' /\ Ordered!BufDeleteLineN(n)
<1>1. PICK i \in 1 .. Len(Program) + 1 :
        /\ FindLineN(n) = Places[i]
        /\ \A j \in 1 .. i - 1 : Program[j].number < n
        /\ i <= Len(Program) => n <= Program[i].number
        /\ Found(n) <=> i <= Len(Program) /\ Program[i].number = n
  <2>1. buffer \in Nat /\ Layout(mem, buffer, Program, Places)
    BY LaidFacts
  <2> QED
    BY <2>1, FindLineNIs
<1>2. i \in 1 .. Len(Program) /\ i + 1 \in 1 .. Len(Program) + 1 /\ i \in 1 .. Len(Program) + 1
  BY <1>1, LaidFacts
<1>3. Ordered!FindLineN(n, i) /\ Ordered!Found(n, i)
  BY <1>1 DEF Ordered!FindLineN, Ordered!Found
<1>4. PICK freed \in Nat : freed = Length(FindLineN(n)) /\ freed = NewLength(Program[i].text)
  <2>1. buffer \in Nat /\ Layout(mem, buffer, Program, Places)
    BY LaidFacts
  <2>2. Length(Places[i]) = NewLength(Program[i].text)
    BY <1>2, <2>1, ProgramIs
  <2>3. NewLength(Program[i].text) \in Nat
    BY <1>2, LaidFacts, LineFacts
  <2> QED
    BY <1>1, <2>2, <2>3
<1>5. PICK k \in Nat, p \in Nat, q \in Nat :
        /\ k = Len(Program) /\ p = Places[i] /\ q = Places[i + 1]
        /\ buffer <= p /\ q <= Top /\ q = p + freed
  <2>1. Layout(mem, buffer, Program, Places)
    BY LaidFacts
  <2>2. Places[i + 1] = Places[i] + freed
    BY <1>2, <1>4, <2>1 DEF Layout
  <2> QED
    BY <1>2, <2>2, LaidFacts
<1>6. DOMAIN mem = buffer .. Top - 1 /\ buffer \in Nat
  BY LaidFacts DEF Layout
<1> DEFINE c  == buffer + freed
           m2 == Memmove(c, c, buffer, p - buffer)
           s2 == Ordered!Deleted(i)
<1>7. mem' = m2 /\ buffer' = c
  BY <1>1, <1>4, <1>5 DEF BufDeleteLineN
<1>8. m2 = [a \in c .. Top - 1 |-> IF a \in c .. q - 1 THEN mem[a - freed]
                                   ELSE IF a \in buffer .. Top - 1 THEN mem[a] ELSE 0]
  <2>1. c + (p - buffer) - 1 = q - 1
    BY <1>5, <1>6
  <2>2. \A a \in c .. Top - 1 : a - c + buffer = a - freed
    BY <1>6, EditAssumption
  <2> QED
    BY <1>6, <2>1, <2>2 DEF Memmove
<1> HIDE DEF m2
<1>9. CutCells(mem, buffer, Places, i, freed, c, m2)
  <2>1. \A a \in c .. q - 1 : m2[a] = mem[a - freed]
    <3> TAKE a \in c .. q - 1
    <3>1. a \in c .. Top - 1
      BY <1>5, <1>6, EditAssumption
    <3> QED
      BY <1>8, <3>1
  <2>2. \A a \in q .. Top - 1 : m2[a] = mem[a]
    <3> TAKE a \in q .. Top - 1
    <3>1. a \in c .. Top - 1 /\ a \notin c .. q - 1 /\ a \in buffer .. Top - 1
      BY <1>5, <1>6, EditAssumption
    <3> QED
      BY <1>8, <3>1
  <2>3. m2 = [a \in c .. Top - 1 |-> m2[a]]
    BY <1>8
  <2> QED
    BY <1>5, <2>1, <2>2, <2>3 DEF CutCells
<1>10. CutLines(Program, i, s2)
  <2>1. \A j \in 1 .. k - 1 : (IF j < i THEN Program[j] ELSE Program[j + 1]) \in LineRecord
    <3> TAKE j \in 1 .. k - 1
    <3>1. \A h \in 1 .. k : Program[h] \in LineRecord
      BY <1>5, LaidFacts
    <3> QED
      BY <3>1
  <2>2. s2 = [j \in 1 .. k - 1 |-> IF j < i THEN Program[j] ELSE Program[j + 1]]
    BY <1>5 DEF Ordered!Deleted
  <2>3. k - 1 \in Nat /\ i \in 1 .. k
    BY <1>2, <1>5
  <2> HIDE DEF s2
  <2>4. s2 \in Seq(LineRecord) /\ Len(s2) = k - 1
    BY <2>1, <2>2, <2>3
  <2>5. \A j \in 1 .. i - 1 : s2[j] = Program[j]
    <3> TAKE j \in 1 .. i - 1
    <3>1. j \in 1 .. k - 1 /\ j < i
      BY <2>3
    <3> QED
      BY <2>2, <3>1
  <2>6. \A j \in i .. k - 1 : s2[j] = Program[j + 1]
    <3> TAKE j \in i .. k - 1
    <3>1. j \in 1 .. k - 1 /\ ~(j < i)
      BY <2>3
    <3> QED
      BY <2>2, <3>1
  <2> QED
    BY <1>5, <2>3, <2>4, <2>5, <2>6 DEF CutLines
<1>11. c \in Nat /\ buffer <= c
  BY <1>6
<1> HIDE DEF s2, c
<1>12. LaidOut(m2, c, s2)
  BY <1>6, <1>9, <1>10, <1>11, LaidFacts, Cut
<1>13. PICK w2 : Layout(mem', buffer', s2, w2)
  BY <1>7, <1>12 DEF LaidOut
<1>14. Program' = s2 /\ Laid'
  BY <1>7, <1>11, <1>13, LaidNext
<1>15. Ordered!BufDeleteLineN(n)
  BY <1>2, <1>3, <1>14 DEF Ordered!BufDeleteLineN, s2
<1> QED
  BY <1>7, <1>11, <1>14, <1>15

\* Numbering the lines again.
LEMMA RenumStep ==
  ASSUME Laid, mem' = Renumbered, buffer' = buffer
  PROVE  Laid' /\ Ordered!DoRenum
<1>1. PICK k \in Nat : k = Len(Program)
  BY LaidFacts
<1>2. /\ buffer \in Nat /\ Layout(mem, buffer, Program, Places)
      /\ \A i \in 1 .. k : Program[i] \in LineRecord
      /\ \A i \in 1 .. k + 1 : Places[i] \in Nat /\ buffer <= Places[i]
      /\ \A i, j \in 1 .. k + 1 : i < j => Places[i] < Places[j]
      /\ Places[k + 1] = Top
  BY <1>1, LaidFacts
<1>3. /\ \A i \in 0 .. MaxLines : LineAt[i] = IF i < k THEN Places[i + 1] ELSE Top
      /\ k \in 0 .. MaxLines /\ MaxLines \in Nat
  BY <1>1, <1>2, ProgramIs
<1>4. DOMAIN mem = buffer .. Top - 1
  BY <1>2 DEF Layout
<1>5. \A i \in 1 .. k : Places[i] < Top /\ Places[i] \in DOMAIN mem
  BY <1>2, <1>4, EditAssumption
<1> DEFINE number(a) == 100 + 10 * CHOOSE i \in 0 .. MaxLines : LineAt[i] = a
           s2 == [i \in 1 .. k |-> [number |-> 100 + 10 * (i - 1), text |-> Program[i].text]]
           m2 == Renumbered
<1>6. m2 = [a \in DOMAIN mem |-> IF a \in Starts THEN number(a) ELSE mem[a]]
  BY DEF Renumbered
<1>7. ASSUME NEW j \in 1 .. k
      PROVE  Places[j] \in Starts /\ number(Places[j]) = 100 + 10 * (j - 1)
  <2>1. j - 1 \in 0 .. MaxLines /\ LineAt[j - 1] = Places[j]
    BY <1>3
  <2>2. ASSUME NEW i \in 0 .. MaxLines, LineAt[i] = Places[j]
        PROVE  i = j - 1
    <3>1. i < k
      BY <1>3, <1>5, <2>2, EditAssumption
    <3>2. Places[i + 1] = Places[j] /\ i + 1 \in 1 .. k
      BY <1>3, <2>2, <3>1
    <3>3. i + 1 \in 1 .. k + 1 /\ j \in 1 .. k + 1
      BY <3>2
    <3>4. ~(i + 1 < j) /\ ~(j < i + 1)
      BY <1>2, <3>2, <3>3
    <3> QED
      BY <3>3, <3>4
  <2>3. (CHOOSE i \in 0 .. MaxLines : LineAt[i] = Places[j]) = j - 1
    BY <2>1, <2>2
  <2> QED
    BY <2>1, <2>3 DEF Starts
<1>8. ASSUME NEW a \in DOMAIN mem, \A i \in 1 .. k : a # Places[i]
      PROVE  a \notin Starts
  <2> SUFFICES ASSUME NEW i \in 0 .. MaxLines, a = LineAt[i]
               PROVE  FALSE
    BY DEF Starts
  <2>1. a # Top
    BY <1>4, EditAssumption
  <2>2. i < k /\ a = Places[i + 1]
    BY <1>3, <2>1
  <2> QED
    BY <1>8, <2>2
<1> HIDE DEF number, m2
<1>9. \A i \in 1 .. k : s2[i] \in LineRecord
  <2> TAKE i \in 1 .. k
  <2>1. Program[i].text \in TextsUpTo(MaxLine - 1)
    BY <1>2, LineFacts
  <2>2. 100 + 10 * (i - 1) \in Nat
    OBVIOUS
  <2> QED
    BY <2>1, <2>2 DEF LineRecord
<1>10. /\ s2 = [i \in 1 .. k |-> s2[i]]
       /\ \A i \in 1 .. k : s2[i].number = 100 + 10 * (i - 1) /\ s2[i].text = Program[i].text
  OBVIOUS
<1>11. Ordered!DoRenum <=> Program' = s2
  BY <1>1 DEF Ordered!DoRenum
<1> HIDE DEF s2
<1>12. s2 \in Seq(LineRecord) /\ Len(s2) = k
  BY <1>9, <1>10
<1>13. RenumberedCells(mem, Program, Places, m2, s2)
  <2>1. m2 = [a \in DOMAIN mem |-> m2[a]]
    BY <1>6
  <2>2. \A i \in 1 .. k : m2[Places[i]] = s2[i].number
    BY <1>5, <1>6, <1>7, <1>10
  <2>3. \A a \in DOMAIN mem : (\A i \in 1 .. k : a # Places[i]) => m2[a] = mem[a]
    BY <1>6, <1>8
  <2> QED
    BY <1>1, <1>10, <1>12, <2>1, <2>2, <2>3 DEF RenumberedCells
<1>14. Layout(mem', buffer', s2, Places)
  BY <1>2, <1>13, NumbersReplaced DEF m2
<1>15. Program' = s2 /\ Laid'
  BY <1>2, <1>14, LaidNext
<1> QED
  BY <1>11, <1>15

\* The empty buffer.
LEMMA NewStep ==
  ASSUME mem' = [a \in Top .. Top - 1 |-> 0], buffer' = Top
  PROVE  Laid' /\ Ordered!BufNew
<1>1. Layout(mem', buffer', <<>>, <<Top>>) /\ buffer' \in Nat
  BY EmptyLayout, EditAssumption
<1> QED
  BY <1>1, LaidNext DEF Ordered!BufNew

LEMMA InitLaid ==
  ASSUME Init
  PROVE  Laid /\ Program = <<>> /\ Places = <<Top>>
<1>1. Layout(mem, buffer, <<>>, <<Top>>) /\ buffer \in Nat
  BY EmptyLayout, EditAssumption DEF Init
<1> QED
  BY <1>1, LayoutUnique DEF OneLayout, Laid
-----------------------------------------------------------------------------
LEMMA MinFacts ==
  ASSUME NEW S, S \subseteq Nat, S # {}
  PROVE  Min(S) \in S /\ \A y \in S : Min(S) <= y
<1>1. \E x \in S : \A y \in S : x <= y
  BY LeastElement
<1> QED
  BY <1>1 DEF Min

LEMMA PrefixFacts ==
  ASSUME NEW S, NEW s \in Seq(S)
  PROVE  /\ SubSeq(s, 1, 0) = <<>>
         /\ SubSeq(s, 1, Len(s)) = s
         /\ \A k \in 0 .. Len(s) - 1 : Append(SubSeq(s, 1, k), s[k + 1]) = SubSeq(s, 1, k + 1)
         /\ \A k \in 0 .. Len(s) : IsPrefix(SubSeq(s, 1, k), s)
<1>1. PICK n \in Nat : n = Len(s)
  OBVIOUS
<1>2. SubSeq(s, 1, 0) = <<>> /\ SubSeq(s, 1, n) = s
  BY <1>1
<1>3. ASSUME NEW k \in 0 .. n - 1
      PROVE  Append(SubSeq(s, 1, k), s[k + 1]) = SubSeq(s, 1, k + 1)
  <2> DEFINE t == SubSeq(s, 1, k)
             u == SubSeq(s, 1, k + 1)
  <2>1. /\ t \in Seq(S) /\ Len(t) = k /\ \A i \in 1 .. k : t[i] = s[i]
        /\ u \in Seq(S) /\ Len(u) = k + 1 /\ \A i \in 1 .. k + 1 : u[i] = s[i]
        /\ s[k + 1] \in S
    BY <1>1
  <2> HIDE DEF t, u
  <2>2. /\ Append(t, s[k + 1]) \in Seq(S) /\ Len(Append(t, s[k + 1])) = k + 1
        /\ \A i \in 1 .. k + 1 : Append(t, s[k + 1])[i] = u[i]
    BY <2>1
  <2>3. Append(t, s[k + 1]) = u
    BY <2>1, <2>2
  <2> QED
    BY <2>3 DEF t, u
<1>4. ASSUME NEW k \in 0 .. n
      PROVE  IsPrefix(SubSeq(s, 1, k), s)
  <2>1. Len(SubSeq(s, 1, k)) = k
    BY <1>1
  <2> DEFINE t == SubSeq(s, 1, k)
  <2>2. SubSeq(t, 1, k) = t
    <3>1. t \in Seq(S) /\ Len(t) = k
      BY <1>1
    <3> HIDE DEF t
    <3> QED
      BY <3>1
  <2> QED
    BY <1>1, <2>1, <2>2 DEF IsPrefix
<1> QED
  BY <1>1, <1>2, <1>3, <1>4

\* fgets returns a line that fits in lineBuf, and has read at least a character.
LEMMA FgetsFacts ==
  ASSUME NEW s \in Seq(Chars \cup {NL}), s # <<>>
  PROVE  /\ Fgets(s) \in TextsUpTo(MaxLine - 1)
         /\ AfterFgets(s) \in Seq(Chars \cup {NL})
         /\ Len(AfterFgets(s)) \in Nat /\ Len(AfterFgets(s)) < Len(s)
<1> DEFINE S == {k \in 1 .. Len(s) : s[k] = NL \/ k = Len(s) \/ k = MaxLine - 1}
<1>1. PICK n \in Nat : n = Len(s) /\ n > 0
  OBVIOUS
<1>2. MaxLine \in Nat /\ MaxLine > 2
  BY EditAssumption
<1>3. n \in S /\ S \subseteq Nat
  BY <1>1
<1>4. Min(S) \in S /\ \A y \in S : Min(S) <= y
  <2> HIDE DEF S
  <2> QED
    BY <1>3, MinFacts
<1>5. PICK c \in 1 .. n : c = Min(S)
  BY <1>1, <1>4
<1>6. Chunk(s) = c
  BY <1>5 DEF Chunk
<1>7. c <= MaxLine - 1
  <2>1. CASE n <= MaxLine - 1
    BY <1>2, <2>1
  <2>2. CASE n > MaxLine - 1
    <3>1. MaxLine - 1 \in S
      BY <1>1, <1>2, <2>2
    <3> HIDE DEF S
    <3> QED
      BY <1>4, <1>5, <3>1
  <2> QED
    BY <1>2, <2>1, <2>2
<1>8. \A i \in 1 .. c - 1 : s[i] # NL
  <2> SUFFICES ASSUME NEW i \in 1 .. c - 1, s[i] = NL
               PROVE  FALSE
    OBVIOUS
  <2>1. i \in S /\ i < c
    BY <1>1
  <2> HIDE DEF S
  <2> QED
    BY <1>4, <1>5, <2>1
<1> HIDE DEF S
<1> DEFINE t == SubSeq(s, 1, c)
           u == SubSeq(s, c + 1, n)
<1>9. /\ \A i \in 1 .. c : t[i] = s[i]
      /\ Len(t) = c /\ t \in [1 .. c -> Chars \cup {NL}]
  <2>1. t \in Seq(Chars \cup {NL}) /\ Len(t) = c /\ \A i \in 1 .. c : t[i] = s[i]
    BY <1>1
  <2> HIDE DEF t
  <2> QED
    BY <2>1
<1>10. u \in Seq(Chars \cup {NL}) /\ Len(u) = n - c
  BY <1>1
<1>11. t \in TextsUpTo(MaxLine - 1)
  <2>1. c \in 1 .. MaxLine - 1
    BY <1>2, <1>7
  <2>2. \A i \in 1 .. Len(t) - 1 : t[i] # NL
    BY <1>8, <1>9
  <2> HIDE DEF t
  <2> QED
    BY <1>9, <2>1, <2>2 DEF TextsUpTo
<1>12. Fgets(s) = t /\ AfterFgets(s) = u
  BY <1>1, <1>6 DEF Fgets, AfterFgets
<1> HIDE DEF t, u
<1> QED
  BY <1>1, <1>10, <1>11, <1>12

\* Whatever is not longer than a length there can be is one as well.
LEMMA LengthsFacts ==
  /\ \A i \in 0 .. Top : i \in Lengths
  /\ \A f \in DOMAIN Disk : Len(Disk[f]) \in Lengths
  /\ \A i \in Lengths : i \in Nat /\ \A j \in 0 .. i : j \in Lengths
<1>1. \A i \in 0 .. Top : i \in Lengths
  BY DEF Lengths
<1>2. \A f \in DOMAIN Disk : Len(Disk[f]) \in Nat
  BY EditAssumption
<1>3. \A f \in DOMAIN Disk : Len(Disk[f]) \in Lengths
  <2> TAKE f \in DOMAIN Disk
  <2>1. Len(Disk[f]) \in 0 .. Len(Disk[f])
    BY <1>2
  <2> QED
    BY <2>1 DEF Lengths
<1>4. ASSUME NEW i \in Lengths, NEW j \in 0 .. i
      PROVE  i \in Nat /\ j \in Lengths
  <2>1. CASE i \in 0 .. Top
    BY <2>1, EditAssumption DEF Lengths
  <2>2. CASE i \notin 0 .. Top
    <3>1. PICK f \in DOMAIN Disk : i \in 0 .. Len(Disk[f])
      BY <2>2 DEF Lengths
    <3>2. i \in Nat /\ j \in 0 .. Len(Disk[f])
      BY <1>2, <3>1
    <3> QED
      BY <3>2 DEF Lengths
  <2> QED
    BY <2>1, <2>2
<1>5. \A i \in Lengths : i \in Nat
  BY <1>2, EditAssumption DEF Lengths
<1> QED
  BY <1>1, <1>3, <1>4, <1>5

LEMMA TypedFacts == Typed \subseteq TextsUpTo(MaxLine - 1)
<1> SUFFICES ASSUME NEW t \in TextsUpTo(MaxLine - 2)
             PROVE  t \in TextsUpTo(MaxLine - 1)
  BY EditAssumption
<1>1. MaxLine \in Nat /\ MaxLine > 2
  BY EditAssumption
<1>2. PICK i \in 1 .. MaxLine - 2 : t \in [1 .. i -> Chars \cup {NL}]
  BY DEF TextsUpTo
<1>3. i \in 1 .. MaxLine - 1
  BY <1>1
<1>4. \A j \in 1 .. Len(t) - 1 : t[j] # NL
  BY DEF TextsUpTo
<1> QED
  BY <1>2, <1>3, <1>4 DEF TextsUpTo
-----------------------------------------------------------------------------
(***************************************************************************)
(* The inductive invariant.                                                 *)
(***************************************************************************)
Characters == Seq(Chars \cup {NL})
Reading    == mode \in {"list", "save", "run"}

RoomBelow == nextLow \in Nat /\ nextLow <= buffer

\* The next line to be read is the one after those that were.
Given ==
  /\ Reading => \E k \in 0 .. Len(Program) :
                  passed = SubSeq(Program, 1, k) /\ currentLine = Places[k + 1]
  /\ ~Reading => passed = <<>>

\* What is saved takes no more characters than the lines it comes from take cells.
Saving == mode = "save" =>
  programName \in DOMAIN files /\ Len(files[programName]) <= currentLine - buffer

FilesSound == \A f \in DOMAIN files : files[f] \in Characters /\ Len(files[f]) \in Lengths

\* A line takes a number and a character at least.
LoadingSound ==
  /\ loading \in Characters
  /\ mode = "load" =>
       \E k \in Nat : lineNumber = 100 + 10 * k /\ k + Len(loading) \in Lengths

Inv == Laid /\ RoomBelow /\ Given /\ Saving /\ FilesSound /\ LoadingSound

\* What is proved of a step.
Step == Inv' /\ [Ordered!Next]_Program

LEMMA InitInv == Init => Inv /\ Ordered!Init
<1> SUFFICES ASSUME Init
             PROVE  Inv /\ Ordered!Init
  OBVIOUS
<1>1. Laid /\ Program = <<>>
  BY InitLaid
<1>2. RoomBelow /\ Given /\ Saving
  <2>1. nextLow = 0 /\ buffer = Top /\ mode = "command" /\ passed = <<>>
    BY DEF Init
  <2> QED
    BY <2>1, EditAssumption DEF RoomBelow, Given, Saving, Reading
<1>3. FilesSound
  BY EditAssumption, LengthsFacts DEF Init, FilesSound, Characters
<1>4. LoadingSound
  <2>1. mode = "command" /\ loading = <<>>
    BY DEF Init
  <2>2. <<>> \in Seq(Chars \cup {NL})
    OBVIOUS
  <2> QED
    BY <2>1, <2>2 DEF LoadingSound, Characters
<1> QED
  BY <1>1, <1>2, <1>3, <1>4 DEF Inv, Ordered!Init

\* A command that only changes lines leaves the rest of the invariant alone.
LEMMA CommandInv ==
  ASSUME Inv, Command, Laid', nextLow <= buffer', UNCHANGED <<nextLow, mode, io, files>>
  PROVE  Inv'
<1>1. mode = "command" /\ mode' = "command" /\ passed' = passed /\ loading' = loading
      /\ nextLow' = nextLow /\ files' = files
  BY DEF Command, io
<1>2. RoomBelow' /\ Given' /\ Saving'
  BY <1>1 DEF Inv, RoomBelow, Given, Saving, Reading
<1>3. FilesSound' /\ LoadingSound'
  BY <1>1 DEF Inv, FilesSound, LoadingSound, Lengths
<1> QED
  BY <1>2, <1>3 DEF Inv

LEMMA EnterLineStep ==
  ASSUME Inv, NEW n \in Numbers, NEW t \in Typed, EnterLine(n, t)
  PROVE  Step
<1>1. Laid /\ nextLow \in Nat /\ nextLow <= buffer /\ n \in Nat /\ t \in TextsUpTo(MaxLine - 1)
  BY EditAssumption, TypedFacts DEF Inv, RoomBelow
<1>2. Command /\ UNCHANGED <<nextLow, mode, io, files>>
  BY DEF EnterLine
<1>3. CASE BufAddLineN(n, t)
  <2>1. Laid' /\ nextLow <= buffer' /\ Ordered!BufAddLineN(n, t)
    BY <1>1, <1>3, AddStep
  <2>2. Ordered!Next
    BY <1>1, <2>1 DEF Ordered!Next
  <2> QED
    BY <1>2, <2>1, <2>2, CommandInv DEF Step
<1>4. CASE UNCHANGED edit
  <2>1. Program' = Program /\ Laid' /\ nextLow <= buffer'
    BY <1>1, <1>4, NothingEdited DEF edit
  <2> QED
    BY <1>2, <2>1, CommandInv DEF Step
<1> QED
  BY <1>3, <1>4 DEF EnterLine

LEMMA DeleteLineStep ==
  ASSUME Inv, NEW n \in Numbers, DeleteLine(n)
  PROVE  Step
<1>1. Laid /\ buffer \in Nat /\ nextLow \in Nat /\ nextLow <= buffer /\ n \in Nat
  BY EditAssumption DEF Inv, RoomBelow, Laid
<1>2. Command /\ UNCHANGED <<nextLow, mode, io, files>>
  BY DEF DeleteLine
<1>3. CASE Found(n) /\ BufDeleteLineN(n)
  <2>1. Laid' /\ buffer <= buffer' /\ Ordered!BufDeleteLineN(n)
    BY <1>1, <1>3, DeleteStep
  <2>2. Ordered!Next
    BY <2>1 DEF Ordered!Next
  <2>3. nextLow <= buffer'
    BY <1>1, <2>1 DEF Laid
  <2> QED
    BY <1>2, <2>1, <2>2, <2>3, CommandInv DEF Step
<1>4. CASE UNCHANGED edit
  <2>1. Program' = Program /\ Laid' /\ nextLow <= buffer'
    BY <1>1, <1>4, NothingEdited DEF edit
  <2> QED
    BY <1>2, <2>1, CommandInv DEF Step
<1> QED
  BY <1>3, <1>4 DEF DeleteLine

LEMMA DoNewStep ==
  ASSUME Inv, DoNew
  PROVE  Step
<1>1. Command /\ UNCHANGED <<nextLow, mode, io, files>>
  BY DEF DoNew
<1>2. Laid' /\ Ordered!BufNew
  BY NewStep DEF DoNew, BufNew
<1>3. nextLow <= buffer'
  <2>1. buffer \in Nat /\ buffer <= Top /\ nextLow \in Nat /\ nextLow <= buffer /\ buffer' = Top
    BY LaidFacts DEF Inv, RoomBelow, DoNew, BufNew
  <2> QED
    BY <2>1, EditAssumption
<1> QED
  BY <1>1, <1>2, <1>3, CommandInv DEF Step, Ordered!Next

LEMMA DoRenumStep ==
  ASSUME Inv, DoRenum
  PROVE  Step
<1>1. Command /\ UNCHANGED <<nextLow, mode, io, files>> /\ buffer' = buffer /\ mem' = Renumbered
  BY DEF DoRenum
<1>2. Laid' /\ Ordered!DoRenum
  BY <1>1, RenumStep DEF Inv
<1>3. nextLow <= buffer'
  BY <1>1 DEF Inv, RoomBelow
<1> QED
  BY <1>1, <1>2, <1>3, CommandInv DEF Step, Ordered!Next

LEMMA DoListStep ==
  ASSUME Inv, DoList
  PROVE  Step
<1>1. mode = "command" /\ mode' = "list" /\ currentLine' = buffer /\ passed = <<>>
      /\ UNCHANGED <<edit, nextLow, passed, loading, lineNumber, files>>
  BY DEF DoList, Command, BufSeek, io, Inv, Given, Reading
<1>2. Program' = Program /\ Places' = Places /\ Laid' /\ Laid
  BY <1>1, NothingEdited DEF Inv
<1>3. 0 \in 0 .. Len(Program) /\ SubSeq(Program, 1, 0) = <<>> /\ Places[0 + 1] = buffer
  BY <1>2, LaidFacts, PrefixFacts
<1>4. Given'
  BY <1>1, <1>2, <1>3 DEF Given, Reading
<1>5. RoomBelow' /\ Saving' /\ FilesSound' /\ LoadingSound'
  BY <1>1 DEF Inv, RoomBelow, Saving, FilesSound, LoadingSound, Lengths, edit
<1> QED
  BY <1>2, <1>4, <1>5 DEF Inv, Step

LEMMA DoSaveStep ==
  ASSUME Inv, DoSave
  PROVE  Step
<1>1. mode = "command" /\ passed = <<>> /\ UNCHANGED <<edit, nextLow, passed, loading, lineNumber>>
  BY DEF DoSave, Command, io, Inv, Given, Reading
<1>2. Program' = Program /\ Places' = Places /\ Laid' /\ Laid
  BY <1>1, NothingEdited DEF Inv
<1>3. RoomBelow' /\ buffer' = buffer
  BY <1>1 DEF Inv, RoomBelow, edit
<1>4. CASE UNCHANGED <<currentLine, mode, files>>
  <2>1. Given' /\ Saving' /\ FilesSound' /\ LoadingSound'
    BY <1>1, <1>4 DEF Inv, Given, Reading, Saving, FilesSound, LoadingSound, Lengths
  <2> QED
    BY <1>2, <1>3, <2>1 DEF Inv, Step
<1>5. CASE /\ currentLine' = buffer
           /\ mode' = "save"
           /\ files' = [f \in DOMAIN files \cup {programName'} |->
                          IF f = programName' THEN <<>> ELSE files[f]]
  <2>1. 0 \in 0 .. Len(Program) /\ SubSeq(Program, 1, 0) = <<>> /\ Places[0 + 1] = buffer
    BY <1>2, LaidFacts, PrefixFacts
  <2>2. Given'
    BY <1>1, <1>2, <1>5, <2>1 DEF Given, Reading
  <2>3. Len(<<>>) = 0 /\ <<>> \in Characters
    BY DEF Characters
  <2>4. Saving'
    <3>1. programName' \in DOMAIN files' /\ files'[programName'] = <<>>
      BY <1>5
    <3>2. currentLine' - buffer' = 0
      BY <1>2, <1>3, <1>5 DEF Laid
    <3> QED
      BY <2>3, <3>1, <3>2 DEF Saving
  <2>5. FilesSound'
    <3> SUFFICES ASSUME NEW f \in DOMAIN files'
                 PROVE  files'[f] \in Characters /\ Len(files'[f]) \in Lengths
      BY DEF FilesSound, Lengths, Characters
    <3>1. 0 \in Lengths
      BY LengthsFacts, EditAssumption
    <3>2. CASE f = programName'
      BY <1>5, <2>3, <3>1, <3>2
    <3>3. CASE f # programName'
      <4>1. f \in DOMAIN files /\ files'[f] = files[f]
        BY <1>5, <3>3
      <4> QED
        BY <4>1 DEF Inv, FilesSound
    <3> QED
      BY <3>2, <3>3
  <2>6. LoadingSound'
    BY <1>1, <1>5 DEF Inv, LoadingSound
  <2> QED
    BY <1>2, <1>3, <2>2, <2>4, <2>5, <2>6 DEF Inv, Step
<1> QED
  BY <1>4, <1>5 DEF DoSave, BufSeek

LEMMA DoLoadStep ==
  ASSUME Inv, DoLoad
  PROVE  Step
<1>1. mode = "command" /\ passed = <<>> /\ UNCHANGED <<nextLow, passed, files>>
  BY DEF DoLoad, Command, Inv, Given, Reading
<1>2. FilesSound'
  BY <1>1 DEF Inv, FilesSound, Lengths
<1>3. CASE UNCHANGED <<edit, currentLine, mode, loading, lineNumber>>
  <2>1. Program' = Program /\ Laid'
    BY <1>3, NothingEdited DEF Inv
  <2>2. RoomBelow' /\ Given' /\ Saving' /\ LoadingSound'
    BY <1>1, <1>3 DEF Inv, RoomBelow, Given, Reading, Saving, LoadingSound, edit
  <2> QED
    BY <1>2, <2>1, <2>2 DEF Inv, Step
<1>4. CASE /\ programName' \in DOMAIN files
           /\ BufNew
           /\ mode' = "load"
           /\ loading' = files[programName']
           /\ lineNumber' = 100
  <2>1. Laid' /\ Ordered!BufNew
    BY <1>4, NewStep DEF BufNew
  <2>2. RoomBelow'
    <3>1. buffer \in Nat /\ buffer <= Top /\ nextLow \in Nat /\ nextLow <= buffer /\ buffer' = Top
      BY <1>4, LaidFacts DEF Inv, RoomBelow, BufNew
    <3> QED
      BY <1>1, <3>1, EditAssumption DEF RoomBelow
  <2>3. Given' /\ Saving'
    BY <1>1, <1>4 DEF Given, Saving, Reading
  <2>4. LoadingSound'
    <3>1. loading' \in Characters /\ Len(loading') \in Lengths
      BY <1>4 DEF Inv, FilesSound
    <3>2. Len(loading') \in Nat /\ 100 = 100 + 10 * 0
      BY <3>1, LengthsFacts
    <3>3. 0 + Len(loading') = Len(loading')
      BY <3>2
    <3>4. lineNumber' = 100 + 10 * 0 /\ 0 + Len(loading') \in Lengths /\ 0 \in Nat
      BY <1>4, <3>1, <3>2, <3>3
    <3> QED
      BY <3>1, <3>4 DEF LoadingSound, Characters, Lengths
  <2> QED
    BY <1>2, <2>1, <2>2, <2>3, <2>4 DEF Inv, Step, Ordered!Next
<1> QED
  BY <1>3, <1>4 DEF DoLoad

LEMMA DoRunStep ==
  ASSUME Inv, DoRun
  PROVE  Step
<1>1. mode = "command" /\ passed = <<>> /\ nextLow' = 0
      /\ UNCHANGED <<edit, passed, loading, lineNumber, programName, files>>
  BY DEF DoRun, Command, io, Inv, Given, Reading
<1>2. Program' = Program /\ Places' = Places /\ Laid' /\ Laid /\ buffer' = buffer /\ buffer \in Nat
  BY <1>1, NothingEdited DEF Inv, edit, Laid
<1>3. RoomBelow'
  BY <1>1, <1>2 DEF RoomBelow
<1>4. mode' = "lost" \/ (mode' = "run" /\ currentLine' = buffer)
  BY DEF DoRun, BufSeek
<1>5. Given'
  <2>1. 0 \in 0 .. Len(Program) /\ SubSeq(Program, 1, 0) = <<>> /\ Places[0 + 1] = buffer
    BY <1>2, LaidFacts, PrefixFacts
  <2> QED
    BY <1>1, <1>2, <1>4, <2>1 DEF Given, Reading
<1>6. Saving' /\ FilesSound' /\ LoadingSound'
  BY <1>1, <1>4 DEF Inv, Saving, FilesSound, LoadingSound, Lengths
<1> QED
  BY <1>2, <1>3, <1>5, <1>6 DEF Inv, Step

LEMMA CompilingRoom ==
  ASSUME Inv, IF mode = "run" THEN Compiling ELSE UNCHANGED nextLow, UNCHANGED edit
  PROVE  RoomBelow'
<1>1. nextLow \in Nat /\ nextLow <= buffer /\ buffer \in Nat /\ buffer' = buffer
  BY DEF Inv, RoomBelow, Laid, edit
<1>2. CASE Compiling
  <2>1. PICK size \in CodeSizes : nextLow' = nextLow + size /\ nextLow' <= buffer - ContextSize
    BY <1>2 DEF Compiling
  <2>2. size \in Nat /\ ContextSize \in Nat
    BY EditAssumption
  <2> QED
    BY <1>1, <2>1, <2>2 DEF RoomBelow
<1>3. CASE UNCHANGED nextLow
  BY <1>1, <1>3 DEF RoomBelow
<1> QED
  BY <1>2, <1>3

\* The line that is read next is the one after the first k.
LineGiven(k) ==
  /\ k < Len(Program) /\ k + 1 \in 1 .. Len(Program)
  /\ passed = SubSeq(Program, 1, k) /\ currentLine = Places[k + 1]
  /\ Line[currentLine] = Program[k + 1] /\ Text(currentLine) = Program[k + 1].text
  /\ Length(currentLine) = NewLength(Program[k + 1].text)
  /\ Places[k + 1 + 1] = currentLine + NewLength(Program[k + 1].text)

LEMMA LineRead ==
  ASSUME Inv, Reading, currentLine < Top
  PROVE  \E k \in 0 .. Len(Program) : LineGiven(k)
<1>1. PICK k \in 0 .. Len(Program) : passed = SubSeq(Program, 1, k) /\ currentLine = Places[k + 1]
  BY DEF Inv, Given
<1>2. k < Len(Program) /\ k + 1 \in 1 .. Len(Program)
  <2>1. Len(Program) \in Nat /\ Places[Len(Program) + 1] = Top
    BY LaidFacts DEF Inv
  <2> QED
    BY <1>1, <2>1, EditAssumption
<1>3. /\ Line[currentLine] = Program[k + 1] /\ Text(currentLine) = Program[k + 1].text
      /\ Length(currentLine) = NewLength(Program[k + 1].text)
      /\ Places[k + 1 + 1] = currentLine + NewLength(Program[k + 1].text)
  <2>1. buffer \in Nat /\ Layout(mem, buffer, Program, Places)
    BY LaidFacts DEF Inv
  <2>2. Places[k + 1 + 1] = Places[k + 1] + NewLength(Program[k + 1].text)
    BY <1>2, <2>1 DEF Layout
  <2> QED
    BY <1>1, <1>2, <2>1, <2>2, ProgramIs
<1> QED
  BY <1>1, <1>2, <1>3 DEF LineGiven

LEMMA BufGetLineStep ==
  ASSUME Inv, BufGetLine
  PROVE  Step
<1>1. /\ Reading /\ currentLine < Top
      /\ passed' = Append(passed, Line[currentLine])
      /\ currentLine' = currentLine + Length(currentLine)
      /\ UNCHANGED <<edit, mode, loading, lineNumber, programName>>
  BY DEF BufGetLine, Reading
<1>2. Program' = Program /\ Places' = Places /\ Laid' /\ Laid /\ buffer' = buffer
  BY <1>1, NothingEdited DEF Inv, edit
<1>3. RoomBelow'
  BY <1>1, CompilingRoom DEF BufGetLine
<1>4. PICK k \in 0 .. Len(Program) : LineGiven(k)
  BY <1>1, LineRead
<1>5. k < Len(Program) /\ k + 1 \in 1 .. Len(Program)
      /\ passed = SubSeq(Program, 1, k) /\ currentLine = Places[k + 1]
  BY <1>4 DEF LineGiven
<1>6. /\ Line[currentLine] = Program[k + 1] /\ Text(currentLine) = Program[k + 1].text
      /\ Length(currentLine) = NewLength(Program[k + 1].text)
      /\ Places[k + 1 + 1] = currentLine + NewLength(Program[k + 1].text)
  BY <1>4 DEF LineGiven
<1>7. Given'
  <2>1. k + 1 \in 0 .. Len(Program) /\ passed' = SubSeq(Program, 1, k + 1)
    BY <1>1, <1>2, <1>5, <1>6, LaidFacts, PrefixFacts
  <2>2. currentLine' = Places[k + 1 + 1]
    BY <1>1, <1>6
  <2> QED
    BY <1>1, <1>2, <2>1, <2>2 DEF Given, Reading
<1>8. CASE mode = "save"
  <2> DEFINE text == Program[k + 1].text
             old  == files[programName]
  <2>1. programName \in DOMAIN files /\ Len(old) <= currentLine - buffer
        /\ old \in Characters /\ Len(old) \in Nat
    BY <1>8, LengthsFacts DEF Inv, Saving, FilesSound
  <2>2. text \in Characters /\ Len(text) \in Nat /\ NewLength(text) \in Nat
        /\ NewLength(text) >= Len(text)
    <3>1. Program[k + 1] \in LineRecord
      BY <1>2, <1>5, LaidFacts
    <3>2. /\ text \in TextsUpTo(MaxLine - 1) /\ Len(text) \in Nat /\ NewLength(text) \in Nat
          /\ NewLength(text) >= LineSize + Len(text)
      BY <3>1, LineFacts
    <3>3. MaxLine - 1 \in Nat /\ LineSize \in Nat
      BY EditAssumption
    <3>4. text \in Seq(Chars \cup {NL})
      BY <3>2, <3>3, TextFacts
    <3> QED
      BY <3>2, <3>3, <3>4 DEF Characters
  <2>3. files' = [files EXCEPT ![programName] = old \o text]
    BY <1>6, <1>8 DEF BufGetLine
  <2> HIDE DEF text, old
  <2>4. old \o text \in Characters /\ Len(old \o text) = Len(old) + Len(text)
    BY <2>1, <2>2 DEF Characters
  <2>5. /\ DOMAIN files' = DOMAIN files /\ files'[programName] = old \o text
        /\ \A f \in DOMAIN files : f # programName => files'[f] = files[f]
    BY <2>1, <2>3
  <2>6. currentLine \in Nat /\ currentLine' \in Nat /\ currentLine' <= Top
        /\ currentLine' = currentLine + NewLength(text) /\ buffer \in Nat
    <3>1. k + 1 \in 1 .. Len(Program) + 1 /\ k + 1 + 1 \in 1 .. Len(Program) + 1
      BY <1>2, <1>5, LaidFacts
    <3> QED
      BY <1>1, <1>2, <1>5, <1>6, <3>1, LaidFacts DEF text
  <2>7. Len(files'[programName]) <= currentLine' - buffer
    BY <2>1, <2>2, <2>4, <2>5, <2>6
  <2>8. Saving'
    BY <1>1, <1>2, <2>1, <2>5, <2>7 DEF Saving
  <2>9. Len(files'[programName]) \in Lengths
    <3>1. Len(files'[programName]) \in 0 .. Top
      BY <2>1, <2>2, <2>4, <2>5, <2>6, <2>7, EditAssumption
    <3> QED
      BY <3>1, LengthsFacts
  <2>10. FilesSound'
    BY <2>4, <2>5, <2>9 DEF Inv, FilesSound, Lengths, Characters
  <2>11. LoadingSound'
    BY <1>1 DEF Inv, LoadingSound, Lengths, Characters
  <2> QED
    BY <1>2, <1>3, <1>7, <2>8, <2>10, <2>11 DEF Inv, Step
<1>9. CASE mode # "save"
  <2>1. files' = files /\ mode' # "save"
    BY <1>1, <1>9 DEF BufGetLine
  <2>2. Saving' /\ FilesSound' /\ LoadingSound'
    BY <1>1, <2>1 DEF Inv, Saving, FilesSound, LoadingSound, Lengths, Characters
  <2> QED
    BY <1>2, <1>3, <1>7, <2>2 DEF Inv, Step
<1> QED
  BY <1>8, <1>9

\* A command that reads the lines, or RUN at an error, comes to its end.
LEMMA ReadingEnds ==
  ASSUME Inv, EndOfBuffer \/ CompileError
  PROVE  Step
<1>1. /\ mode' = "command" /\ passed' = <<>>
      /\ IF mode = "run" THEN Compiling ELSE UNCHANGED nextLow
      /\ UNCHANGED <<edit, loading, lineNumber, programName, files>>
  BY DEF EndOfBuffer, CompileError
<1>2. Program' = Program /\ Laid'
  BY <1>1, NothingEdited DEF Inv
<1>3. RoomBelow'
  BY <1>1, CompilingRoom
<1>4. Given' /\ Saving' /\ FilesSound' /\ LoadingSound'
  BY <1>1 DEF Inv, Given, Reading, Saving, FilesSound, LoadingSound, Lengths, Characters
<1> QED
  BY <1>2, <1>3, <1>4 DEF Inv, Step

LEMMA LoadLineStep ==
  ASSUME Inv, LoadLine
  PROVE  Step
<1>1. /\ mode = "load" /\ loading # <<>> /\ loading \in Characters
      /\ loading' = AfterFgets(loading) /\ lineNumber' = lineNumber + 10
      /\ UNCHANGED <<nextLow, mode, passed, programName, files>>
  BY DEF LoadLine, Inv, LoadingSound
<1> DEFINE t == Fgets(loading)
<1>2. /\ t \in TextsUpTo(MaxLine - 1)
      /\ AfterFgets(loading) \in Characters
      /\ Len(AfterFgets(loading)) \in Nat /\ Len(AfterFgets(loading)) < Len(loading)
  BY <1>1, FgetsFacts DEF Characters
<1>3. PICK k \in Nat : lineNumber = 100 + 10 * k /\ k + Len(loading) \in Lengths
  BY <1>1 DEF Inv, LoadingSound
<1>4. k \in Lengths /\ k + 1 + Len(loading') \in Lengths
  <2>1. PICK n \in Nat : n = Len(loading)
    BY <1>1 DEF Characters
  <2>2. k \in 0 .. k + Len(loading) /\ k + 1 + Len(loading') \in 0 .. k + Len(loading)
    BY <1>1, <1>2, <2>1
  <2> QED
    BY <1>3, <2>2, LengthsFacts
<1>5. LoadingSound'
  <2>1. k + 1 \in Nat /\ lineNumber' = 100 + 10 * (k + 1)
    BY <1>1, <1>3
  <2> QED
    BY <1>1, <1>2, <1>4, <2>1 DEF LoadingSound, Characters, Lengths
<1>6. Given' /\ Saving' /\ FilesSound'
  BY <1>1 DEF Inv, Given, Reading, Saving, FilesSound, Lengths, Characters
<1>7. Laid /\ nextLow \in Nat /\ nextLow <= buffer /\ lineNumber \in Nat
  BY <1>3 DEF Inv, RoomBelow
<1> HIDE DEF t
<1>8. CASE BufAddLineN(lineNumber, t)
  <2>1. Laid' /\ nextLow <= buffer' /\ Ordered!BufAddLineN(lineNumber, t)
    BY <1>2, <1>7, <1>8, AddStep
  <2>2. Ordered!Next
    BY <1>2, <1>3, <1>4, <2>1 DEF Ordered!Next
  <2>3. RoomBelow'
    BY <1>1, <1>7, <2>1 DEF RoomBelow
  <2> QED
    BY <1>5, <1>6, <2>1, <2>2, <2>3 DEF Inv, Step
<1>9. CASE UNCHANGED edit
  <2>1. Program' = Program /\ Laid'
    BY <1>7, <1>9, NothingEdited
  <2>2. RoomBelow'
    BY <1>1, <1>7, <1>9 DEF RoomBelow, edit
  <2> QED
    BY <1>5, <1>6, <2>1, <2>2 DEF Inv, Step
<1> QED
  BY <1>8, <1>9 DEF LoadLine, t

LEMMA EndOfFileStep ==
  ASSUME Inv, EndOfFile
  PROVE  Step
<1>1. /\ mode = "load" /\ mode' = "command"
      /\ UNCHANGED <<edit, nextLow, passed, loading, files>>
  BY DEF EndOfFile
<1>2. Program' = Program /\ Laid'
  BY <1>1, NothingEdited DEF Inv
<1>3. RoomBelow' /\ Given' /\ Saving' /\ FilesSound' /\ LoadingSound'
  BY <1>1 DEF Inv, RoomBelow, Given, Reading, Saving, FilesSound, LoadingSound, Lengths, Characters, edit
<1> QED
  BY <1>2, <1>3 DEF Inv, Step

LEMMA NextStep == Inv /\ [Next]_vars => Step
<1> SUFFICES ASSUME Inv, [Next]_vars
             PROVE  Step
  OBVIOUS
<1>1. CASE UNCHANGED vars
  <2>1. Program' = Program /\ Places' = Places /\ Laid'
    BY <1>1, NothingEdited DEF Inv, vars, edit
  <2>2. RoomBelow' /\ Given' /\ Saving' /\ FilesSound' /\ LoadingSound'
    BY <1>1, <2>1 DEF Inv, RoomBelow, Given, Reading, Saving, FilesSound, LoadingSound, Lengths, Characters, vars
  <2> QED
    BY <2>1, <2>2 DEF Inv, Step
<1> QED
  BY <1>1, EnterLineStep, DeleteLineStep, DoNewStep, DoRenumStep, DoListStep, DoSaveStep, DoLoadStep,
     DoRunStep, BufGetLineStep, ReadingEnds, LoadLineStep, EndOfFileStep DEF Next
-----------------------------------------------------------------------------
\* In every state the records fill the buffer from its first line to bufferTop,
\* each as long as its text needs, and none of them reaches down into what the
\* compiler keeps: whatever is entered, deleted, renumbered, loaded or refused.
THEOREM BufferSoundCorrect == Spec => []BufferSound
<1>1. Inv => BufferSound
  <2> SUFFICES ASSUME Inv
               PROVE  BufferSound
    OBVIOUS
  <2>1. nextLow <= buffer /\ Laid
    BY DEF Inv, RoomBelow
  <2>2. PICK k \in Nat : k = Len(Program)
    BY <2>1, LaidFacts
  <2>3. buffer \in Nat /\ Layout(mem, buffer, Program, Places)
    BY <2>1, LaidFacts
  <2>4. /\ \A i \in 0 .. MaxLines : LineAt[i] = IF i < k THEN Places[i + 1] ELSE Top
        /\ k \in 0 .. MaxLines
        /\ \A i \in 1 .. k : Text(Places[i]) = Program[i].text
                             /\ Length(Places[i]) = NewLength(Program[i].text)
    BY <2>2, <2>3, ProgramIs
  <2>5. Top \in Starts
    BY <2>2, <2>4 DEF Starts
  <2>6. ASSUME NEW p \in Starts \ {Top}
        PROVE  Length(p) = NewLength(Text(p))
    <3>1. PICK i \in 0 .. MaxLines : p = LineAt[i]
      BY DEF Starts
    <3>2. i + 1 \in 1 .. k /\ p = Places[i + 1]
      BY <2>2, <2>4, <3>1
    <3> QED
      BY <2>4, <3>2
  <2> QED
    BY <2>1, <2>5, <2>6 DEF BufferSound
<1>2. Inv /\ [Next]_vars => Inv'
  BY NextStep DEF Step
<1> QED
  BY <1>1, <1>2, InitInv, PTL DEF Spec

\* LIST and SAVE do not end before the last line.
LEMMA AllRead ==
  ASSUME Inv, Next, mode \in {"list", "save"}, mode' = "command"
  PROVE  EndOfBuffer /\ passed = Program
<1>1. Laid /\ Len(Program) \in Nat /\ Program \in Seq(LineRecord)
  BY LaidFacts DEF Inv
<1>2. EndOfBuffer
  BY DEF Next, EnterLine, DeleteLine, DoNew, DoRenum, DoList, DoSave, DoLoad, DoRun, Command,
         BufGetLine, CompileError, LoadLine, EndOfFile
<1>3. PICK k \in 0 .. Len(Program) : passed = SubSeq(Program, 1, k) /\ currentLine = Places[k + 1]
  BY DEF Inv, Given, Reading
<1>4. ASSUME k < Len(Program)
      PROVE  FALSE
  <2>1. k + 1 \in 1 .. Len(Program) + 1 /\ Len(Program) + 1 \in 1 .. Len(Program) + 1
        /\ k + 1 < Len(Program) + 1
    BY <1>1, <1>4
  <2>2. Places[k + 1] < Top /\ Places[k + 1] \in Nat
    BY <1>1, <2>1, LaidFacts
  <2>3. currentLine >= Top
    BY <1>2 DEF EndOfBuffer
  <2> QED
    BY <1>3, <2>2, <2>3, EditAssumption
<1>5. k = Len(Program)
  BY <1>1, <1>4
<1> QED
  BY <1>1, <1>2, <1>3, <1>5, PrefixFacts

\* LIST and SAVE end only when they have been given every line of the program,
\* once and in order, and what a RUN has compiled is always its first lines.
THEOREM EveryLineOnceCorrect == Spec => EveryLineOnce
<1>1. ASSUME Inv, [Next]_vars
      PROVE  [/\ mode \in {"list", "save"} /\ mode' = "command" => passed = Program
              /\ mode = "run" => IsPrefix(passed, Program)]_vars
  <2> SUFFICES ASSUME Next
               PROVE  /\ mode \in {"list", "save"} /\ mode' = "command" => passed = Program
                      /\ mode = "run" => IsPrefix(passed, Program)
    BY <1>1
  <2>1. Laid /\ Len(Program) \in Nat /\ Program \in Seq(LineRecord)
    BY <1>1, LaidFacts DEF Inv
  <2>2. ASSUME mode \in {"list", "save"}, mode' = "command"
        PROVE  passed = Program
    BY <1>1, <2>2, AllRead
  <2>3. ASSUME mode = "run"
        PROVE  IsPrefix(passed, Program)
    BY <1>1, <2>1, <2>3, PrefixFacts DEF Inv, Given, Reading
  <2> QED
    BY <2>2, <2>3
<1>2. Inv /\ [Next]_vars => Inv'
  BY NextStep DEF Step
<1> QED
  BY <1>1, <1>2, InitInv, PTL DEF Spec, EveryLineOnce

\* The bytes implement the ordered list of lines: each command does to the
\* records what LineList says it does to the sequence, and whatever else the
\* editor does leaves the sequence as it is.
THEOREM ImplementsLineListCorrect == Spec => ImplementsLineList
<1>1. Init => Ordered!Init
  BY InitInv
<1>2. Inv /\ [Next]_vars => Inv' /\ [Ordered!Next]_Program
  BY NextStep DEF Step
<1> QED
  BY <1>1, <1>2, InitInv, PTL DEF Spec, ImplementsLineList, Ordered!Spec
-----------------------------------------------------------------------------
(***************************************************************************)
(* SAVE and LOAD.                                                            *)
(***************************************************************************)
LineTexts == TextsUpTo(MaxLine - 1)

\* Each call of fgets takes something from what is left, until nothing is.
LEMMA RestFacts ==
  ASSUME NEW s \in Characters
  PROVE  /\ Rest(s)[0] = s
         /\ \A i \in Nat :
              /\ Rest(s)[i] \in Characters /\ Len(Rest(s)[i]) \in Nat
              /\ Rest(s)[i] = <<>> => Rest(s)[i + 1] = <<>>
              /\ Rest(s)[i] # <<>> => /\ Rest(s)[i + 1] = AfterFgets(Rest(s)[i])
                                      /\ Len(Rest(s)[i + 1]) < Len(Rest(s)[i])
<1> DEFINE r == Rest(s)
<1>1. r[0] = s /\ \A i \in Nat : r[i + 1] = Fgotten[r[i]]
  <2>1. r = [i \in Nat |-> IF i = 0 THEN s ELSE Fgotten[r[i - 1]]]
    BY RepeatedDef DEF Rest
  <2> HIDE DEF r
  <2> QED
    BY <2>1
<1> HIDE DEF r
<1>2. \A t \in Characters : Fgotten[t] = IF t = <<>> THEN t ELSE AfterFgets(t)
  BY DEF Fgotten, Characters
<1>3. \A t \in Characters : t # <<>> => AfterFgets(t) \in Characters /\ Len(AfterFgets(t)) < Len(t)
  BY FgetsFacts DEF Characters
<1> DEFINE S == {i \in Nat : r[i] \in Characters}
<1>4. 0 \in S
  BY <1>1
<1>5. ASSUME NEW i \in Nat, i \in S
      PROVE  i + 1 \in S
  <2>1. r[i] \in Characters /\ r[i + 1] = Fgotten[r[i]]
    BY <1>1, <1>5
  <2>2. Fgotten[r[i]] \in Characters
    BY <1>2, <1>3, <2>1
  <2> QED
    BY <2>1, <2>2
<1> HIDE DEF S
<1>6. Nat \subseteq S
  BY <1>4, <1>5, AllOf
<1>7. \A i \in Nat : r[i] \in Characters
  BY <1>6 DEF S
<1>8. \A t \in Characters : Len(t) \in Nat
  BY DEF Characters
<1> QED
  BY <1>1, <1>2, <1>3, <1>7, <1>8 DEF r

\* What is known of the lines of s when there are n of them.
LinesRead(s, n) ==
  /\ FileLines(s) \in Seq(LineTexts) /\ Len(FileLines(s)) = n
  /\ \A i \in Nat : Rest(s)[i] # <<>> <=> i < n
  /\ \A i \in Nat : i < n => FileLines(s)[i + 1] = Fgets(Rest(s)[i]) /\ FileLines(s)[i + 1] \in LineTexts

LEMMA FileLinesFacts ==
  ASSUME NEW s \in Characters
  PROVE  \E n \in Nat : LinesRead(s, n)
<1> DEFINE r == Rest(s)
           S == {i \in Nat : r[i] = <<>>}
<1>1. PICK len \in Nat : len = Len(s)
  BY DEF Characters
<1>2. /\ r[0] = s
      /\ \A i \in Nat :
           /\ r[i] \in Characters /\ Len(r[i]) \in Nat
           /\ r[i] = <<>> => r[i + 1] = <<>>
           /\ r[i] # <<>> => Len(r[i + 1]) < Len(r[i])
  BY RestFacts
<1>3. FileLines(s) = [i \in 1 .. Cardinality({j \in 0 .. len : r[j] # <<>>}) |-> Fgets(r[i - 1])]
  BY <1>1 DEF FileLines
<1> HIDE DEF r
<1>4. \A i \in Nat : r[i] = <<>> \/ Len(r[i]) + i <= len
  <2> DEFINE D == {i \in Nat : r[i] = <<>> \/ Len(r[i]) + i <= len}
  <2>1. 0 \in D
    BY <1>1, <1>2
  <2>2. ASSUME NEW i \in Nat, i \in D
        PROVE  i + 1 \in D
    <3>1. PICK a \in Nat, b \in Nat : a = Len(r[i]) /\ b = Len(r[i + 1])
      BY <1>2
    <3> QED
      BY <1>2, <2>2, <3>1
  <2> HIDE DEF D
  <2>3. Nat \subseteq D
    BY <2>1, <2>2, AllOf
  <2> QED
    BY <2>3 DEF D
<1>5. len \in S
  <2>1. r[len] \in Characters /\ Len(r[len]) \in Nat
    BY <1>2
  <2>2. \A t \in Characters : Len(t) = 0 => t = <<>>
    BY DEF Characters
  <2> QED
    BY <1>4, <2>1, <2>2
<1>6. PICK n \in S : \A y \in S : n <= y
  <2>1. S \subseteq Nat /\ S # {}
    BY <1>5
  <2> HIDE DEF S
  <2> QED
    BY <2>1, LeastElement
<1>7. n \in 0 .. len /\ r[n] = <<>>
  BY <1>5, <1>6
<1>8. \A i \in Nat : r[i] # <<>> <=> i < n
  <2> DEFINE D == {i \in Nat : i >= n => r[i] = <<>>}
  <2>1. 0 \in D
    BY <1>7
  <2>2. ASSUME NEW i \in Nat, i \in D
        PROVE  i + 1 \in D
    <3>1. CASE i >= n
      BY <1>2, <2>2, <3>1
    <3>2. CASE ~(i >= n)
      <4>1. i + 1 >= n => i + 1 = n
        BY <1>7, <3>2
      <4> QED
        BY <1>7, <4>1
    <3> QED
      BY <3>1, <3>2
  <2> HIDE DEF D
  <2>3. Nat \subseteq D
    BY <2>1, <2>2, AllOf
  <2>4. \A i \in Nat : i < n => r[i] # <<>>
    BY <1>6, <1>7
  <2> QED
    BY <1>7, <2>3, <2>4 DEF D
<1>9. Cardinality({j \in 0 .. len : r[j] # <<>>}) = n
  <2>1. {j \in 0 .. len : r[j] # <<>>} = 0 .. n - 1
    BY <1>7, <1>8
  <2>2. Cardinality(0 .. n - 1) = IF 0 > n - 1 THEN 0 ELSE n - 1 - 0 + 1
    <3>1. n - 1 \in Int /\ 0 \in Int
      BY <1>7
    <3> QED
      BY <3>1, FS_Interval
  <2>3. Cardinality(0 .. n - 1) = n
    BY <1>7, <2>2
  <2> QED
    BY <2>1, <2>3
<1>10. FileLines(s) = [i \in 1 .. n |-> Fgets(r[i - 1])]
  BY <1>3, <1>9
<1>11. ASSUME NEW i \in 1 .. n
       PROVE  Fgets(r[i - 1]) \in LineTexts
  <2>1. i - 1 \in Nat /\ i - 1 < n
    BY <1>7
  <2>2. r[i - 1] \in Characters /\ r[i - 1] # <<>>
    BY <1>2, <1>8, <2>1
  <2> QED
    BY <2>2, FgetsFacts DEF LineTexts, Characters
<1>12. FileLines(s) \in Seq(LineTexts) /\ Len(FileLines(s)) = n
  BY <1>7, <1>10, <1>11
<1>13. ASSUME NEW i \in Nat, i < n
       PROVE  FileLines(s)[i + 1] = Fgets(r[i]) /\ FileLines(s)[i + 1] \in LineTexts
  <2>1. i + 1 \in 1 .. n /\ i + 1 - 1 = i
    BY <1>7, <1>13
  <2> QED
    BY <1>10, <1>11, <2>1
<1>14. LinesRead(s, n)
  BY <1>8, <1>12, <1>13 DEF LinesRead, r
<1> HIDE DEF S
<1> QED
  BY <1>7, <1>14

\* The cells of the first lines are what the recursion says they are.
LEMMA CellsOfFacts ==
  ASSUME NEW lines \in Seq(LineTexts), NEW n \in Nat, n = Len(lines)
  PROVE  /\ CellsOf(lines)[0] = 0
         /\ \A i \in 0 .. n : CellsOf(lines)[i] \in Nat /\ CellsOf(lines)[i] <= CellsOf(lines)[n]
         /\ \A i \in Nat : i < n => CellsOf(lines)[i + 1] = CellsOf(lines)[i] + NewLength(lines[i + 1])
<1> DEFINE Upto(f, k) == f = [i \in 0 .. k |-> IF i = 0 THEN 0 ELSE f[i - 1] + NewLength(lines[i])]
           c == CellsOf(lines)
<1>1. \E f : Upto(f, n)
  <2> DEFINE S == {k \in Nat : \E f : Upto(f, k)}
  <2>1. 0 \in S
    <3>1. Upto([i \in 0 .. 0 |-> 0], 0)
      OBVIOUS
    <3> QED
      BY <3>1
  <2>2. ASSUME NEW k \in Nat, k \in S
        PROVE  k + 1 \in S
    <3>1. PICK f : Upto(f, k)
      BY <2>2
    <3> DEFINE h == [i \in 0 .. k + 1 |-> IF i = k + 1 THEN f[k] + NewLength(lines[k + 1]) ELSE f[i]]
    <3>2. \A i \in 0 .. k + 1 : h[i] = IF i = 0 THEN 0 ELSE h[i - 1] + NewLength(lines[i])
      BY <3>1
    <3>3. Upto(h, k + 1)
      BY <3>2
    <3>4. \E z : Upto(z, k + 1)
      <4> HIDE DEF Upto, h
      <4> QED
        BY <3>3
    <3> QED
      BY <3>4
  <2> HIDE DEF S
  <2>3. Nat \subseteq S
    BY <2>1, <2>2, AllOf
  <2> QED
    BY <2>3 DEF S
<1>2. Upto(c, n)
  <2>1. c = CHOOSE f : Upto(f, n)
    BY DEF CellsOf
  <2> HIDE DEF Upto, c
  <2> QED
    BY <1>1, <2>1
<1> HIDE DEF c
<1>3. c[0] = 0 /\ \A i \in 1 .. n : c[i] = c[i - 1] + NewLength(lines[i])
  BY <1>2
<1> HIDE DEF Upto
<1>4. \A i \in 1 .. n : NewLength(lines[i]) \in Nat
  <2> TAKE i \in 1 .. n
  <2>1. lines[i] \in TextsUpTo(MaxLine - 1) /\ MaxLine - 1 \in Nat
    BY EditAssumption DEF LineTexts
  <2> QED
    BY <2>1, NewLengthFacts
<1>5. \A i \in Nat : i < n => c[i + 1] = c[i] + NewLength(lines[i + 1]) /\ NewLength(lines[i + 1]) \in Nat
  <2> TAKE i \in Nat
  <2> HAVE i < n
  <2>1. i + 1 \in 1 .. n /\ i + 1 - 1 = i
    OBVIOUS
  <2> QED
    BY <1>3, <1>4, <2>1
<1>6. \A i \in 0 .. n : c[i] \in Nat
  <2> DEFINE S == {i \in Nat : i <= n => c[i] \in Nat}
  <2>1. 0 \in S
    BY <1>3
  <2>2. ASSUME NEW i \in Nat, i \in S
        PROVE  i + 1 \in S
    <3>1. CASE i < n
      BY <1>5, <2>2, <3>1
    <3>2. CASE ~(i < n)
      BY <3>2
    <3> QED
      BY <3>1, <3>2
  <2> HIDE DEF S
  <2>3. Nat \subseteq S
    BY <2>1, <2>2, AllOf
  <2> QED
    BY <2>3 DEF S
<1>7. \A i \in 0 .. n : c[i] <= c[n]
  <2>0. \A d \in Nat : d + 1 <= n => /\ n - (d + 1) \in Nat /\ n - (d + 1) < n
                                    /\ n - (d + 1) + 1 = n - d
    OBVIOUS
  <2> DEFINE S == {d \in Nat : d <= n => c[n - d] <= c[n]}
  <2>1. 0 \in S
    BY <1>6
  <2>2. ASSUME NEW d \in Nat, d \in S
        PROVE  d + 1 \in S
    <3> SUFFICES ASSUME d + 1 <= n
                 PROVE  c[n - (d + 1)] <= c[n]
      OBVIOUS
    <3> DEFINE i == n - (d + 1)
    <3>1. i \in Nat /\ i < n /\ i + 1 = n - d
      BY <2>0
    <3> HIDE DEF i
    <3>2. c[i + 1] = c[i] + NewLength(lines[i + 1]) /\ NewLength(lines[i + 1]) \in Nat
      BY <1>5, <3>1
    <3>3. c[i] \in Nat /\ c[i + 1] \in Nat /\ c[n] \in Nat
      BY <1>6, <3>1
    <3>4. c[i + 1] <= c[n]
      BY <2>2, <3>1
    <3>5. c[i] <= c[n]
      BY <3>2, <3>3, <3>4
    <3> QED
      BY <3>5 DEF i
  <2> HIDE DEF S
  <2>3. Nat \subseteq S
    BY <2>1, <2>2, AllOf
  <2>4. \A i \in 0 .. n : n - i \in S
    BY <2>3
  <2> QED
    BY <2>4 DEF S
<1> QED
  BY <1>3, <1>5, <1>6, <1>7 DEF c
-----------------------------------------------------------------------------
AllBelow(n) == \A j \in 1 .. Len(Program) : Program[j].number < n

\* A number above all others is not found.
LEMMA NotFound ==
  ASSUME Laid, NEW n \in Nat, AllBelow(n)
  PROVE  ~Found(n)
<1>1. buffer \in Nat /\ Layout(mem, buffer, Program, Places)
  BY LaidFacts
<1>2. PICK i \in 1 .. Len(Program) + 1 : Found(n) <=> i <= Len(Program) /\ Program[i].number = n
  BY <1>1, FindLineNIs
<1>3. i <= Len(Program) => i \in 1 .. Len(Program)
  BY LaidFacts
<1> QED
  BY <1>2, <1>3 DEF AllBelow

\* A line entered under such a number is one line more, and the others stay.
LEMMA NewLine ==
  ASSUME Laid, nextLow \in Nat, NEW n \in Nat, NEW t \in LineTexts, AllBelow(n), BufAddLineN(n, t)
  PROVE  /\ Len(Program') = Len(Program) + 1
         /\ \A j \in 1 .. Len(Program') :
              \/ Program'[j] = [number |-> n, text |-> t]
              \/ \E h \in 1 .. Len(Program) : Program'[j] = Program[h]
         /\ buffer' = buffer - NewLength(t)
<1> DEFINE l == [number |-> n, text |-> t]
<1>1. Ordered!BufAddLineN(n, t)
  BY AddStep DEF LineTexts
<1>2. PICK i \in 1 .. Len(Program) + 1 :
        /\ Ordered!FindLineN(n, i)
        /\ \/ Ordered!Found(n, i) /\ Program' = [Program EXCEPT ![i] = l]
           \/ ~Ordered!Found(n, i) /\ Program' = Ordered!Inserted(i, l)
  BY <1>1 DEF Ordered!BufAddLineN
<1>3. PICK k \in Nat : k = Len(Program)
  BY LaidFacts
<1>4. ~Ordered!Found(n, i)
  <2>1. i <= Len(Program) => i \in 1 .. Len(Program)
    BY <1>3
  <2> QED
    BY <2>1 DEF Ordered!Found, AllBelow
<1>5. Program' = [j \in 1 .. k + 1 |-> IF j < i THEN Program[j] ELSE IF j = i THEN l ELSE Program[j - 1]]
  BY <1>2, <1>3, <1>4 DEF Ordered!Inserted
<1> HIDE DEF l
<1>6. Len(Program') = k + 1
  BY <1>5
<1>7. ASSUME NEW j \in 1 .. k + 1
      PROVE  Program'[j] = l \/ \E h \in 1 .. k : Program'[j] = Program[h]
  <2>1. CASE j < i
    <3>1. j \in 1 .. k /\ Program'[j] = Program[j]
      BY <1>3, <1>5, <2>1
    <3> QED
      BY <3>1
  <2>2. CASE j = i
    BY <1>5, <2>2
  <2>3. CASE ~(j < i) /\ j # i
    <3>1. j - 1 \in 1 .. k /\ Program'[j] = Program[j - 1]
      BY <1>3, <1>5, <2>3
    <3> QED
      BY <3>1
  <2> QED
    BY <2>1, <2>2, <2>3
<1>8. buffer' = buffer - NewLength(t)
  <2>1. ~Found(n)
    BY NotFound
  <2>2. NewLength(t) \in Nat
    <3>1. MaxLine - 1 \in Nat
      BY EditAssumption
    <3> QED
      BY <3>1, NewLengthFacts DEF LineTexts
  <2>3. SpaceNeeded(n, t) = NewLength(t)
    BY <2>1, <2>2 DEF SpaceNeeded
  <2> QED
    BY <2>3 DEF BufAddLineN
<1> QED
  BY <1>3, <1>6, <1>7, <1>8 DEF l

\* The lines of s stand under the numbers of their places in it.
Placed(s, k) ==
  \A j \in 1 .. Len(Program) : \E i \in 1 .. k :
    Program[j].number = 90 + 10 * i /\ Program[j].text = FileLines(s)[i]

\* When the file as a whole fits, none of its first k lines is missing.
Complete(s, k) ==
  CellsOf(FileLines(s))[Len(FileLines(s))] <= Top - nextLow =>
    Len(Program) = k /\ buffer = Top - CellsOf(FileLines(s))[k]

LoadedUpTo(s, k) ==
  /\ k <= Len(FileLines(s))
  /\ lineNumber = 100 + 10 * k /\ loading = Rest(s)[k]
  /\ Placed(s, k)
  /\ Complete(s, k)

Loaded == mode = "load" =>
  /\ programName \in DOMAIN files
  /\ \E k \in Nat : LoadedUpTo(files[programName], k)

\* LOAD begins with the whole file before it and no line.
LEMMA LoadBegins ==
  ASSUME NEW s \in Characters, Program' = <<>>, buffer' = Top, lineNumber' = 100, loading' = s
  PROVE  LoadedUpTo(s, 0)'
<1>1. PICK n \in Nat : LinesRead(s, n)
  BY FileLinesFacts
<1>2. Rest(s)[0] = s
  BY RestFacts
<1>3. CellsOf(FileLines(s))[0] = 0
  BY <1>1, CellsOfFacts DEF LinesRead
<1>4. Placed(s, 0)'
  BY DEF Placed
<1>5. Complete(s, 0)'
  <2>1. Len(Program') = 0 /\ buffer' = Top - CellsOf(FileLines(s))[0]
    BY <1>3, EditAssumption
  <2> QED
    BY <2>1 DEF Complete
<1>6. 0 <= Len(FileLines(s)) /\ lineNumber' = 100 + 10 * 0
  BY <1>1 DEF LinesRead
<1> QED
  BY <1>2, <1>4, <1>5, <1>6 DEF LoadedUpTo

LEMMA LoadGoesOn ==
  ASSUME Inv, NEW s \in Characters, NEW k \in Nat, LoadedUpTo(s, k), LoadLine
  PROVE  LoadedUpTo(s, k + 1)'
<1> DEFINE F == FileLines(s)
           c == CellsOf(F)
<1>1. PICK n \in Nat : LinesRead(s, n)
  BY FileLinesFacts
<1>2. /\ F \in Seq(LineTexts) /\ n = Len(F)
      /\ loading # <<>> <=> k < n
      /\ k <= n
  BY <1>1 DEF LinesRead, LoadedUpTo
<1>3. loading # <<>> /\ k < n
  BY <1>2 DEF LoadLine
<1>4. F[k + 1] = Fgets(loading) /\ F[k + 1] \in LineTexts /\ Rest(s)[k + 1] = AfterFgets(loading)
  BY <1>1, <1>3, RestFacts DEF LinesRead, LoadedUpTo
<1>5. PICK t \in LineTexts : t = F[k + 1] /\ t = Fgets(loading)
  BY <1>4
<1> HIDE DEF F
<1>6. /\ c[k + 1] = c[k] + NewLength(t)
      /\ c[k] \in Nat /\ c[k + 1] \in Nat /\ c[n] \in Nat /\ c[k + 1] <= c[n]
  <2>1. /\ \A i \in 0 .. n : c[i] \in Nat /\ c[i] <= c[n]
        /\ \A i \in Nat : i < n => c[i + 1] = c[i] + NewLength(F[i + 1])
    BY <1>2, CellsOfFacts
  <2>2. k \in 0 .. n /\ k + 1 \in 0 .. n /\ n \in 0 .. n
    BY <1>3
  <2> HIDE DEF c
  <2> QED
    BY <1>3, <1>5, <2>1, <2>2
<1> HIDE DEF c
<1>7. /\ Laid /\ nextLow \in Nat /\ nextLow' = nextLow /\ buffer \in Nat /\ Top \in Nat
      /\ lineNumber = 100 + 10 * k /\ lineNumber' = 100 + 10 * (k + 1) /\ lineNumber \in Nat
      /\ loading' = Rest(s)[k + 1]
  BY <1>4, EditAssumption DEF Inv, RoomBelow, LoadLine, LoadedUpTo, Laid
<1>8. NewLength(t) \in Nat
  BY <1>5, EditAssumption, NewLengthFacts DEF LineTexts
<1>9. \A j \in 1 .. Len(Program) : \E i \in 1 .. k :
        Program[j].number = 90 + 10 * i /\ Program[j].text = F[i]
  BY DEF LoadedUpTo, Placed, F
<1>10. AllBelow(lineNumber)
  BY <1>7, <1>9 DEF AllBelow
<1>11. c[n] <= Top - nextLow => Len(Program) = k /\ buffer = Top - c[k]
  BY <1>2 DEF LoadedUpTo, Complete, c, F
<1>12. PICK m \in Nat : m = Len(Program)
  BY <1>7, LaidFacts
<1>13. CASE BufAddLineN(lineNumber, t)
  <2>1. /\ Len(Program') = m + 1
        /\ \A j \in 1 .. m + 1 :
             \/ Program'[j] = [number |-> lineNumber, text |-> t]
             \/ \E h \in 1 .. m : Program'[j] = Program[h]
        /\ buffer' = buffer - NewLength(t)
    BY <1>7, <1>10, <1>12, <1>13, NewLine
  <2>2. ASSUME NEW j \in 1 .. m + 1
        PROVE  \E i \in 1 .. k + 1 : Program'[j].number = 90 + 10 * i /\ Program'[j].text = F[i]
    <3>1. CASE Program'[j] = [number |-> lineNumber, text |-> t]
      <4>1. k + 1 \in 1 .. k + 1 /\ lineNumber = 90 + 10 * (k + 1)
        BY <1>7
      <4>2. Program'[j].number = lineNumber /\ Program'[j].text = t
        BY <3>1
      <4> QED
        BY <1>5, <4>1, <4>2
    <3>2. CASE \E h \in 1 .. m : Program'[j] = Program[h]
      <4>1. PICK i \in 1 .. k : Program'[j].number = 90 + 10 * i /\ Program'[j].text = F[i]
        BY <1>9, <1>12, <3>2
      <4> QED
        BY <4>1
    <3> QED
      BY <2>1, <3>1, <3>2
  <2>3. Placed(s, k + 1)'
    BY <2>1, <2>2 DEF Placed, F, FileLines
  <2>4. c[n] <= Top - nextLow => Len(Program') = k + 1 /\ buffer' = Top - c[k + 1]
    <3>1. PICK size \in Nat : size = NewLength(t)
      BY <1>8
    <3>2. c[k + 1] = c[k] + size /\ buffer' = buffer - size
      BY <1>6, <2>1, <3>1
    <3>3. Len(Program') = m + 1
      BY <2>1
    <3> QED
      BY <1>6, <1>7, <1>11, <1>12, <3>1, <3>2, <3>3
  <2>5. Complete(s, k + 1)'
    BY <1>2, <1>7, <2>4 DEF Complete, c, F
  <2> QED
    BY <1>2, <1>3, <1>7, <2>3, <2>5 DEF LoadedUpTo, F
<1>14. CASE ~Fits(lineNumber, t) /\ UNCHANGED edit
  <2>1. Program' = Program /\ buffer' = buffer
    BY <1>7, <1>14, NothingEdited DEF edit
  <2>2. ~(c[n] <= Top - nextLow)
    <3>1. ~Found(lineNumber)
      BY <1>7, <1>10, NotFound
    <3>2. ~(buffer - NewLength(t) >= nextLow)
      BY <1>8, <1>14, <3>1 DEF Fits, SpaceNeeded
    <3> QED
      BY <1>6, <1>7, <1>8, <1>11, <3>2
  <2>3. \A j \in 1 .. Len(Program') : \E i \in 1 .. k + 1 :
          Program'[j].number = 90 + 10 * i /\ Program'[j].text = F[i]
    <3>1. \A i \in 1 .. k : i \in 1 .. k + 1
      OBVIOUS
    <3> QED
      BY <1>9, <2>1, <3>1
  <2>4. Placed(s, k + 1)'
    BY <2>3 DEF Placed, F
  <2>5. Complete(s, k + 1)'
    BY <1>2, <1>7, <2>2 DEF Complete, c, F
  <2> QED
    BY <1>2, <1>3, <1>7, <2>4, <2>5 DEF LoadedUpTo, F
<1> QED
  BY <1>5, <1>13, <1>14 DEF LoadLine
-----------------------------------------------------------------------------
\* fgets gives the same line when something stands after its newline.
LEMMA FgetsAppended ==
  ASSUME NEW s \in Characters, s # <<>>, Last(Fgets(s)) = NL, NEW t \in Characters
  PROVE  s \o t # <<>> /\ Fgets(s \o t) = Fgets(s) /\ AfterFgets(s \o t) = AfterFgets(s) \o t
<1> DEFINE u == s \o t
           S == {k \in 1 .. Len(s) : s[k] = NL \/ k = Len(s) \/ k = MaxLine - 1}
           U == {k \in 1 .. Len(u) : u[k] = NL \/ k = Len(u) \/ k = MaxLine - 1}
<1>1. PICK n \in Nat, m \in Nat : n = Len(s) /\ n > 0 /\ m = Len(t)
  BY DEF Characters
<1>2. /\ u \in Characters /\ Len(u) = n + m
      /\ \A i \in 1 .. n : u[i] = s[i]
      /\ \A i \in 1 .. m : u[n + i] = t[i]
  BY <1>1 DEF Characters
<1>3. Min(S) \in S /\ \A y \in S : Min(S) <= y
  <2>1. n \in S /\ S \subseteq Nat
    BY <1>1
  <2> HIDE DEF S
  <2> QED
    BY <2>1, MinFacts
<1>4. PICK c \in 1 .. n : c = Min(S)
  BY <1>1, <1>3
<1>5. Chunk(s) = c
  BY <1>4 DEF Chunk
<1>6. Fgets(s) = SubSeq(s, 1, c) /\ AfterFgets(s) = SubSeq(s, c + 1, n)
  BY <1>1, <1>5 DEF Fgets, AfterFgets
<1>7. s[c] = NL
  <2>1. SubSeq(s, 1, c)[c] = s[c] /\ Len(SubSeq(s, 1, c)) = c
    BY <1>1 DEF Characters
  <2> QED
    BY <1>6, <2>1 DEF Last
<1> HIDE DEF u
<1>8. c \in U /\ U \subseteq Nat
  BY <1>2, <1>7
<1>9. \A k \in U : c <= k
  <2> SUFFICES ASSUME NEW k \in U, k < c
               PROVE  FALSE
    BY <1>2
  <2>1. k \in 1 .. n /\ k # n + m
    BY <1>2
  <2>2. k \in S
    BY <1>1, <1>2, <2>1
  <2> HIDE DEF S, U
  <2> QED
    BY <1>3, <1>4, <2>1, <2>2
<1>10. Chunk(u) = c
  <2>1. Min(U) \in U /\ \A y \in U : Min(U) <= y
    <3> HIDE DEF U
    <3> QED
      BY <1>8, MinFacts
  <2>2. Min(U) = c
    <3> HIDE DEF U
    <3>1. PICK d \in Nat : d = Min(U) /\ d <= c /\ c <= d
      BY <1>8, <1>9, <2>1
    <3> QED
      BY <3>1
  <2> QED
    BY <2>2 DEF Chunk
<1> HIDE DEF S, U
<1>11. Fgets(u) = SubSeq(u, 1, c) /\ AfterFgets(u) = SubSeq(u, c + 1, n + m)
  BY <1>2, <1>10 DEF Fgets, AfterFgets
<1>12. SubSeq(u, 1, c) = SubSeq(s, 1, c)
  <2>1. /\ SubSeq(u, 1, c) \in Seq(Chars \cup {NL}) /\ SubSeq(s, 1, c) \in Seq(Chars \cup {NL})
        /\ Len(SubSeq(u, 1, c)) = c /\ Len(SubSeq(s, 1, c)) = c
        /\ \A i \in 1 .. c : SubSeq(u, 1, c)[i] = u[i] /\ SubSeq(s, 1, c)[i] = s[i]
    BY <1>1, <1>2 DEF Characters
  <2> QED
    BY <1>2, <2>1
<1>13. SubSeq(u, c + 1, n + m) = SubSeq(s, c + 1, n) \o t
  <2> DEFINE x == SubSeq(u, c + 1, n + m)
             y == SubSeq(s, c + 1, n)
             z == y \o t
  <2>1. /\ x \in Characters /\ Len(x) = n + m - c /\ \A i \in 1 .. n + m - c : x[i] = u[c + i]
        /\ y \in Characters /\ Len(y) = n - c /\ \A i \in 1 .. n - c : y[i] = s[c + i]
    <3>1. /\ x \in Characters /\ Len(x) = n + m - (c + 1) + 1
          /\ \A i \in 1 .. n + m - (c + 1) + 1 : x[i] = u[c + 1 + i - 1]
      <4>1. c + 1 \in 1 .. Len(u) + 1 /\ n + m \in c + 1 - 1 .. Len(u)
        BY <1>2
      <4> QED
        BY <1>2, <4>1, SubSeqProperties DEF Characters
    <3>2. /\ y \in Characters /\ Len(y) = n - (c + 1) + 1
          /\ \A i \in 1 .. n - (c + 1) + 1 : y[i] = s[c + 1 + i - 1]
      <4>1. c + 1 \in 1 .. Len(s) + 1 /\ n \in c + 1 - 1 .. Len(s)
        BY <1>1
      <4> QED
        BY <1>1, <4>1, SubSeqProperties DEF Characters
    <3>3. n + m - (c + 1) + 1 = n + m - c /\ n - (c + 1) + 1 = n - c /\ \A i \in Nat : c + 1 + i - 1 = c + i
      OBVIOUS
    <3> HIDE DEF x, y
    <3> QED
      BY <3>1, <3>2, <3>3
  <2> HIDE DEF x, y
  <2>2. /\ z \in Characters /\ Len(z) = n + m - c
        /\ \A i \in 1 .. n + m - c : z[i] = IF i <= n - c THEN y[i] ELSE t[i - (n - c)]
    <3>1. PICK d \in Nat : d = n - c
      BY <1>4
    <3>2. y \in Seq(Chars \cup {NL}) /\ Len(y) = d /\ t \in Seq(Chars \cup {NL})
      BY <2>1, <3>1 DEF Characters
    <3>3. /\ z \in Seq(Chars \cup {NL}) /\ Len(z) = d + m
          /\ \A i \in 1 .. d + m : z[i] = IF i <= d THEN y[i] ELSE t[i - d]
      BY <1>1, <3>2, ConcatProperties
    <3>4. n + m - c = d + m
      BY <3>1
    <3> HIDE DEF z
    <3> QED
      BY <3>1, <3>3, <3>4 DEF Characters
  <2> HIDE DEF z
  <2>3. ASSUME NEW i \in 1 .. n + m - c
        PROVE  x[i] = z[i]
    <3>1. CASE i <= n - c
      <4>1. c + i \in 1 .. n /\ i \in 1 .. n - c
        BY <3>1
      <4> QED
        BY <1>2, <2>1, <2>2, <3>1, <4>1
    <3>2. CASE ~(i <= n - c)
      <4>1. i - (n - c) \in 1 .. m /\ n + (i - (n - c)) = c + i
        BY <3>2
      <4> QED
        BY <1>2, <2>1, <2>2, <3>2, <4>1
    <3> QED
      BY <3>1, <3>2
  <2>4. x = z
    BY <2>1, <2>2, <2>3 DEF Characters
  <2> QED
    BY <2>4 DEF x, y, z
<1>14. u # <<>>
  BY <1>1, <1>2
<1> QED
  BY <1>6, <1>11, <1>12, <1>13, <1>14 DEF u

\* A line that fits is read as a whole.
LEMMA FgetsOfLine ==
  ASSUME NEW t \in LineTexts
  PROVE  t \in Characters /\ t # <<>> /\ Fgets(t) = t /\ AfterFgets(t) = <<>>
<1>1. /\ MaxLine \in Nat /\ MaxLine > 2
      /\ t \in Seq(Chars \cup {NL}) /\ Len(t) \in 1 .. MaxLine - 1
      /\ \A i \in 1 .. Len(t) - 1 : t[i] # NL
  <2>1. MaxLine \in Nat /\ MaxLine > 2 /\ MaxLine - 1 \in Nat
    BY EditAssumption
  <2>2. \A i \in 1 .. Len(t) - 1 : t[i] # NL
    BY DEF LineTexts, TextsUpTo
  <2> QED
    BY <2>1, <2>2, TextFacts DEF LineTexts
<1>2. PICK n \in Nat : n = Len(t) /\ n > 0 /\ n <= MaxLine - 1
  BY <1>1
<1> DEFINE S == {k \in 1 .. Len(t) : t[k] = NL \/ k = Len(t) \/ k = MaxLine - 1}
<1>3. S = {n}
  <2>1. n \in S
    BY <1>2
  <2>2. \A k \in S : k = n
    <3> SUFFICES ASSUME NEW k \in S, k # n
                 PROVE  FALSE
      OBVIOUS
    <3>1. k \in 1 .. n - 1
      BY <1>2
    <3> QED
      BY <1>1, <1>2, <3>1
  <2> QED
    BY <2>1, <2>2
<1>4. Chunk(t) = n
  <2>1. Min({n}) \in {n}
    BY MinFacts
  <2> QED
    BY <1>3, <2>1 DEF Chunk
<1>5. SubSeq(t, 1, n) = t /\ SubSeq(t, n + 1, n) = <<>>
  BY <1>1, <1>2
<1> QED
  BY <1>1, <1>2, <1>4, <1>5 DEF Fgets, AfterFgets, Characters

\* A terminated line put after others that are is read after them.
LEMMA LineAppended ==
  ASSUME NEW s \in Characters, \A i \in 1 .. Len(FileLines(s)) : Last(FileLines(s)[i]) = NL,
         NEW t \in LineTexts
  PROVE  FileLines(s \o t) = Append(FileLines(s), t)
<1> DEFINE u == s \o t
<1>1. t \in Characters /\ t # <<>> /\ Fgets(t) = t /\ AfterFgets(t) = <<>>
  BY FgetsOfLine
<1>2. u \in Characters
  BY <1>1 DEF Characters
<1> HIDE DEF u
<1>3. PICK n \in Nat : LinesRead(s, n)
  BY FileLinesFacts
<1>4. PICK k \in Nat : LinesRead(u, k)
  BY <1>2, FileLinesFacts
<1>5. /\ FileLines(s) \in Seq(LineTexts) /\ Len(FileLines(s)) = n
      /\ \A i \in Nat : Rest(s)[i] # <<>> <=> i < n
      /\ \A i \in Nat : i < n => FileLines(s)[i + 1] = Fgets(Rest(s)[i])
  BY <1>3 DEF LinesRead
<1>6. /\ FileLines(u) \in Seq(LineTexts) /\ Len(FileLines(u)) = k
      /\ \A i \in Nat : Rest(u)[i] # <<>> <=> i < k
      /\ \A i \in Nat : i < k => FileLines(u)[i + 1] = Fgets(Rest(u)[i])
  BY <1>4 DEF LinesRead
<1>7. ASSUME NEW i \in Nat, i < n
      PROVE  /\ Rest(s)[i] \in Characters /\ Rest(s)[i] # <<>> /\ Last(Fgets(Rest(s)[i])) = NL
             /\ Rest(s)[i + 1] = AfterFgets(Rest(s)[i])
  <2>1. Rest(s)[i] # <<>> /\ FileLines(s)[i + 1] = Fgets(Rest(s)[i]) /\ i + 1 \in 1 .. n
    BY <1>5, <1>7
  <2>2. Last(FileLines(s)[i + 1]) = NL
    BY <1>5, <2>1
  <2> QED
    BY <2>1, <2>2, RestFacts
<1> DEFINE S == {i \in Nat : i <= n => Rest(u)[i] = Rest(s)[i] \o t}
<1>8. 0 \in S
  BY <1>2, RestFacts DEF u
<1>9. ASSUME NEW i \in Nat, i \in S
      PROVE  i + 1 \in S
  <2> SUFFICES ASSUME i < n
               PROVE  Rest(u)[i + 1] = Rest(s)[i + 1] \o t
    BY <1>3
  <2>1. PICK r \in Characters :
          r = Rest(s)[i] /\ r # <<>> /\ Last(Fgets(r)) = NL /\ Rest(s)[i + 1] = AfterFgets(r)
    BY <1>7
  <2>2. Rest(u)[i] = r \o t
    BY <1>9, <2>1 DEF S
  <2>3. Rest(u)[i] # <<>> /\ AfterFgets(Rest(u)[i]) = AfterFgets(r) \o t
    BY <1>1, <2>1, <2>2, FgetsAppended
  <2> QED
    BY <1>2, <2>1, <2>3, RestFacts
<1> HIDE DEF S
<1>10. \A i \in Nat : i <= n => Rest(u)[i] = Rest(s)[i] \o t
  <2>1. Nat \subseteq S
    BY <1>8, <1>9, AllOf
  <2> QED
    BY <2>1 DEF S
<1>11. Rest(u)[n] = t /\ Rest(u)[n + 1] = <<>>
  <2>1. Rest(s)[n] = <<>> /\ Rest(u)[n] = Rest(s)[n] \o t
    BY <1>5, <1>10
  <2>2. <<>> \o t = t
    BY <1>1 DEF Characters
  <2> QED
    BY <1>1, <1>2, <2>1, <2>2, RestFacts
<1>12. k = n + 1
  <2>1. n < k /\ ~(n + 1 < k)
    BY <1>1, <1>6, <1>11
  <2> QED
    BY <2>1
<1>13. ASSUME NEW i \in 1 .. n
       PROVE  FileLines(u)[i] = FileLines(s)[i]
  <2>1. i - 1 \in Nat /\ i - 1 < n /\ i - 1 < k /\ i - 1 + 1 = i
    BY <1>12
  <2>2. Fgets(Rest(u)[i - 1]) = Fgets(Rest(s)[i - 1])
    <3>1. PICK r \in Characters : r = Rest(s)[i - 1] /\ r # <<>> /\ Last(Fgets(r)) = NL
      BY <1>7, <2>1
    <3>2. Fgets(r \o t) = Fgets(r)
      BY <1>1, <3>1, FgetsAppended
    <3>3. Rest(u)[i - 1] = r \o t
      <4>1. PICK h \in Nat : h = i - 1 /\ h <= n
        BY <2>1
      <4>2. Rest(u)[h] = Rest(s)[h] \o t
        BY <1>10, <4>1
      <4> QED
        BY <3>1, <4>1, <4>2
    <3> QED
      BY <3>1, <3>2, <3>3
  <2>3. FileLines(u)[i - 1 + 1] = Fgets(Rest(u)[i - 1]) /\ FileLines(s)[i - 1 + 1] = Fgets(Rest(s)[i - 1])
    BY <1>5, <1>6, <2>1
  <2> QED
    BY <2>1, <2>2, <2>3
<1>14. FileLines(u)[n + 1] = t
  BY <1>1, <1>6, <1>11, <1>12
<1>15. FileLines(u) = Append(FileLines(s), t)
  <2> DEFINE x == FileLines(u)
             y == FileLines(s)
  <2> HIDE DEF x, y
  <2>1. /\ x \in Seq(LineTexts) /\ Len(x) = n + 1 /\ y \in Seq(LineTexts) /\ Len(y) = n
        /\ \A i \in 1 .. n : x[i] = y[i]
        /\ x[n + 1] = t
    BY <1>5, <1>6, <1>12, <1>13, <1>14 DEF x, y
  <2>2. x = Append(y, t)
    BY <2>1
  <2> QED
    BY <2>2 DEF x, y
<1> QED
  BY <1>15 DEF u
-----------------------------------------------------------------------------
\* One text more is put after those that were joined before.
LEMMA FlattenAppend ==
  ASSUME NEW ts \in Seq(Characters), NEW t \in Characters
  PROVE  /\ FlattenSeq(<<>>) = <<>>
         /\ FlattenSeq(Append(ts, t)) = FlattenSeq(ts) \o t
<1> DEFINE Upto(f, x, n) == f = [i \in 1 .. n |-> IF i = 1 THEN x[i] ELSE f[i - 1] \o x[i]]
<1>1. ASSUME NEW x, NEW n \in Nat
      PROVE  \E f : Upto(f, x, n)
  <2> DEFINE S == {k \in Nat : \E f : Upto(f, x, k)}
  <2>1. 0 \in S
    <3>1. Upto(<<>>, x, 0)
      OBVIOUS
    <3> QED
      BY <3>1
  <2>2. ASSUME NEW k \in Nat, k \in S
        PROVE  k + 1 \in S
    <3>1. PICK f : Upto(f, x, k)
      BY <2>2
    <3> DEFINE h == [i \in 1 .. k + 1 |-> IF i # k + 1 THEN f[i]
                                          ELSE IF k = 0 THEN x[k + 1] ELSE f[k] \o x[k + 1]]
    <3>2. \A i \in 1 .. k + 1 : h[i] = IF i = 1 THEN x[i] ELSE h[i - 1] \o x[i]
      <4> TAKE i \in 1 .. k + 1
      <4>1. CASE i = k + 1 /\ k = 0
        BY <4>1
      <4>2. CASE i = k + 1 /\ k # 0
        <5>1. i - 1 = k /\ k \in 1 .. k + 1 /\ k # k + 1 /\ i # 1
          BY <4>2
        <5> QED
          BY <4>2, <5>1
      <4>3. CASE i # k + 1
        <5>1. i \in 1 .. k /\ (i # 1 => i - 1 \in 1 .. k + 1 /\ i - 1 # k + 1)
          BY <4>3
        <5>2. f[i] = IF i = 1 THEN x[i] ELSE f[i - 1] \o x[i]
          BY <3>1, <5>1
        <5> QED
          BY <4>3, <5>1, <5>2
      <4> QED
        BY <4>1, <4>2, <4>3
    <3>3. Upto(h, x, k + 1)
      BY <3>2
    <3> HIDE DEF Upto, h
    <3>4. \E z : Upto(z, x, k + 1)
      BY <3>3
    <3> QED
      BY <3>4
  <2> HIDE DEF S
  <2>3. Nat \subseteq S
    BY <2>1, <2>2, AllOf
  <2> QED
    BY <2>3 DEF S
<1> DEFINE F(x, n) == CHOOSE f : Upto(f, x, n)
<1>2. \A x, n : n \in Nat => Upto(F(x, n), x, n)
  <2> HIDE DEF Upto
  <2> QED
    BY <1>1
<1>3. \A x : FlattenSeq(x) = IF Len(x) = 0 THEN x ELSE F(x, Len(x))[Len(x)]
  BY DEF FlattenSeq
<1> HIDE DEF F
<1>4. FlattenSeq(<<>>) = <<>>
  BY <1>3
<1>5. PICK n \in Nat : n = Len(ts)
  OBVIOUS
<1> DEFINE us == Append(ts, t)
<1>6. /\ Len(us) = n + 1 /\ us[n + 1] = t
      /\ \A i \in 1 .. n : us[i] = ts[i]
  BY <1>5
<1> HIDE DEF us
<1>7. FlattenSeq(us) = F(us, n + 1)[n + 1]
  BY <1>3, <1>6
<1>8. CASE n = 0
  <2>1. F(us, 1)[1] = us[1]
    <3>1. Upto(F(us, 1), us, 1)
      BY <1>2
    <3> QED
      BY <3>1
  <2>2. ts = <<>>
    BY <1>5, <1>8, EmptySeq
  <2>3. <<>> \o t = t
    BY DEF Characters
  <2>4. FlattenSeq(us) = t
    BY <1>6, <1>7, <1>8, <2>1
  <2> QED
    BY <1>4, <2>2, <2>3, <2>4 DEF us
<1>9. CASE n # 0
  <2> DEFINE f == F(ts, n)
             g == F(us, n + 1)
  <2>1. Upto(f, ts, n) /\ Upto(g, us, n + 1)
    <3> HIDE DEF Upto
    <3>1. n + 1 \in Nat
      OBVIOUS
    <3> QED
      BY <1>2, <3>1
  <2> HIDE DEF f, g
  <2>2. \A i \in 1 .. n : f[i] = IF i = 1 THEN ts[i] ELSE f[i - 1] \o ts[i]
    BY <2>1
  <2>3. \A i \in 1 .. n + 1 : g[i] = IF i = 1 THEN us[i] ELSE g[i - 1] \o us[i]
    BY <2>1
  <2> DEFINE S == {i \in Nat : i \in 1 .. n => g[i] = f[i]}
  <2>4. 0 \in S
    OBVIOUS
  <2>5. ASSUME NEW i \in Nat, i \in S
        PROVE  i + 1 \in S
    <3> SUFFICES ASSUME i + 1 \in 1 .. n
                 PROVE  g[i + 1] = f[i + 1]
      OBVIOUS
    <3>1. f[i + 1] = IF i + 1 = 1 THEN ts[i + 1] ELSE f[i] \o ts[i + 1]
      BY <2>2
    <3>2. g[i + 1] = IF i + 1 = 1 THEN us[i + 1] ELSE g[i] \o us[i + 1]
      BY <2>3
    <3>3. us[i + 1] = ts[i + 1]
      BY <1>6
    <3>4. i + 1 # 1 => g[i] = f[i]
      BY <2>5
    <3> QED
      BY <3>1, <3>2, <3>3, <3>4
  <2> HIDE DEF S
  <2>6. g[n] = f[n]
    <3>1. n \in S /\ n \in 1 .. n
      BY <1>9, <2>4, <2>5, AllOf
    <3> QED
      BY <3>1 DEF S
  <2>7. g[n + 1] = g[n] \o t
    <3>1. n + 1 \in 1 .. n + 1 /\ n + 1 # 1 /\ n + 1 - 1 = n
      BY <1>9
    <3> DEFINE recursive(i) == g[i] = IF i = 1 THEN us[i] ELSE g[i - 1] \o us[i]
    <3>2. recursive(n + 1)
      <4>1. \A i \in 1 .. n + 1 : recursive(i)
        BY <2>3
      <4> HIDE DEF recursive
      <4> QED
        BY <3>1, <4>1
    <3> QED
      BY <1>6, <3>1, <3>2
  <2>8. FlattenSeq(ts) = f[n] /\ FlattenSeq(us) = g[n + 1]
    BY <1>3, <1>5, <1>7, <1>9 DEF f, g
  <2> QED
    BY <1>4, <2>6, <2>7, <2>8 DEF us
<1> QED
  BY <1>8, <1>9
-----------------------------------------------------------------------------
Terminated(lines) == \A i \in 1 .. Len(lines) : Last(lines[i].text) = NL

SavedUpTo(s, lines) ==
  /\ s = FlattenSeq(TextsOf(lines))
  /\ Terminated(lines) => FileLines(s) = TextsOf(lines)

Saved == mode = "save" => SavedUpTo(files[programName], passed)

LEMMA SaveBegins == SavedUpTo(<<>>, <<>>)
<1>1. TextsOf(<<>>) = <<>>
  BY DEF TextsOf
<1>2. <<>> \in Characters /\ <<>> \in Seq(Characters)
  BY DEF Characters
<1>3. FlattenSeq(<<>>) = <<>>
  BY <1>2, FlattenAppend
<1>4. FileLines(<<>>) = <<>>
  <2>1. PICK n \in Nat : LinesRead(<<>>, n)
    BY <1>2, FileLinesFacts
  <2>2. Rest(<<>>)[0] = <<>>
    BY <1>2, RestFacts
  <2>3. n = 0
    BY <2>1, <2>2 DEF LinesRead
  <2> QED
    BY <2>1, <2>3, EmptySeq DEF LinesRead
<1> QED
  BY <1>1, <1>3, <1>4 DEF SavedUpTo

LEMMA SaveGoesOn ==
  ASSUME NEW s \in Characters, NEW lines \in Seq(LineRecord), NEW l \in LineRecord, SavedUpTo(s, lines)
  PROVE  SavedUpTo(s \o l.text, Append(lines, l))
<1> DEFINE more == Append(lines, l)
           ts   == TextsOf(lines)
<1>1. PICK n \in Nat : n = Len(lines)
  OBVIOUS
<1>2. /\ more \in Seq(LineRecord) /\ Len(more) = n + 1 /\ more[n + 1] = l
      /\ \A i \in 1 .. n : more[i] = lines[i]
  BY <1>1
<1>3. /\ l.text \in LineTexts /\ l.text \in Characters
      /\ \A i \in 1 .. n : lines[i].text \in Characters
  <2>1. \A k \in LineRecord : k.text \in LineTexts
    BY LineFacts DEF LineTexts
  <2>2. \A i \in 1 .. n : lines[i] \in LineRecord
    BY <1>1
  <2> QED
    BY <2>1, <2>2, FgetsOfLine
<1>4. ts = [i \in 1 .. n |-> lines[i].text]
  BY <1>1 DEF TextsOf
<1> HIDE DEF more, ts
<1>5. ts \in Seq(Characters) /\ Len(ts) = n
  BY <1>3, <1>4
<1>6. TextsOf(more) = Append(ts, l.text)
  <2>1. TextsOf(more) = [i \in 1 .. n + 1 |-> more[i].text]
    BY <1>2 DEF TextsOf
  <2> DEFINE x == TextsOf(more)
             t == l.text
  <2>2. Len(x) = n + 1 /\ x[n + 1] = t /\ \A i \in 1 .. n : x[i] = ts[i]
    BY <1>2, <1>4, <2>1
  <2>3. x \in Seq(Characters)
    <3>1. \A i \in 1 .. n + 1 : more[i].text \in Characters
      BY <1>2, <1>3
    <3> QED
      BY <2>1, <3>1
  <2> HIDE DEF x, t
  <2>4. x = Append(ts, t)
    BY <1>5, <2>2, <2>3
  <2> QED
    BY <2>4 DEF x, t
<1>7. s \o l.text = FlattenSeq(TextsOf(more))
  BY <1>3, <1>5, <1>6, FlattenAppend DEF SavedUpTo, ts
<1>8. ASSUME Terminated(more)
      PROVE  FileLines(s \o l.text) = TextsOf(more)
  <2>1. Last(l.text) = NL /\ \A i \in 1 .. n : Last(lines[i].text) = NL
    <3>1. n + 1 \in 1 .. n + 1 /\ \A i \in 1 .. n : i \in 1 .. n + 1
      OBVIOUS
    <3>2. \A i \in 1 .. n + 1 : Last(more[i].text) = NL
      BY <1>2, <1>8 DEF Terminated
    <3> QED
      BY <1>2, <3>1, <3>2
  <2>2. FileLines(s) = ts
    BY <1>1, <2>1 DEF SavedUpTo, Terminated, ts
  <2>3. \A i \in 1 .. Len(FileLines(s)) : Last(FileLines(s)[i]) = NL
    BY <1>4, <1>5, <2>1, <2>2
  <2>4. FileLines(s \o l.text) = Append(FileLines(s), l.text)
    BY <1>3, <2>3, LineAppended
  <2> QED
    BY <1>6, <2>2, <2>4
<1> QED
  BY <1>7, <1>8 DEF SavedUpTo, more
-----------------------------------------------------------------------------
\* What SAVE has written, and what LOAD has entered, after each line.
FilesInv == Inv /\ Saved /\ Loaded

LEMMA SavedStep ==
  ASSUME Inv, Saved, Next, mode' = "save"
  PROVE  SavedUpTo(files'[programName'], passed')
<1>1. DoSave \/ (BufGetLine /\ mode = "save")
  BY DEF Next, EnterLine, DeleteLine, DoNew, DoRenum, DoList, DoSave, DoLoad, DoRun, Command,
         BufGetLine, EndOfBuffer, CompileError, LoadLine, EndOfFile
<1>2. CASE DoSave
  <2>1. mode = "command" /\ passed' = <<>>
    BY <1>2 DEF DoSave, Command, io, Inv, Given, Reading
  <2>2. files'[programName'] = <<>>
    BY <1>2, <2>1 DEF DoSave
  <2> QED
    BY <2>1, <2>2, SaveBegins
<1>3. CASE BufGetLine /\ mode = "save"
  <2>1. Reading /\ currentLine < Top
    BY <1>3 DEF BufGetLine, Reading
  <2>2. PICK k \in 0 .. Len(Program) : LineGiven(k)
    BY <2>1, LineRead
  <2>3. PICK l \in LineRecord : l = Program[k + 1]
    BY <2>2, LaidFacts DEF LineGiven, Inv
  <2>4. passed \in Seq(LineRecord) /\ passed' = Append(passed, l)
    <3>1. Program \in Seq(LineRecord)
      BY LaidFacts DEF Inv
    <3>2. SubSeq(Program, 1, k) \in Seq(LineRecord)
      BY <3>1
    <3> QED
      BY <1>3, <2>2, <2>3, <3>2 DEF LineGiven, BufGetLine
  <2>5. PICK s \in Characters : s = files[programName] /\ SavedUpTo(s, passed)
    BY <1>3 DEF Saved, Inv, Saving, FilesSound
  <2>6. files'[programName'] = s \o l.text
    <3>1. files' = [files EXCEPT ![programName] = @ \o Text(currentLine)] /\ programName' = programName
      BY <1>3 DEF BufGetLine
    <3>2. programName \in DOMAIN files /\ Text(currentLine) = l.text
      BY <1>3, <2>2, <2>3 DEF Inv, Saving, LineGiven
    <3> QED
      BY <2>5, <3>1, <3>2
  <2> QED
    BY <2>3, <2>4, <2>5, <2>6, SaveGoesOn
<1> QED
  BY <1>1, <1>2, <1>3

LEMMA LoadedStep ==
  ASSUME Inv, Loaded, Next, mode' = "load"
  PROVE  Loaded'
<1>1. DoLoad \/ LoadLine
  BY DEF Next, EnterLine, DeleteLine, DoNew, DoRenum, DoList, DoSave, DoLoad, DoRun, Command,
         BufGetLine, EndOfBuffer, CompileError, LoadLine, EndOfFile
<1>2. CASE DoLoad
  <2>1. /\ programName' \in DOMAIN files /\ BufNew
        /\ loading' = files[programName'] /\ lineNumber' = 100 /\ files' = files
    BY <1>2 DEF DoLoad, Command
  <2>2. PICK s \in Characters : s = files[programName']
    BY <2>1 DEF Inv, FilesSound
  <2>3. Program' = <<>> /\ buffer' = Top
    BY <2>1, NewStep DEF BufNew, Ordered!BufNew
  <2>4. LoadedUpTo(s, 0)'
    BY <2>1, <2>2, <2>3, LoadBegins
  <2>5. programName' \in DOMAIN files' /\ files'[programName'] = s
    BY <2>1, <2>2
  <2> QED
    BY <2>4, <2>5 DEF Loaded
<1>3. CASE LoadLine
  <2>1. mode = "load" /\ programName' = programName /\ files' = files
    BY <1>3 DEF LoadLine
  <2>2. PICK s \in Characters : s = files[programName] /\ programName \in DOMAIN files
    BY <2>1 DEF Loaded, Inv, FilesSound
  <2>3. PICK k \in Nat : LoadedUpTo(s, k)
    BY <2>1, <2>2 DEF Loaded
  <2>4. LoadedUpTo(s, k + 1)' /\ k + 1 \in Nat
    BY <1>3, <2>3, LoadGoesOn
  <2> QED
    BY <2>1, <2>2, <2>4 DEF Loaded
<1> QED
  BY <1>1, <1>2, <1>3

LEMMA FilesInvStep == FilesInv /\ [Next]_vars => FilesInv'
<1> SUFFICES ASSUME FilesInv, [Next]_vars
             PROVE  FilesInv'
  OBVIOUS
<1>1. Inv'
  BY NextStep DEF FilesInv, Step
<1>2. CASE UNCHANGED vars
  <2>1. Program' = Program
    BY <1>2, NothingEdited DEF FilesInv, Inv, vars, edit
  <2>2. Saved'
    BY <1>2 DEF FilesInv, Saved, vars
  <2>3. Loaded'
    BY <1>2, <2>1 DEF FilesInv, Loaded, LoadedUpTo, Placed, Complete, vars
  <2> QED
    BY <1>1, <2>2, <2>3 DEF FilesInv
<1>3. CASE Next
  <2>1. Saved'
    <3>1. mode' = "save" => SavedUpTo(files'[programName'], passed')
      BY <1>3, SavedStep DEF FilesInv
    <3> QED
      BY <3>1 DEF Saved, SavedUpTo, Terminated, TextsOf
  <2>2. Loaded'
    <3>1. CASE mode' = "load"
      BY <1>3, <3>1, LoadedStep DEF FilesInv
    <3>2. CASE mode' # "load"
      BY <3>2 DEF Loaded
    <3> QED
      BY <3>1, <3>2
  <2> QED
    BY <1>1, <2>1, <2>2 DEF FilesInv
<1> QED
  BY <1>2, <1>3

LEMMA FilesInvInit == Init => FilesInv
  BY InitInv DEF Init, FilesInv, Saved, Loaded

\* When SAVE ends, the file holds the text of the program, one line after the
\* other and nothing else, and if each line ends with its newline, reading the
\* file again finds exactly these lines.
THEOREM SavedFileCorrect == Spec => SavedFile
<1>1. ASSUME FilesInv, Next, mode = "save", mode' = "command"
      PROVE  /\ files'[programName] = FlattenSeq(TextsOf(Program))
             /\ (\A t \in Range(TextsOf(Program)) : Last(t) = NL) =>
                  FileLines(files'[programName]) = TextsOf(Program)
  <2>1. EndOfBuffer /\ passed = Program
    BY <1>1, AllRead DEF FilesInv
  <2>2. files' = files /\ SavedUpTo(files[programName], Program)
    BY <1>1, <2>1 DEF FilesInv, Saved, EndOfBuffer
  <2>3. (\A t \in Range(TextsOf(Program)) : Last(t) = NL) => Terminated(Program)
    <3>1. Program = [i \in 1 .. Len(Program) |-> Program[i]]
      BY <1>1, LaidFacts DEF FilesInv, Inv
    <3>2. \A i \in 1 .. Len(Program) : Program[i].text \in Range(TextsOf(Program))
      BY <3>1 DEF TextsOf, Range
    <3> QED
      BY <3>2 DEF Terminated
  <2> QED
    BY <2>2, <2>3 DEF SavedUpTo
<1>2. FilesInv /\ [Next]_vars =>
        [mode = "save" /\ mode' = "command" =>
           /\ files'[programName] = FlattenSeq(TextsOf(Program))
           /\ (\A t \in Range(TextsOf(Program)) : Last(t) = NL) =>
                FileLines(files'[programName]) = TextsOf(Program)]_vars
  BY <1>1
<1> QED
  BY <1>2, FilesInvInit, FilesInvStep, PTL DEF Spec, SavedFile

\* When LOAD ends, each line of the program is a line of the file, under the
\* number of its place there, and if the memory has room for the whole file none
\* is missing.
THEOREM LoadedFileCorrect == Spec => LoadedFile
<1> DEFINE lines == FileLines(files[programName])
           good == /\ \A l \in Range(Program) :
                        l.number % 10 = 0 /\ l.text = lines[(l.number - 90) \div 10]
                   /\ CellsOf(lines)[Len(lines)] <= Top - nextLow => Len(Program) = Len(lines)
<1>1. ASSUME FilesInv, Next, mode = "load", mode' = "command"
      PROVE  good
  <2>1. loading = <<>>
    BY <1>1 DEF Next, EnterLine, DeleteLine, DoNew, DoRenum, DoList, DoSave, DoLoad, DoRun, Command,
         BufGetLine, EndOfBuffer, CompileError, LoadLine, EndOfFile
  <2>2. PICK s \in Characters : s = files[programName]
    BY <1>1 DEF FilesInv, Loaded, Inv, FilesSound
  <2>3. PICK k \in Nat : LoadedUpTo(s, k)
    BY <1>1, <2>2 DEF FilesInv, Loaded
  <2>4. PICK n \in Nat : LinesRead(s, n)
    BY FileLinesFacts
  <2>5. k = n /\ Len(lines) = n
    BY <2>1, <2>2, <2>3, <2>4 DEF LoadedUpTo, LinesRead
  <2>6. ASSUME NEW l \in Range(Program)
        PROVE  l.number % 10 = 0 /\ l.text = lines[(l.number - 90) \div 10]
    <3>1. PICK j \in 1 .. Len(Program) : l = Program[j]
      <4>1. Program = [i \in 1 .. Len(Program) |-> Program[i]]
        BY <1>1, LaidFacts DEF FilesInv, Inv
      <4> QED
        BY <4>1 DEF Range
    <3>2. PICK i \in 1 .. k : l.number = 90 + 10 * i /\ l.text = FileLines(s)[i]
      BY <2>3, <3>1 DEF LoadedUpTo, Placed
    <3>3. l.number % 10 = 0 /\ (l.number - 90) \div 10 = i
      BY <3>2
    <3> QED
      BY <2>2, <3>2, <3>3
  <2>7. CellsOf(lines)[Len(lines)] <= Top - nextLow => Len(Program) = Len(lines)
    BY <2>2, <2>3, <2>5 DEF LoadedUpTo, Complete
  <2> QED
    BY <2>6, <2>7
<1>2. FilesInv /\ [Next]_vars => [mode = "load" /\ mode' = "command" => good]_vars
  BY <1>1
<1> QED
  BY <1>2, FilesInvInit, FilesInvStep, PTL DEF Spec, LoadedFile
=============================================================================
