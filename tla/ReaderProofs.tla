----------------------------- MODULE ReaderProofs -----------------------------
(***************************************************************************)
(* Proofs about Reader, for every set of files, whatever their lines say.   *)
(***************************************************************************)
EXTENDS Reader, SequenceTheorems, TLAPS

USE ReaderAssumption

ReaderInv == ReaderTypeOK /\ IncludedOnce /\ HandlesAccounted

\* The stack a PushFile leaves, and the one a PopFile leaves.
LEMMA PushFacts ==
  ASSUME NEW s \in Seq(ParseFile), NEW f \in ParseFile
  PROVE  /\ Append(s, f) \in Seq(ParseFile)
         /\ Len(Append(s, f)) = Len(s) + 1
         /\ \A i \in 1 .. Len(s) : Append(s, f)[i] = s[i]
         /\ Append(s, f)[Len(s) + 1] = f
  OBVIOUS

LEMMA PopFacts ==
  ASSUME NEW s \in Seq(ParseFile), s # <<>>
  PROVE  /\ Len(s) \in Nat \ {0}
         /\ SubSeq(s, 1, Len(s) - 1) \in Seq(ParseFile)
         /\ Len(SubSeq(s, 1, Len(s) - 1)) = Len(s) - 1
         /\ \A i \in 1 .. Len(s) - 1 : SubSeq(s, 1, Len(s) - 1)[i] = s[i]
<1>1. Len(s) \in Nat \ {0}
  BY EmptySeq
<1>2. \A i \in 1 .. Len(s) : s[i] \in ParseFile
  OBVIOUS
<1> DEFINE n == Len(s) - 1
<1>3. n \in Nat /\ n \in Int /\ \A i \in 1 .. n : s[i] \in ParseFile
  BY <1>1, <1>2
<1>4. /\ SubSeq(s, 1, n) \in Seq(ParseFile)
      /\ Len(SubSeq(s, 1, n)) = IF 1 <= n THEN n - 1 + 1 ELSE 0
      /\ \A i \in 1 .. n - 1 + 1 : SubSeq(s, 1, n)[i] = s[1 + i - 1]
  <2> HIDE DEF n
  <2> QED
    BY <1>3, SubSeqProperties
<1>5. (IF 1 <= n THEN n - 1 + 1 ELSE 0) = n
  <2> HIDE DEF n
  <2> QED
    BY <1>3
<1>6. \A i \in 1 .. n : i \in 1 .. n - 1 + 1 /\ 1 + i - 1 = i
  BY <1>3
<1> QED
  BY <1>1, <1>4, <1>5, <1>6

LEMMA AfterLineFacts ==
  ASSUME NEW f \in ParseFile
  PROVE  /\ AfterLine(f) \in ParseFile
         /\ AfterLine(f).name = f.name
         /\ AfterLine(f).fp = f.fp
         /\ AfterLine(f).lineNumber = f.lineNumber + 1
  BY DEF ParseFile, AfterLine

LEMMA ReplaceTop ==
  ASSUME NEW s \in Seq(ParseFile), s # <<>>, NEW e \in ParseFile
  PROVE  /\ [s EXCEPT ![Len(s)] = e] \in Seq(ParseFile)
         /\ Len([s EXCEPT ![Len(s)] = e]) = Len(s)
         /\ \A j \in 1 .. Len(s) : [s EXCEPT ![Len(s)] = e][j] = IF j = Len(s) THEN e ELSE s[j]
<1>1. Len(s) \in 1 .. Len(s)
  BY EmptySeq
<1> QED
  BY <1>1

\* The stack after a line of the innermost file: the same files and handles.
LEMMA LineFacts ==
  ASSUME NEW s \in Seq(ParseFile), s # <<>>, NEW t,
         t = [s EXCEPT ![Len(s)] = AfterLine(s[Len(s)])]
  PROVE  /\ t \in Seq(ParseFile)
         /\ Len(t) = Len(s)
         /\ \A i \in 1 .. Len(s) : t[i].name = s[i].name /\ t[i].fp = s[i].fp
         /\ \A i \in 1 .. Len(s) :
              t[i].lineNumber = IF i = Len(s) THEN s[i].lineNumber + 1 ELSE s[i].lineNumber
<1> DEFINE f == s[Len(s)]
           e == AfterLine(f)
<1>1. f \in ParseFile
  BY EmptySeq
<1>2. /\ e \in ParseFile
      /\ e.name = f.name
      /\ e.fp = f.fp
      /\ e.lineNumber = f.lineNumber + 1
  <2> HIDE DEF f
  <2> QED
    BY <1>1, AfterLineFacts, Zenon
<1>3. t = [s EXCEPT ![Len(s)] = e]
  OBVIOUS
<1> HIDE DEF e
<1>4. /\ t \in Seq(ParseFile)
      /\ Len(t) = Len(s)
      /\ \A j \in 1 .. Len(s) : t[j] = IF j = Len(s) THEN e ELSE s[j]
  <2>1. \A x \in ParseFile :
          /\ [s EXCEPT ![Len(s)] = x] \in Seq(ParseFile)
          /\ Len([s EXCEPT ![Len(s)] = x]) = Len(s)
          /\ \A j \in 1 .. Len(s) : [s EXCEPT ![Len(s)] = x][j] = IF j = Len(s) THEN x ELSE s[j]
    BY ReplaceTop
  <2> QED
    BY <1>2, <1>3, <2>1
<1>5. ASSUME NEW i \in 1 .. Len(s)
      PROVE  /\ t[i].name = s[i].name /\ t[i].fp = s[i].fp
             /\ t[i].lineNumber = IF i = Len(s) THEN s[i].lineNumber + 1 ELSE s[i].lineNumber
  <2>1. CASE i = Len(s)
    <3>1. t[i] = e
      BY <1>4, <2>1
    <3>2. s[i] = f
      BY <2>1
    <3> QED
      BY <1>2, <2>1, <3>1, <3>2
  <2>2. CASE i # Len(s)
    <3>1. t[i] = s[i]
      BY <1>4, <2>2
    <3> QED
      BY <2>2, <3>1
  <2> QED
    BY <2>1, <2>2
<1> QED
  BY <1>4, <1>5, Zenon

LEMMA InitInv == ReaderInit => ReaderInv
<1> SUFFICES ASSUME ReaderInit PROVE ReaderInv
  OBVIOUS
<1>1. currentFile = <<>> /\ Len(currentFile) = 0 /\ Handles = {}
  BY DEF ReaderInit, Handles
<1>2. program \in Programs /\ MainLines(program) \in Nat
  BY DEF ReaderInit
<1>3. ReaderTypeOK
  BY <1>1, <1>2 DEF ReaderInit, ReaderTypeOK
<1> QED
  BY <1>1, <1>3 DEF ReaderInit, ReaderInv, IncludedOnce, HandlesAccounted, AtPrompt

\* A step that leaves the stack and the files alone.
LEMMA KeepsStack ==
  ASSUME ReaderInv, UNCHANGED <<currentFile, includedFiles, open, opened, before>>,
         ReaderTypeOK', AtPrompt => AtPrompt', phase' = "done" => phase = "done" \/ open = before
  PROVE  ReaderInv'
<1>1. Handles' = Handles
  BY DEF Handles
<1> QED
  BY <1>1 DEF ReaderInv, IncludedOnce, HandlesAccounted

LEMMA StepInv == ReaderInv /\ [ReaderNext]_readerVars => ReaderInv'
<1> SUFFICES ASSUME ReaderInv, [ReaderNext]_readerVars PROVE ReaderInv'
  OBVIOUS
<1> USE DEF ReaderInv
<1>0. /\ currentFile \in Seq(ParseFile)
      /\ Len(currentFile) \in Nat
      /\ \A i \in 1 .. Len(currentFile) : currentFile[i] \in ParseFile
  BY DEF ReaderTypeOK
<1>1. ASSUME NEW p \in Edits(program), Run(p) PROVE ReaderInv'
  <2>0. p \in Programs
    BY DEF ReaderTypeOK
  <2>1. currentFile' = <<>> /\ Len(currentFile') = 0 /\ Handles' = {}
    BY <1>1 DEF Run, Handles
  <2>2. MainLines(p) \in Nat
    BY <2>0
  <2>3. ReaderTypeOK'
    BY <1>1, <2>0, <2>1, <2>2 DEF Run, ReaderTypeOK
  <2> QED
    BY <1>1, <2>1, <2>3 DEF Run, IncludedOnce, HandlesAccounted
<1>2. CASE GetLine
  <2>1. ReaderTypeOK'
    BY <1>2 DEF GetLine, ReaderTypeOK
  <2> QED
    BY <1>2, <2>1, KeepsStack DEF GetLine, AtPrompt
<1>3. ASSUME NEW outcome \in {"done", "failed"}, EndOfSource(outcome) PROVE ReaderInv'
  <2>1. ReaderTypeOK'
    BY <1>3 DEF EndOfSource, ReaderTypeOK
  <2>2. Handles = {}
    BY <1>3 DEF EndOfSource, Handles
  <2>3. open = before
    BY <1>3, <2>2 DEF EndOfSource, HandlesAccounted, AtPrompt
  <2> QED
    BY <1>3, <2>1, <2>3, KeepsStack DEF EndOfSource, AtPrompt
<1>4. CASE GetFileLine
  <2> DEFINE n == Len(currentFile)
  <2>1. currentFile' = [currentFile EXCEPT ![n] = AfterLine(currentFile[n])] /\ currentFile # <<>>
    BY <1>4 DEF GetFileLine, Top
  <2>2. /\ currentFile' \in Seq(ParseFile)
        /\ Len(currentFile') = n
        /\ \A i \in 1 .. n : currentFile'[i].name = currentFile[i].name
                             /\ currentFile'[i].fp = currentFile[i].fp
        /\ \A i \in 1 .. n : currentFile'[i].lineNumber =
                               IF i = n THEN currentFile[i].lineNumber + 1
                                        ELSE currentFile[i].lineNumber
    BY <1>0, <2>1, LineFacts
  <2>3. \A i \in 1 .. n : currentFile'[i].lineNumber <= FileLines[currentFile'[i].name]
    <3> SUFFICES ASSUME NEW i \in 1 .. n
                 PROVE  currentFile'[i].lineNumber <= FileLines[currentFile'[i].name]
      OBVIOUS
    <3>1. /\ currentFile[i].lineNumber \in Nat
          /\ currentFile[i].name \in Names
          /\ FileLines[currentFile[i].name] \in Nat
          /\ currentFile[i].lineNumber <= FileLines[currentFile[i].name]
      BY <1>0 DEF ReaderTypeOK, ParseFile
    <3>2. i = n => currentFile[i].lineNumber < FileLines[currentFile[i].name]
      BY <1>4 DEF GetFileLine, Top
    <3> QED
      BY <2>2, <3>1, <3>2
  <2>4. ReaderTypeOK'
    BY <1>4, <2>2, <2>3 DEF GetFileLine, ReaderTypeOK
  <2>5. Handles' = Handles
    BY <2>2 DEF Handles
  <2>6. /\ phase = "reading" /\ phase' = "line"
        /\ UNCHANGED <<includedFiles, open, before>>
    BY <1>4 DEF GetFileLine
  <2>7. IncludedOnce'
    BY <2>2, <2>6 DEF IncludedOnce, AtPrompt
  <2>8. HandlesAccounted'
    BY <2>2, <2>5, <2>6 DEF HandlesAccounted, AtPrompt
  <2> QED
    BY <2>4, <2>7, <2>8
<1>5. CASE PopFile
  <2> DEFINE n == Len(currentFile)
  <2>1. /\ currentFile # <<>> /\ phase = "reading" /\ ~AtPrompt
        /\ currentFile' = SubSeq(currentFile, 1, n - 1)
        /\ open' = open \ {currentFile[n].fp}
        /\ UNCHANGED <<phase, program, mainLine, includedFiles, opened, before, runs>>
    BY <1>5 DEF PopFile, Top, AtPrompt
  <2>2. /\ n \in Nat \ {0}
        /\ currentFile' \in Seq(ParseFile)
        /\ Len(currentFile') = n - 1
        /\ \A i \in 1 .. n - 1 : currentFile'[i] = currentFile[i]
    BY <1>0, <2>1, PopFacts
  <2>3. n \in 1 .. n /\ \A i \in 1 .. n - 1 : i \in 1 .. n /\ i # n
    BY <2>2
  <2>4. open = before \cup Handles /\ before \cap Handles = {}
    BY <2>1 DEF HandlesAccounted
  <2>5. currentFile[n].fp \in Handles
    BY <2>3 DEF Handles
  <2>6. Handles' = Handles \ {currentFile[n].fp}
    <3>1. \A i \in 1 .. n - 1 : currentFile[i].fp # currentFile[n].fp
      BY <2>3 DEF HandlesAccounted
    <3>2. \A i \in 1 .. n : i = n \/ i \in 1 .. n - 1
      BY <2>2
    <3>3. Handles' = {currentFile[i].fp : i \in 1 .. n - 1}
      BY <2>2 DEF Handles
    <3> QED
      BY <2>3, <3>1, <3>2, <3>3 DEF Handles
  <2>7. open' = before \cup Handles' /\ before \cap Handles' = {} /\ before \subseteq open'
    BY <2>1, <2>4, <2>5, <2>6
  <2>8. ReaderTypeOK'
    BY <2>1, <2>2, <2>3, <2>7 DEF ReaderTypeOK
  <2>9. IncludedOnce'
    BY <2>1, <2>2, <2>3 DEF IncludedOnce, AtPrompt
  <2>10. \A i, j \in 1 .. n - 1 : currentFile'[i].fp = currentFile'[j].fp => i = j
    BY <2>2, <2>3 DEF HandlesAccounted
  <2> QED
    BY <2>1, <2>2, <2>7, <2>8, <2>9, <2>10 DEF HandlesAccounted, AtPrompt
<1>6. CASE Statement
  <2>1. ReaderTypeOK'
    BY <1>6 DEF Statement, ReaderTypeOK
  <2> QED
    BY <1>6, <2>1, KeepsStack DEF Statement, AtPrompt
<1>7. CASE Error
  <2>1. ReaderTypeOK'
    BY <1>7 DEF Error, ReaderTypeOK
  <2> QED
    BY <1>7, <2>1, KeepsStack DEF Error, AtPrompt
<1>8. ASSUME NEW name \in Names, NEW space \in Space, PushFile(name, space) PROVE ReaderInv'
  <2> DEFINE n == Len(currentFile)
             f == [name |-> name, fp |-> opened + 1, lineNumber |-> 0]
  <2>0. phase = "line" /\ ~AtPrompt /\ UNCHANGED <<program, mainLine, before, runs>>
    BY <1>8 DEF PushFile, AtPrompt
  <2>1. CASE UNCHANGED <<currentFile, includedFiles, open, opened>> /\ phase' \in {"reading", "failed"}
    <3>1. ReaderTypeOK'
      BY <2>0, <2>1 DEF ReaderTypeOK
    <3> QED
      BY <2>0, <2>1, <3>1, KeepsStack DEF AtPrompt
  <2>2. CASE /\ includedFiles' = includedFiles \cup {name}
             /\ phase' = "failed"
             /\ UNCHANGED <<currentFile, open, opened>>
    <3>1. ReaderTypeOK'
      BY <2>0, <2>2 DEF ReaderTypeOK
    <3>2. Handles' = Handles
      BY <2>2 DEF Handles
    <3> QED
      BY <2>0, <2>2, <3>1, <3>2 DEF IncludedOnce, HandlesAccounted, AtPrompt
  <2>3. CASE name \notin includedFiles /\ includedFiles' = includedFiles \cup {name} /\ OpenFile(name, space)
    <3>1. /\ opened \in Nat /\ opened + 1 \in Nat
          /\ open \subseteq 1 .. opened
          /\ opened + 1 \notin open
          /\ open' = open \cup {opened + 1}
          /\ opened' = opened + 1
          /\ open' \subseteq 1 .. opened'
      <4>1. opened \in Nat /\ open \subseteq 1 .. opened
        BY DEF ReaderTypeOK
      <4>2. open' = open \cup {opened + 1} /\ opened' = opened + 1
        BY <2>3 DEF OpenFile
      <4> QED
        BY <4>1, <4>2
    <3>2. open = before \cup Handles /\ before \cap Handles = {} /\ opened + 1 \notin Handles
      BY <2>0, <3>1 DEF HandlesAccounted
    <3>3. CASE space = 2
      <4>1. f \in ParseFile /\ f.name = name /\ f.fp = opened + 1 /\ f.lineNumber = 0
        BY <3>1 DEF ParseFile
      <4>2. currentFile' = Append(currentFile, f) /\ phase' = "reading"
        BY <2>3, <3>3 DEF OpenFile
      <4>3. /\ currentFile' \in Seq(ParseFile)
            /\ Len(currentFile') = n + 1
            /\ \A i \in 1 .. n : currentFile'[i] = currentFile[i]
            /\ currentFile'[n + 1] = f
        <5> HIDE DEF f
        <5> QED
          BY <1>0, <4>1, <4>2, PushFacts
      <4>4. /\ n + 1 \in 1 .. n + 1
            /\ \A i \in 1 .. n + 1 : i = n + 1 \/ i \in 1 .. n
            /\ \A i \in 1 .. n : i \in 1 .. n + 1
        BY <1>0
      <4>5. \A i \in 1 .. n + 1 : currentFile'[i].lineNumber <= FileLines[currentFile'[i].name]
        <5>1. f.lineNumber <= FileLines[f.name]
          BY <4>1
        <5>2. \A i \in 1 .. n : currentFile[i].lineNumber <= FileLines[currentFile[i].name]
          BY DEF ReaderTypeOK
        <5> HIDE DEF f
        <5> QED
          BY <4>3, <4>4, <5>1, <5>2
      <4>6. ReaderTypeOK'
        BY <2>0, <2>3, <3>1, <4>2, <4>3, <4>5 DEF ReaderTypeOK
      <4>7. Handles' = Handles \cup {opened + 1}
        <5>1. Handles' = {currentFile'[i].fp : i \in 1 .. n + 1}
          BY <4>3 DEF Handles
        <5> HIDE DEF f
        <5> QED
          BY <4>1, <4>3, <4>4, <5>1 DEF Handles
      <4>8. open' = before \cup Handles' /\ before \cap Handles' = {}
        BY <3>1, <3>2, <4>7
      <4>9. \A i \in 1 .. n : currentFile[i].name # name /\ currentFile[i].fp # opened + 1
        BY <2>0, <2>3, <3>2 DEF IncludedOnce, Handles
      <4>10. IncludedOnce'
        <5>1. \A i, j \in 1 .. n + 1 : currentFile'[i].name = currentFile'[j].name => i = j
          <6> HIDE DEF f
          <6> QED
            BY <4>1, <4>3, <4>4, <4>9 DEF IncludedOnce
        <5>2. \A i \in 1 .. n + 1 : currentFile'[i].name \in includedFiles'
          <6> HIDE DEF f
          <6> QED
            BY <2>0, <2>3, <4>1, <4>3, <4>4 DEF IncludedOnce
        <5> QED
          BY <4>3, <5>1, <5>2 DEF IncludedOnce
      <4>11. \A i, j \in 1 .. n + 1 : currentFile'[i].fp = currentFile'[j].fp => i = j
        <5> HIDE DEF f
        <5> QED
          BY <4>1, <4>3, <4>4, <4>9 DEF HandlesAccounted
      <4> QED
        BY <2>0, <4>2, <4>3, <4>6, <4>8, <4>10, <4>11 DEF HandlesAccounted
    <3>4. CASE space # 2
      <4>1. phase' = "failed" /\ UNCHANGED currentFile
        BY <2>3, <3>4 DEF OpenFile
      <4>2. ReaderTypeOK'
        BY <2>0, <2>3, <3>1, <4>1 DEF ReaderTypeOK
      <4>3. Handles' = Handles
        BY <4>1 DEF Handles
      <4> QED
        BY <2>0, <2>3, <4>1, <4>2, <4>3 DEF IncludedOnce, HandlesAccounted, AtPrompt
    <3> QED
      BY <3>3, <3>4
  <2> QED
    BY <1>8, <2>1, <2>2, <2>3 DEF PushFile
<1>9. CASE UNCHANGED readerVars
  <2>1. Handles' = Handles
    BY <1>9 DEF readerVars, Handles
  <2> QED
    BY <1>9, <2>1 DEF readerVars, ReaderTypeOK, IncludedOnce, HandlesAccounted, AtPrompt
<1> QED
  BY <1>1, <1>2, <1>3, <1>4, <1>5, <1>6, <1>7, <1>8, <1>9 DEF ReaderNext, Reading

\* Every reachable state has the declared types: no file is read past its end, and
\* no file open before a RUN is closed by it.
THEOREM ReaderTypeCorrect == ReaderSpec => []ReaderTypeOK
<1>1. ReaderInv => ReaderTypeOK
  BY DEF ReaderInv
<1> QED
  BY InitInv, StepInv, <1>1, PTL DEF ReaderSpec

\* Files that include each other, or themselves, are each read once.
THEOREM NoFileInsideItself == ReaderSpec => []IncludedOnce
<1>1. ReaderInv => IncludedOnce
  BY DEF ReaderInv
<1> QED
  BY InitInv, StepInv, <1>1, PTL DEF ReaderSpec

\* Every open file is on the stack or was leaked by an earlier RUN, and a RUN that
\* reads its program to the end closes all it opened.
THEOREM HandlesCorrect == ReaderSpec => []HandlesAccounted
<1>1. ReaderInv => HandlesAccounted
  BY DEF ReaderInv
<1> QED
  BY InitInv, StepInv, <1>1, PTL DEF ReaderSpec
=============================================================================
