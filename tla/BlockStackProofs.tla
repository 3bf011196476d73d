--------------------------- MODULE BlockStackProofs ---------------------------
(***************************************************************************)
(* Proofs about BlockStack, for every length of the block stack.            *)
(***************************************************************************)
EXTENDS BlockStack, SequenceTheorems, TLAPS

USE MaxBlocksAssumption

IInv == TypeOK /\ WellNested

\* The sequence a PopBlock leaves: one block shorter, the others in place.
LEMMA PopFacts ==
  ASSUME NEW s \in Seq(BlockType), Len(s) >= 1
  PROVE  /\ SubSeq(s, 1, Len(s) - 1) \in Seq(BlockType)
         /\ Len(SubSeq(s, 1, Len(s) - 1)) = Len(s) - 1
         /\ \A i \in 1 .. Len(s) - 1 : SubSeq(s, 1, Len(s) - 1)[i] = s[i]
<1> DEFINE n == Len(s) - 1
<1>1. n \in Int /\ n >= 0 /\ \A i \in 1 .. n : s[i] \in BlockType
  OBVIOUS
<1>2. /\ SubSeq(s, 1, n) \in Seq(BlockType)
      /\ Len(SubSeq(s, 1, n)) = IF 1 <= n THEN n - 1 + 1 ELSE 0
      /\ \A i \in 1 .. n - 1 + 1 : SubSeq(s, 1, n)[i] = s[1 + i - 1]
  <2> HIDE DEF n
  <2> QED
    BY <1>1, SubSeqProperties
<1>3. Len(SubSeq(s, 1, n)) = n
  <2>1. \A k \in Nat : (IF 1 <= k THEN k - 1 + 1 ELSE 0) = k
    OBVIOUS
  <2>2. n \in Nat
    BY <1>1
  <2> HIDE DEF n
  <2> QED
    BY <1>2, <2>1, <2>2
<1>4. \A i \in 1 .. n : i \in 1 .. n - 1 + 1 /\ 1 + i - 1 = i
  BY <1>1
<1> QED
  BY <1>2, <1>3, <1>4

\* The sequence a PushBlock leaves: one block longer, the others in place.
LEMMA PushFacts ==
  ASSUME NEW s \in Seq(BlockType), NEW type \in BlockType
  PROVE  /\ Append(s, type) \in Seq(BlockType)
         /\ Len(Append(s, type)) = Len(s) + 1
         /\ \A i \in 1 .. Len(s) : Append(s, type)[i] = s[i]
         /\ Append(s, type)[Len(s) + 1] = type
  OBVIOUS

\* What the innermost block's type says about the depth of the stack.
LEMMA TopFacts ==
  ASSUME IInv
  PROVE  /\ Top = "FUNCTION" => Len(blocks) = IF current = "nested" THEN 2 ELSE 1
         /\ Top # "FUNCTION" => Len(blocks) >= IF current = "nested" THEN 3 ELSE 2
<1>1. Len(blocks) \in Nat /\ Len(blocks) >= 1
  BY DEF IInv, TypeOK, WellNested
<1>2. current = "nested" => Len(blocks) >= 2
  BY DEF IInv, WellNested
<1>3. CASE Len(blocks) = 1
  <2>1. Top = "FUNCTION" /\ current # "nested"
    BY <1>2, <1>3 DEF IInv, WellNested, Top
  <2> QED
    BY <1>3, <2>1
<1>4. CASE Len(blocks) >= 2
  <2>1. Len(blocks) \in 2 .. Len(blocks)
    BY <1>1, <1>4
  <2>2. Top = "FUNCTION" <=> Len(blocks) = 2 /\ current = "nested"
    BY <2>1 DEF IInv, WellNested, Top
  <2>3. CASE Top = "FUNCTION"
    BY <2>2, <2>3
  <2>4. CASE Top # "FUNCTION"
    <3>1. current = "nested" => Len(blocks) # 2
      BY <2>2, <2>4
    <3>2. ASSUME current = "nested" PROVE Len(blocks) >= 3
      <4>1. \A n \in Nat : n >= 2 /\ n # 2 => n >= 3
        OBVIOUS
      <4> QED
        BY <1>1, <1>4, <3>1, <3>2, <4>1
    <3> QED
      BY <1>4, <2>4, <3>2
  <2> QED
    BY <2>3, <2>4
<1>5. Len(blocks) = 1 \/ Len(blocks) >= 2
  <2>1. \A n \in Nat : n >= 1 => n = 1 \/ n >= 2
    OBVIOUS
  <2> QED
    BY <1>1, <2>1
<1> QED
  BY <1>3, <1>4, <1>5

LEMMA InitIInv == Init => IInv
<1> SUFFICES ASSUME Init PROVE IInv
  OBVIOUS
<1>1. blocks \in Seq(BlockType) /\ Len(blocks) = 1 /\ blocks[1] = "FUNCTION"
  BY DEF Init, BlockType
<1> QED
  BY <1>1 DEF Init, IInv, TypeOK, WellNested

LEMMA StepIInv == IInv /\ [Next]_bvars => IInv'
<1> SUFFICES ASSUME IInv, [Next]_bvars PROVE IInv'
  OBVIOUS
<1> USE DEF IInv, TypeOK, WellNested
<1>1. CASE ParseFunction
  <2>1. Len(blocks) = 1
    BY <1>1, TopFacts DEF ParseFunction
  <2>2. "FUNCTION" \in BlockType
    BY DEF BlockType
  <2>3. blocks' = Append(blocks, "FUNCTION") /\ Len(blocks) < MaxBlocks
    BY <1>1 DEF ParseFunction, PushBlock
  <2>4. /\ blocks' \in Seq(BlockType)
        /\ Len(blocks') = 2
        /\ blocks'[1] = "FUNCTION" /\ blocks'[2] = "FUNCTION"
    <3>1. /\ blocks' \in Seq(BlockType)
          /\ Len(blocks') = Len(blocks) + 1
          /\ \A i \in 1 .. Len(blocks) : blocks'[i] = blocks[i]
          /\ blocks'[Len(blocks) + 1] = "FUNCTION"
      BY <2>2, <2>3, PushFacts
    <3>2. 1 + 1 = 2 /\ 1 \in 1 .. 1
      OBVIOUS
    <3>3. blocks[1] = "FUNCTION"
      OBVIOUS
    <3> QED
      BY <2>1, <3>1, <3>2, <3>3, Zenon
  <2>5. current' = "nested" /\ phase' = phase
    BY <1>1 DEF ParseFunction
  <2>6. Len(blocks') \in 1 .. MaxBlocks
    BY <2>1, <2>3, <2>4
  <2>7. \A i \in 2 .. Len(blocks') : i = 2
    BY <2>4
  <2> QED
    BY <2>4, <2>5, <2>6, <2>7
<1>2. CASE ParseEndFunction
  <2>1. Len(blocks) = 2
    BY <1>2, TopFacts DEF ParseEndFunction
  <2> QED
    BY <1>2, <2>1, PopFacts DEF ParseEndFunction, PopBlock
<1>3. ASSUME NEW type \in {"IF", "FOR", "DO", "DOTEST"}, OpenBlock(type)
      PROVE  IInv'
  <2>1. type \in BlockType /\ type # "FUNCTION"
    BY DEF BlockType
  <2>2. blocks' = Append(blocks, type) /\ current' = current /\ phase' = phase
    BY <1>3 DEF OpenBlock, PushBlock
  <2>3. /\ blocks' \in Seq(BlockType)
        /\ Len(blocks') = Len(blocks) + 1
        /\ \A i \in 1 .. Len(blocks) : blocks'[i] = blocks[i]
        /\ blocks'[Len(blocks) + 1] = type
    BY <2>1, <2>2, PushFacts
  <2>4. current = "nested" => Len(blocks) + 1 # 2
    OBVIOUS
  <2> QED
    BY <1>3, <2>1, <2>2, <2>3, <2>4 DEF OpenBlock, PushBlock
<1>4. CASE ParseElse
  <2>1. Len(blocks) >= 2 /\ blocks[Len(blocks)] = "IF"
    BY <1>4, TopFacts DEF ParseElse, Top
  <2>2. "ELSE" \in BlockType /\ "ELSE" # "FUNCTION"
    BY DEF BlockType
  <2> QED
    BY <1>4, <2>1, <2>2 DEF ParseElse
<1>5. ASSUME NEW types \in {{"IF", "ELSE"}, {"FOR"}, {"DO", "DOTEST"}, {"DO"}},
             CloseBlock(types)
      PROVE  IInv'
  <2>1. Top # "FUNCTION"
    BY <1>5 DEF CloseBlock
  <2>2. Len(blocks) >= 2 /\ (current = "nested" => Len(blocks) >= 3)
    BY <2>1, TopFacts
  <2> QED
    BY <1>5, <2>2, PopFacts DEF CloseBlock, PopBlock
<1>6. CASE Fail
  BY <1>6 DEF Fail
<1>7. CASE EndOfSource
  BY <1>7 DEF EndOfSource
<1>8. CASE UNCHANGED bvars
  BY <1>8 DEF bvars
<1> QED
  BY <1>1, <1>2, <1>3, <1>4, <1>5, <1>6, <1>7, <1>8 DEF Next

\* Every reachable state has a stack of blocks of the declared types.
THEOREM TypeCorrect == Spec => []TypeOK
<1>1. IInv => TypeOK
  BY DEF IInv
<1> QED
  BY InitIInv, StepIInv, <1>1, PTL DEF Spec

\* PopBlock never pops the main function's block, however statements are
\* ordered, and PushBlock never writes past the end of blockBuf.
THEOREM NestingCorrect == Spec => []WellNested
<1>1. IInv => WellNested
  BY DEF IInv
<1> QED
  BY InitIInv, StepIInv, <1>1, PTL DEF Spec

\* FUNCTION and END FUNCTION take effect only at the top level of the program.
THEOREM FunctionBoundaries == Spec => FunctionsOnlyAtTopLevel
<1>1. ASSUME IInv, [Next]_bvars
      PROVE  [current' # current => {Len(blocks), Len(blocks')} = {1, 2}]_bvars
  <2>0. blocks \in Seq(BlockType) /\ "FUNCTION" \in BlockType
    BY <1>1 DEF IInv, TypeOK, BlockType
  <2>1. CASE ParseFunction
    <3>1. Len(blocks) = 1
      BY <2>1, <1>1, TopFacts DEF ParseFunction
    <3> QED
      <4>1. blocks' = Append(blocks, "FUNCTION")
        BY <2>1 DEF ParseFunction, PushBlock
      <4>2. Len(blocks') = 2
        <5>1. 1 + 1 = 2
          OBVIOUS
        <5>2. Len(Append(blocks, "FUNCTION")) = Len(blocks) + 1
          BY <2>0, PushFacts
        <5> QED
          BY <3>1, <4>1, <5>1, <5>2, Zenon
      <4> QED
        BY <3>1, <4>2
  <2>2. CASE ParseEndFunction
    <3>1. Len(blocks) = 2
      BY <2>2, <1>1, TopFacts DEF ParseEndFunction
    <3> QED
      BY <2>0, <2>2, <3>1, PopFacts DEF ParseEndFunction, PopBlock
  <2>3. CASE current' = current
    BY <2>3
  <2> QED
    BY <1>1, <2>1, <2>2, <2>3
       DEF Next, OpenBlock, ParseElse, CloseBlock, Fail, EndOfSource, bvars
<1> QED
  BY InitIInv, StepIInv, <1>1, PTL DEF Spec, FunctionsOnlyAtTopLevel
=============================================================================
