--------------------------- MODULE DisciplineProofs ---------------------------
(***************************************************************************)
(* Proofs about Discipline, for every size of the stack and of a word, every *)
(* image and every shape: code that is trusted keeps the frames of the calls *)
(* in progress, returns to its callers and never leaves its instructions;    *)
(* and any code, trusted or not, leaves words in the registers and the stack. *)
(***************************************************************************)
EXTENDS Discipline, ArithProofs

USE StackAssumption, WAssumption

LEMMA OpFacts ==
  /\ Op.HALT = 0 /\ Op.BRT = 1 /\ Op.BRTSC = 2 /\ Op.BRF = 3 /\ Op.BRFSC = 4 /\ Op.BR = 5
  /\ Op.NOT = 6 /\ Op.NEG = 7 /\ Op.ADD = 8 /\ Op.REM = 12 /\ Op.BNOT = 13 /\ Op.BAND = 14
  /\ Op.GT = 24 /\ Op.LIT = 25 /\ Op.SLIT = 26 /\ Op.LOAD = 27 /\ Op.LOADB = 28
  /\ Op.STORE = 29 /\ Op.STOREB = 30 /\ Op.LREF = 31 /\ Op.LSET = 32 /\ Op.INDEX = 33
  /\ Op.CALL = 34 /\ Op.FRAME = 35 /\ Op.RETURN = 36 /\ Op.DROP = 37 /\ Op.DUP = 38
  /\ Op.NATIVE = 39 /\ Op.TRAP = 40 /\ Op.RETURNZ = 41 /\ Op.CLEAN = 44
  BY DEF Op

LEMMA OpSets ==
  /\ UnaryOps = {7, 6, 13}
  /\ BinaryOps = 8 .. 12 \cup 14 .. 24
  /\ BranchOps = {1, 2, 3, 4, 5}
  /\ WordOps = {1, 2, 3, 4, 5, 25, 39}
  /\ ByteOps = {26, 31, 32, 35, 44, 40}
  BY OpFacts DEF UnaryOps, BinaryOps, BranchOps, WordOps, ByteOps

LEMMA TrapFacts ==
  /\ Trap.GetChar = 0 /\ Trap.PutChar = 1 /\ Trap.PrintStr = 2 /\ Trap.PrintInt = 3
  /\ Trap.PrintFlush = 6
  BY DEF Trap
-----------------------------------------------------------------------------
LEMMA ShapeFacts ==
  ASSUME WellFormed
  PROVE  /\ shape.main \in Entries /\ Entries \subseteq Addresses /\ Addresses \subseteq Nat
         /\ \A a \in Addresses :
              /\ At(a).entry \in Entries /\ At(a).depth \in Nat /\ At(a).arg \in Int
              /\ FrameOf(a) \in Nat /\ FrameOf(a) >= 1 /\ ArgsOf(a) \in Nat
         /\ \A f \in Entries :
              /\ At(f).op = Op.FRAME /\ At(f).entry = f /\ At(f).arg = FrameOf(f)
              /\ ArgsOf(f) = shape.functions[f].args
              /\ Reaches(f, Following(f), FrameOf(f))
         /\ \A a \in Addresses \ Entries : At(a).op # Op.FRAME /\ Disciplined(a)
<1>1. /\ shape.main \in Entries /\ Entries \subseteq Addresses /\ Addresses \subseteq Nat
      /\ \A a \in Addresses : At(a).entry \in Entries /\ At(a).depth \in Nat /\ At(a).arg \in Int
      /\ \A f \in Entries :
           /\ shape.functions[f].args \in Nat /\ FrameOf(f) \in Nat \ {0}
           /\ At(f).op = Op.FRAME /\ At(f).entry = f /\ At(f).arg = FrameOf(f)
           /\ Reaches(f, Following(f), FrameOf(f))
      /\ \A a \in Addresses \ Entries : Disciplined(a)
  BY DEF WellFormed
<1>2. \A f \in Entries : ArgsOf(f) = shape.functions[f].args
  BY <1>1 DEF ArgsOf
<1>3. \A a \in Addresses : FrameOf(a) = FrameOf(At(a).entry) /\ ArgsOf(a) = ArgsOf(At(a).entry)
  BY <1>1 DEF FrameOf, ArgsOf
<1>4. \A a \in Addresses : FrameOf(a) \in Nat /\ FrameOf(a) >= 1 /\ ArgsOf(a) \in Nat
  BY <1>1, <1>2, <1>3
<1>5. \A a \in Addresses \ Entries : At(a).op # Op.FRAME
  BY <1>1 DEF Disciplined
<1> QED
  BY <1>1, <1>2, <1>4, <1>5

\* Within a function the frame and the arguments are the same.
LEMMA ReachesFacts ==
  ASSUME NEW a, NEW b, NEW d, Reaches(a, b, d)
  PROVE  /\ b \in Addresses \ Entries /\ At(b).entry = At(a).entry /\ At(b).depth = d
         /\ FrameOf(b) = FrameOf(a) /\ ArgsOf(b) = ArgsOf(a)
         /\ At(b).op = Op.CALL => At(a).op = Op.LIT /\ Callable(At(a).arg, b, d)
  BY DEF Reaches, FrameOf, ArgsOf
-----------------------------------------------------------------------------
(***************************************************************************)
(* The invariant.  Call m of the calls in progress has its frame below       *)
(* Base(m) and goes on at Where(m).                                         *)
(***************************************************************************)
Base(m)  == calls[m].sp
Where(m) == IF m = Len(calls) THEN pc ELSE calls[m + 1].ret
Slot(m)  == Base(m) - FrameOf(Where(m)) - 1
Inside   == pc \notin Entries

CallRecord == [ret : Int \cup Garbage, fp : Int, sp : Int]

Typed ==
  /\ calls \in Seq(CallRecord) /\ Len(calls) >= 1
  /\ DOMAIN stack = 0 .. StackSize - 1
  /\ sp \in 0 .. StackSize

\* Every call is somewhere in a function, the first and no other in main.
Located ==
  \A m \in 1 .. Len(calls) :
    /\ Where(m) \in Addresses
    /\ m < Len(calls) => Where(m) \notin Entries /\ At(Where(m)).op # Op.CALL
    /\ At(Where(m)).entry = shape.main <=> m = 1

\* A call begins where its caller's operands end, of which its arguments are some.
Linked ==
  /\ Base(1) = StackSize /\ calls[1].fp = StackSize /\ calls[1].ret \in Garbage
  /\ \A m \in 2 .. Len(calls) :
       /\ calls[m].fp = Base(m - 1)
       /\ Base(m) = Base(m - 1) - At(calls[m].ret).depth
       /\ ArgsOf(Where(m)) + FrameOf(calls[m].ret) + 1 <= At(calls[m].ret).depth

\* Nothing a call may change is at or above the return address of an older one.
Apart ==
  \A l, m \in 1 .. Len(calls) :
    l < m => Base(m) + ArgsOf(Where(m)) <= Base(l) - FrameOf(Where(l)) - 1

Saved == \A m \in 1 .. Framed : stack[Base(m) - 1] = calls[m].fp

\* The return address is in tos until something is pushed.
Returns ==
  \A m \in 1 .. Framed :
    IF m = Len(calls) /\ At(pc).depth = FrameOf(pc)
    THEN tos = calls[m].ret ELSE stack[Slot(m)] = calls[m].ret

Registers ==
  IF Inside THEN fp = Base(Len(calls)) /\ sp = fp - At(pc).depth
  ELSE fp = calls[Len(calls)].fp /\ sp = Base(Len(calls)) /\ tos = calls[Len(calls)].ret

Calling == At(pc).op = Op.CALL => Callable(tos, pc, At(pc).depth)

Sound == Typed /\ Located /\ Linked /\ Apart /\ Saved /\ Returns /\ Registers /\ Calling

Inv == (Going => WellFormed /\ Intact /\ Sound) /\ BalancedAtHalt
-----------------------------------------------------------------------------
LEMMA TakesFacts ==
  ASSUME WellFormed, NEW a \in Addresses \ Entries
  PROVE  /\ Takes(At(a)) \in Nat /\ Gives(At(a)) \in {0, 1, 2}
         /\ At(a).depth >= FrameOf(a) + Takes(At(a))
<1>1. At(a).op = Op.CLEAN => At(a).arg \in Nat
  BY ShapeFacts DEF WellFormed
<1>2. Takes(At(a)) \in Nat
  BY <1>1 DEF Takes
<1>3. Gives(At(a)) \in {0, 1, 2}
  BY DEF Gives
<1>4. At(a).depth - Takes(At(a)) >= FrameOf(a)
  BY ShapeFacts DEF Disciplined
<1> QED
  BY <1>2, <1>3, <1>4, ShapeFacts

\* Where frames and return addresses are.
LEMMA Positions ==
  ASSUME WellFormed, Sound
  PROVE  /\ Len(calls) \in Nat /\ Len(calls) >= 1 /\ pc \in Addresses
         /\ Where(Len(calls)) = pc
         /\ \A m \in 1 .. Len(calls) :
              /\ Base(m) \in Int /\ calls[m].fp \in Int /\ Base(m) <= StackSize
              /\ Where(m) \in Addresses
              /\ FrameOf(Where(m)) \in Nat /\ FrameOf(Where(m)) >= 1
              /\ ArgsOf(Where(m)) \in Nat /\ Slot(m) \in Int /\ Slot(m) < Base(m) - 1
         /\ Inside => At(pc).depth \in Nat /\ At(pc).depth >= FrameOf(pc) /\ fp = Base(Len(calls))
                      /\ sp = Base(Len(calls)) - At(pc).depth
         /\ sp \in 0 .. StackSize /\ sp <= Base(Len(calls))
         /\ \A m \in 1 .. Len(calls) - 1 :
              /\ Base(Len(calls)) + ArgsOf(pc) <= Slot(m)
              /\ Slot(m) \in 0 .. StackSize - 1 /\ Base(m) - 1 \in 0 .. StackSize - 1
<1> USE DEF Sound
<1>1. /\ calls \in Seq(CallRecord) /\ Len(calls) \in Nat /\ Len(calls) >= 1 /\ sp \in 0 .. StackSize
  BY DEF Typed
<1>2. \A m \in 1 .. Len(calls) : calls[m] \in CallRecord
  BY <1>1
<1>3. \A m \in 1 .. Len(calls) : Base(m) \in Int /\ calls[m].fp \in Int
  BY <1>2 DEF CallRecord, Base
<1>4. Where(Len(calls)) = pc /\ Len(calls) \in 1 .. Len(calls)
  BY <1>1 DEF Where
<1>5. \A m \in 1 .. Len(calls) : Where(m) \in Addresses
  BY DEF Located
<1>6. pc \in Addresses
  BY <1>4, <1>5
<1>7. \A m \in 1 .. Len(calls) :
        /\ FrameOf(Where(m)) \in Nat /\ FrameOf(Where(m)) >= 1 /\ ArgsOf(Where(m)) \in Nat
        /\ Slot(m) \in Int /\ Slot(m) < Base(m) - 1
  BY <1>3, <1>5, ShapeFacts DEF Slot
<1>8. \A m \in 1 .. Len(calls) : Base(m) <= StackSize
  <2> TAKE m \in 1 .. Len(calls)
  <2>1. Base(1) = StackSize
    BY DEF Linked
  <2>2. 1 < m => Base(m) + ArgsOf(Where(m)) <= Base(1) - FrameOf(Where(1)) - 1
    BY <1>1 DEF Apart
  <2>3. 1 \in 1 .. Len(calls) /\ (1 < m \/ m = 1)
    BY <1>1
  <2> QED
    BY <1>3, <1>7, <2>1, <2>2, <2>3
<1>9. Inside => At(pc).depth \in Nat /\ At(pc).depth >= FrameOf(pc) /\ fp = Base(Len(calls))
                /\ sp = Base(Len(calls)) - At(pc).depth
  <2> SUFFICES ASSUME Inside
               PROVE  At(pc).depth \in Nat /\ At(pc).depth >= FrameOf(pc) /\ fp = Base(Len(calls))
                      /\ sp = Base(Len(calls)) - At(pc).depth
    OBVIOUS
  <2>1. pc \in Addresses \ Entries
    BY <1>6 DEF Inside
  <2>2. At(pc).depth \in Nat /\ FrameOf(pc) \in Nat
    BY <1>6, ShapeFacts
  <2>3. At(pc).depth >= FrameOf(pc)
    BY <2>1, <2>2, TakesFacts
  <2> QED
    BY <2>2, <2>3 DEF Registers
<1>10. sp <= Base(Len(calls))
  <2>1. CASE Inside
    BY <1>1, <1>3, <1>4, <1>9, <2>1
  <2>2. CASE ~Inside
    BY <1>1, <2>2 DEF Registers
  <2> QED
    BY <2>1, <2>2
<1>11. \A m \in 1 .. Len(calls) - 1 :
         /\ Base(Len(calls)) + ArgsOf(pc) <= Slot(m)
         /\ Slot(m) \in 0 .. StackSize - 1 /\ Base(m) - 1 \in 0 .. StackSize - 1
  <2> TAKE m \in 1 .. Len(calls) - 1
  <2>1. m \in 1 .. Len(calls) /\ m < Len(calls) /\ Len(calls) \in 1 .. Len(calls)
    BY <1>1
  <2>2. Base(Len(calls)) + ArgsOf(pc) <= Slot(m)
    BY <1>4, <2>1 DEF Apart, Slot
  <2>3. 0 <= Base(Len(calls)) /\ ArgsOf(pc) \in Nat
    BY <1>1, <1>3, <1>4, <1>7, <1>10, <2>1
  <2>4. /\ Slot(m) \in Int /\ Slot(m) < Base(m) - 1 /\ Base(m) \in Int /\ Base(m) <= StackSize
        /\ Base(Len(calls)) \in Int
    BY <1>3, <1>7, <1>8, <2>1
  <2> QED
    BY <2>2, <2>3, <2>4
<1> QED
  BY <1>1, <1>3, <1>4, <1>5, <1>6, <1>7, <1>8, <1>9, <1>10, <1>11

\* Control moves within a function: what it may not disturb is as it was.
MovedTo(d) ==
  /\ Inside /\ Reaches(pc, pc', d)
  /\ shape' = shape /\ calls' = calls
  /\ fp' = fp /\ sp' = fp - d /\ sp' \in 0 .. StackSize
  /\ DOMAIN stack' = 0 .. StackSize - 1
  /\ \A m \in 1 .. Len(calls) : stack'[Base(m) - 1] = stack[Base(m) - 1]
  /\ \A m \in 1 .. Len(calls) - 1 : stack'[Slot(m)] = stack[Slot(m)]
  /\ IF d = FrameOf(pc) THEN tos' = calls[Len(calls)].ret
     ELSE stack'[Slot(Len(calls))] = calls[Len(calls)].ret
  /\ At(pc').op = Op.CALL => tos' = At(pc).arg

LEMMA Moved ==
  ASSUME WellFormed, Sound, NEW d, MovedTo(d)
  PROVE  Sound'
<1> USE DEF Sound
<1> DEFINE k == Len(calls)
<1>1. /\ shape' = shape /\ calls' = calls /\ Inside /\ Reaches(pc, pc', d)
      /\ fp' = fp /\ sp' = fp - d /\ sp' \in 0 .. StackSize
      /\ DOMAIN stack' = 0 .. StackSize - 1
  BY DEF MovedTo
<1>2. /\ pc' \in Addresses \ Entries /\ At(pc').entry = At(pc).entry /\ At(pc').depth = d
      /\ FrameOf(pc') = FrameOf(pc) /\ ArgsOf(pc') = ArgsOf(pc)
      /\ At(pc').op = Op.CALL => Callable(At(pc).arg, pc', d)
  BY <1>1, ReachesFacts
<1>3. /\ k \in Nat /\ k >= 1 /\ Where(k) = pc
  BY Positions
<1>4. /\ Addresses' = Addresses /\ Entries' = Entries /\ shape.main' = shape.main
      /\ \A m : Where(m)' = IF m = k THEN pc' ELSE Where(m)
      /\ \A m : Base(m)' = Base(m)
      /\ Framed' = k /\ Framed = k
  BY <1>1, <1>2 DEF Addresses, Entries, Where, Base, Framed, Inside
<1>5. \A m \in 1 .. k :
        /\ At(Where(m))'.entry = At(Where(m)).entry
        /\ FrameOf(Where(m))' = FrameOf(Where(m)) /\ ArgsOf(Where(m))' = ArgsOf(Where(m))
        /\ Slot(m)' = Slot(m)
  BY <1>1, <1>2, <1>3, <1>4 DEF At, FrameOf, ArgsOf, Slot
<1>6. Typed'
  BY <1>1, <1>3 DEF Typed
<1>7. Located'
  <2>1. \A m \in 1 .. k : m < k => Where(m)' = Where(m) /\ At(Where(m))'.op = At(Where(m)).op
    BY <1>1, <1>3, <1>4 DEF At
  <2> QED
    BY <1>1, <1>2, <1>3, <1>4, <1>5, <2>1 DEF Located
<1>8. Linked'
  <2>1. \A m \in 2 .. k : At(calls[m].ret)' = At(calls[m].ret) /\ FrameOf(calls[m].ret)' = FrameOf(calls[m].ret)
    BY <1>1 DEF At, FrameOf
  <2> QED
    BY <1>1, <1>4, <1>5, <2>1 DEF Linked
<1>9. Apart'
  BY <1>1, <1>4, <1>5 DEF Apart
<1>10. Saved'
  BY <1>1, <1>4 DEF Saved, MovedTo
<1>11. Returns'
  <2> SUFFICES ASSUME NEW m \in 1 .. k
               PROVE  (IF m = Len(calls) /\ At(pc).depth = FrameOf(pc)
                       THEN tos = calls[m].ret ELSE stack[Slot(m)] = calls[m].ret)'
    BY <1>4 DEF Returns
  <2>1. At(pc)'.depth = d /\ FrameOf(pc)' = FrameOf(pc)
    BY <1>1, <1>2 DEF At, FrameOf
  <2>2. CASE m = k
    BY <1>1, <1>4, <1>5, <2>1, <2>2 DEF MovedTo
  <2>3. CASE m # k
    <3>1. m \in 1 .. k - 1
      BY <1>3, <2>3
    <3>2. stack[Slot(m)] = calls[m].ret
      BY <1>3, <1>4, <2>3 DEF Returns
    <3> QED
      BY <1>1, <1>5, <2>3, <3>1, <3>2 DEF MovedTo
  <2> QED
    BY <2>2, <2>3
<1>12. Registers'
  <2>1. fp = Base(k)
    BY <1>1 DEF Registers
  <2>2. Inside' /\ At(pc)'.depth = d
    BY <1>1, <1>2, <1>4 DEF Inside, At
  <2> QED
    BY <1>1, <1>4, <2>1, <2>2 DEF Registers
<1>13. Calling'
  <2>1. At(pc)' = At(pc')
    BY <1>1 DEF At
  <2>2. \A f : Callable(f, pc', d) => Callable(f, pc, d)'
    BY <1>1 DEF Callable, FrameOf, At, Entries
  <2> QED
    BY <1>1, <1>2, <2>1, <2>2 DEF Calling, MovedTo
<1> QED
  BY <1>6, <1>7, <1>8, <1>9, <1>10, <1>11, <1>12, <1>13

\* Where control is.
LEMMA Here ==
  ASSUME WellFormed, Sound, Inside
  PROVE  /\ Len(calls) \in Nat /\ Len(calls) >= 1 /\ pc \in Addresses /\ Where(Len(calls)) = pc
         /\ fp = Base(Len(calls)) /\ sp = fp - At(pc).depth /\ At(pc).depth >= FrameOf(pc)
         /\ fp \in Int /\ fp <= StackSize /\ At(pc).depth \in Nat
         /\ FrameOf(pc) \in Nat /\ FrameOf(pc) >= 1 /\ sp \in 0 .. StackSize /\ ArgsOf(pc) \in Nat
         /\ Slot(Len(calls)) = fp - FrameOf(pc) - 1
         /\ IF At(pc).depth = FrameOf(pc) THEN tos = calls[Len(calls)].ret
            ELSE stack[Slot(Len(calls))] = calls[Len(calls)].ret
<1>1. /\ Len(calls) \in Nat /\ Len(calls) >= 1 /\ pc \in Addresses /\ Where(Len(calls)) = pc
      /\ fp = Base(Len(calls)) /\ sp = fp - At(pc).depth /\ At(pc).depth >= FrameOf(pc)
      /\ fp \in Int /\ fp <= StackSize /\ At(pc).depth \in Nat /\ sp \in 0 .. StackSize
  BY Positions
<1>2. FrameOf(pc) \in Nat /\ FrameOf(pc) >= 1 /\ ArgsOf(pc) \in Nat
  BY <1>1, Positions
<1>3. Slot(Len(calls)) = fp - FrameOf(pc) - 1
  BY <1>1 DEF Slot
<1>4. IF At(pc).depth = FrameOf(pc) THEN tos = calls[Len(calls)].ret
      ELSE stack[Slot(Len(calls))] = calls[Len(calls)].ret
  BY <1>1 DEF Sound, Returns, Framed, Inside
<1> QED
  BY <1>1, <1>2, <1>3, <1>4

\* Nothing is written, and operands only go away.
LEMMA Quiet ==
  ASSUME WellFormed, Sound, Inside, NEW d \in Int, Reaches(pc, pc', d),
         FrameOf(pc) <= d, d <= At(pc).depth,
         shape' = shape, calls' = calls, fp' = fp, stack' = stack, sp' = fp - d,
         d = FrameOf(pc) =>
           tos' = IF At(pc).depth = FrameOf(pc) THEN tos ELSE stack[Slot(Len(calls))],
         At(pc).op # Op.LIT
  PROVE  Sound'
<1>1. /\ Len(calls) \in Nat /\ Len(calls) >= 1 /\ pc \in Addresses /\ Where(Len(calls)) = pc
      /\ fp = Base(Len(calls)) /\ sp = fp - At(pc).depth
      /\ fp \in Int /\ fp <= StackSize /\ At(pc).depth \in Nat
      /\ FrameOf(pc) \in Nat /\ sp \in 0 .. StackSize
  BY Here
<1>2. sp' \in 0 .. StackSize
  BY <1>1
<1>3. IF At(pc).depth = FrameOf(pc) THEN tos = calls[Len(calls)].ret
      ELSE stack[Slot(Len(calls))] = calls[Len(calls)].ret
  BY Here
<1>4. IF d = FrameOf(pc) THEN tos' = calls[Len(calls)].ret
      ELSE stack'[Slot(Len(calls))] = calls[Len(calls)].ret
  BY <1>1, <1>3
<1>5. At(pc').op # Op.CALL
  BY ReachesFacts
<1>6. DOMAIN stack' = 0 .. StackSize - 1
  BY DEF Sound, Typed
<1>7. MovedTo(d)
  BY <1>2, <1>4, <1>5, <1>6 DEF MovedTo
<1> QED
  BY <1>7, Moved

\* tos is pushed.
PushedTo(d) ==
  /\ Inside /\ Reaches(pc, pc', d) /\ d = At(pc).depth + 1
  /\ shape' = shape /\ calls' = calls /\ fp' = fp /\ sp >= 1 /\ sp' = sp - 1
  /\ stack' = [stack EXCEPT ![sp - 1] = tos]
  /\ At(pc).op = Op.LIT => tos' = At(pc).arg

LEMMA Pushed ==
  ASSUME WellFormed, Sound, NEW d, PushedTo(d)
  PROVE  Sound'
<1> DEFINE k == Len(calls)
           depth == At(pc).depth
           frame == FrameOf(pc)
           args == ArgsOf(pc)
<1>1. /\ k \in Nat /\ k >= 1 /\ pc \in Addresses /\ Where(k) = pc
      /\ fp = Base(k) /\ sp = fp - depth /\ depth >= frame
      /\ fp \in Int /\ fp <= StackSize /\ depth \in Nat
      /\ frame \in Nat /\ frame >= 1 /\ sp \in 0 .. StackSize /\ args \in Nat
      /\ Slot(k) = fp - frame - 1
      /\ IF depth = frame THEN tos = calls[k].ret ELSE stack[Slot(k)] = calls[k].ret
  BY Here DEF PushedTo
<1>3. /\ sp >= 1 /\ sp' = sp - 1 /\ stack' = [stack EXCEPT ![sp - 1] = tos] /\ d = depth + 1
  BY DEF PushedTo
<1> HIDE DEF depth, frame, args
<1>4. /\ sp - 1 \in 0 .. StackSize - 1 /\ sp' \in 0 .. StackSize
      /\ sp' = fp - d /\ d # frame
      /\ fp - 1 \in 0 .. StackSize - 1 /\ fp - 1 # sp - 1
      /\ Slot(k) \in 0 .. StackSize - 1 /\ (Slot(k) = sp - 1 <=> depth = frame)
  <2> HIDE DEF k
  <2> QED
    BY <1>1, <1>3
<1>5. DOMAIN stack' = 0 .. StackSize - 1
  BY <1>3 DEF Sound, Typed
<1>6. \A x \in 0 .. StackSize - 1 : stack'[x] = IF x = sp - 1 THEN tos ELSE stack[x]
  BY <1>3, <1>4 DEF Sound, Typed
<1>7. \A m \in 1 .. k - 1 : stack'[Slot(m)] = stack[Slot(m)] /\ stack'[Base(m) - 1] = stack[Base(m) - 1]
  <2> TAKE m \in 1 .. k - 1
  <2>1. /\ Base(k) + args <= Slot(m)
        /\ Slot(m) \in 0 .. StackSize - 1 /\ Base(m) - 1 \in 0 .. StackSize - 1
    BY Positions DEF args
  <2>2. m \in 1 .. k
    BY <1>1
  <2>3. Slot(m) < Base(m) - 1 /\ Base(m) \in Int /\ Slot(m) \in Int
    BY <2>2, Positions
  <2>4. sp - 1 # Slot(m) /\ sp - 1 # Base(m) - 1
    <3> HIDE DEF k
    <3> QED
      BY <1>1, <2>1, <2>3
  <2> QED
    BY <1>6, <2>1, <2>4
<1>8. stack'[Base(k) - 1] = stack[Base(k) - 1]
  BY <1>1, <1>4, <1>6
<1>9. stack'[Slot(k)] = calls[k].ret
  BY <1>1, <1>4, <1>6
<1>10. At(pc').op = Op.CALL => tos' = At(pc).arg
  BY ReachesFacts DEF PushedTo
<1>11. \A m \in 1 .. k : stack'[Base(m) - 1] = stack[Base(m) - 1]
  <2> TAKE m \in 1 .. k
  <2>1. m = k \/ m \in 1 .. k - 1
    BY <1>1
  <2> QED
    BY <1>7, <1>8, <2>1
<1>12. MovedTo(d)
  BY <1>4, <1>5, <1>7, <1>9, <1>10, <1>11 DEF MovedTo, PushedTo, frame
<1> QED
  BY <1>12, Moved
-----------------------------------------------------------------------------
(***************************************************************************)
(* The instructions.                                                        *)
(***************************************************************************)
LEMMA Effects ==
  ASSUME NEW i
  PROVE  /\ i.op \in UnaryOps \cup {Op.LOAD, Op.LOADB, Op.CALL} => Takes(i) = 1 /\ Gives(i) = 1
         /\ i.op \in BinaryOps \cup {Op.INDEX} => Takes(i) = 2 /\ Gives(i) = 1
         /\ i.op \in {Op.STORE, Op.STOREB} => Takes(i) = 2 /\ Gives(i) = 0
         /\ i.op \in {Op.LSET, Op.DROP, Op.BRT, Op.BRF, Op.BRTSC, Op.BRFSC, Op.RETURN} =>
              Takes(i) = 1 /\ Gives(i) = 0
         /\ i.op \in {Op.LIT, Op.SLIT, Op.LREF} => Takes(i) = 0 /\ Gives(i) = 1
         /\ i.op = Op.DUP => Takes(i) = 1 /\ Gives(i) = 2
         /\ i.op \in {Op.BR, Op.HALT, Op.NATIVE, Op.RETURNZ} => Takes(i) = 0 /\ Gives(i) = 0
         /\ i.op = Op.CLEAN => Takes(i) = i.arg + 1 /\ Gives(i) = 1
         /\ i.op = Op.TRAP /\ i.arg = Trap.GetChar => Takes(i) = 0 /\ Gives(i) = 1
         /\ i.op = Op.TRAP /\ i.arg \in 1 .. 3 => Takes(i) = 1 /\ Gives(i) = 0
         /\ i.op = Op.TRAP /\ i.arg \in 4 .. 6 => Takes(i) = 0 /\ Gives(i) = 0
  BY OpFacts, OpSets, TrapFacts DEF Takes, Gives, PrintingTraps

\* What is known before an instruction that is not a FRAME.
Ready ==
  /\ Going /\ WellFormed /\ Intact /\ Sound /\ Inside
  /\ pc \in Addresses /\ shape' = shape

LEMMA Decoded ==
  ASSUME pc \in Addresses, Intact
  PROVE  /\ Fetch = At(pc).op /\ NextPc = Following(pc)
         /\ Fetch \in WordOps => WordArg = At(pc).arg
         /\ Fetch \in ByteOps => ByteArg = At(pc).arg
<1>1. Fetch = At(pc).op /\ Argument(mem, pc) = At(pc).arg
  BY DEF Intact, Fetch
<1>2. Fetch \in WordOps => Argument(mem, pc) = WordArg
  BY DEF Argument, Fetch, WordArg
<1>3. Fetch \in ByteOps => Fetch \notin WordOps
  BY OpSets
<1>4. Fetch \in ByteOps => Argument(mem, pc) = ByteArg
  BY <1>3 DEF Argument, Fetch, ByteArg
<1> QED
  BY <1>1, <1>2, <1>4 DEF NextPc, Following

LEMMA ReadyFacts ==
  ASSUME Ready
  PROVE  /\ Fetch = At(pc).op /\ NextPc = Following(pc)
         /\ Fetch \in WordOps => WordArg = At(pc).arg
         /\ Fetch \in ByteOps => ByteArg = At(pc).arg
         /\ At(pc).depth \in Nat /\ FrameOf(pc) \in Nat /\ FrameOf(pc) >= 1 /\ At(pc).arg \in Int
         /\ Takes(At(pc)) \in Nat /\ At(pc).depth >= FrameOf(pc) + Takes(At(pc))
         /\ DepthAfter(pc) = At(pc).depth - Takes(At(pc)) + Gives(At(pc))
         /\ fp \in Int /\ sp = fp - At(pc).depth /\ sp \in Int
         /\ Slot(Len(calls)) = fp - FrameOf(pc) - 1
         /\ Fetch \notin {Op.HALT, Op.BR, Op.RETURN, Op.RETURNZ} =>
              Reaches(pc, NextPc, DepthAfter(pc))
         /\ Fetch \in BranchOps =>
              Reaches(pc, NextPc + WordArg,
                      IF Fetch \in {Op.BRTSC, Op.BRFSC} THEN At(pc).depth ELSE DepthAfter(pc))
<1> USE DEF Ready
<1>1. pc \in Addresses \ Entries /\ Disciplined(pc)
  BY ShapeFacts DEF Inside
<1>2. /\ Fetch = At(pc).op /\ NextPc = Following(pc)
      /\ Fetch \in WordOps => WordArg = At(pc).arg
      /\ Fetch \in ByteOps => ByteArg = At(pc).arg
  BY Decoded
<1>3. BranchOps \subseteq WordOps
  BY OpSets
<1>4. /\ At(pc).op \in BranchOps =>
           Reaches(pc, Following(pc) + At(pc).arg,
                   IF At(pc).op \in {Op.BRTSC, Op.BRFSC} THEN At(pc).depth ELSE DepthAfter(pc))
      /\ At(pc).op \notin {Op.HALT, Op.BR, Op.RETURN, Op.RETURNZ} =>
           Reaches(pc, Following(pc), DepthAfter(pc))
  BY <1>1 DEF Disciplined
<1>5. /\ At(pc).depth \in Nat /\ FrameOf(pc) \in Nat /\ FrameOf(pc) >= 1 /\ At(pc).arg \in Int
      /\ Takes(At(pc)) \in Nat /\ At(pc).depth >= FrameOf(pc) + Takes(At(pc))
  BY <1>1, ShapeFacts, TakesFacts
<1>6. /\ fp \in Int /\ sp = fp - At(pc).depth /\ sp \in Int
      /\ Slot(Len(calls)) = fp - FrameOf(pc) - 1
  BY Positions DEF Slot
<1> QED
  BY <1>2, <1>3, <1>4, <1>5, <1>6 DEF DepthAfter

\* An instruction that writes nothing to the stack and removes n words.
RemovedTo(n) ==
  /\ n \in Nat /\ FrameOf(pc) + n <= At(pc).depth /\ Reaches(pc, pc', At(pc).depth - n)
  /\ fp' = fp /\ stack' = stack /\ sp' = sp + n /\ At(pc).op # Op.LIT
  /\ At(pc).depth - n = FrameOf(pc) => tos' = IF n = 0 THEN tos ELSE stack[sp + n - 1]

LEMMA Removes ==
  ASSUME Ready, calls' = calls, NEW n, RemovedTo(n)
  PROVE  Sound'
<1> DEFINE depth == At(pc).depth
           frame == FrameOf(pc)
<1>1. /\ WellFormed /\ Sound /\ Inside /\ shape' = shape
      /\ fp \in Int /\ sp = fp - depth /\ sp \in Int /\ depth \in Nat /\ frame \in Nat
      /\ Slot(Len(calls)) = fp - frame - 1
  BY ReadyFacts DEF Ready
<1>2. /\ n \in Nat /\ frame + n <= depth /\ Reaches(pc, pc', depth - n)
      /\ fp' = fp /\ stack' = stack /\ sp' = sp + n /\ At(pc).op # Op.LIT
      /\ depth - n = frame => tos' = IF n = 0 THEN tos ELSE stack[sp + n - 1]
  BY DEF RemovedTo
<1> HIDE DEF depth, frame
<1>3. /\ depth - n \in Int /\ frame <= depth - n /\ depth - n <= depth /\ sp' = fp - (depth - n)
      /\ depth - n = frame => (depth = frame <=> n = 0) /\ Slot(Len(calls)) = sp + n - 1
  BY <1>1, <1>2
<1>4. depth - n = frame => tos' = IF depth = frame THEN tos ELSE stack[Slot(Len(calls))]
  BY <1>2, <1>3
<1> QED
  BY <1>1, <1>2, <1>3, <1>4, Quiet DEF depth, frame

\* It goes on to the next instruction.
Advances(n) ==
  /\ n \in Nat /\ pc' = NextPc /\ Fetch \notin {Op.HALT, Op.BR, Op.RETURN, Op.RETURNZ, Op.LIT}
  /\ Takes(At(pc)) = Gives(At(pc)) + n
  /\ fp' = fp /\ stack' = stack /\ sp' = sp + n
  /\ Gives(At(pc)) = 0 => tos' = IF n = 0 THEN tos ELSE stack[sp + n - 1]

LEMMA Advance ==
  ASSUME Ready, calls' = calls, NEW n, Advances(n), Gives(At(pc)) \in Nat
  PROVE  Sound'
<1> DEFINE depth == At(pc).depth
           frame == FrameOf(pc)
           takes == Takes(At(pc))
           gives == Gives(At(pc))
<1>1. /\ n \in Nat /\ takes = gives + n /\ gives \in Nat /\ depth \in Nat /\ frame \in Nat
      /\ depth >= frame + takes /\ DepthAfter(pc) = depth - takes + gives
  BY ReadyFacts DEF Advances
<1>2. Reaches(pc, pc', DepthAfter(pc)) /\ At(pc).op # Op.LIT
  BY ReadyFacts DEF Advances
<1>3. /\ fp' = fp /\ stack' = stack /\ sp' = sp + n
      /\ gives = 0 => tos' = IF n = 0 THEN tos ELSE stack[sp + n - 1]
  BY DEF Advances
<1> HIDE DEF depth, frame, takes, gives
<1>4. DepthAfter(pc) = depth - n /\ frame + n <= depth /\ (depth - n = frame => gives = 0)
  BY <1>1
<1>5. RemovedTo(n)
  BY <1>1, <1>2, <1>3, <1>4 DEF RemovedTo, depth, frame
<1> QED
  BY <1>5, Removes

\* It goes where it says.
Jumps(n) ==
  /\ pc' = NextPc + WordArg
  /\ \/ n = 0 /\ Fetch = Op.BR /\ tos' = tos
     \/ n = 1 /\ Fetch \in {Op.BRT, Op.BRF} /\ tos' = stack[sp]
     \/ n = 0 /\ Fetch \in {Op.BRTSC, Op.BRFSC}
  /\ fp' = fp /\ stack' = stack /\ sp' = sp + n

LEMMA Jump ==
  ASSUME Ready, calls' = calls, NEW n, Jumps(n)
  PROVE  Sound'
<1> DEFINE depth == At(pc).depth
           frame == FrameOf(pc)
           takes == Takes(At(pc))
<1>1. /\ depth \in Nat /\ frame \in Nat /\ takes \in Nat /\ depth >= frame + takes /\ sp \in Int
      /\ DepthAfter(pc) = depth - takes + Gives(At(pc)) /\ Fetch = At(pc).op
  BY ReadyFacts
<1>2. n \in {0, 1} /\ Fetch \in BranchOps /\ fp' = fp /\ stack' = stack /\ sp' = sp + n
  BY OpFacts, OpSets DEF Jumps
<1>3. Reaches(pc, pc', IF Fetch \in {Op.BRTSC, Op.BRFSC} THEN depth ELSE DepthAfter(pc))
  BY <1>2, ReadyFacts DEF Jumps
<1>4. Fetch \notin {Op.BRTSC, Op.BRFSC} => takes = n /\ Gives(At(pc)) = 0
  BY <1>1, <1>2, Effects DEF Jumps
<1>5. Fetch \in {Op.BRTSC, Op.BRFSC} => takes = 1 /\ n = 0
  BY <1>1, Effects, OpFacts DEF Jumps
<1>6. Fetch \notin {Op.BRTSC, Op.BRFSC} => tos' = IF n = 0 THEN tos ELSE stack[sp]
  BY DEF Jumps
<1>7. At(pc).op # Op.LIT
  BY <1>1, <1>2, OpFacts, OpSets
<1> HIDE DEF depth, frame, takes
<1>8. n = 1 => sp + n - 1 = sp
  BY <1>1
<1>9. CASE Fetch \in {Op.BRTSC, Op.BRFSC}
  <2>1. Reaches(pc, pc', depth - n) /\ frame + n <= depth /\ depth - n # frame
    BY <1>1, <1>3, <1>5, <1>9
  <2> QED
    BY <1>2, <1>7, <2>1, Removes DEF RemovedTo, depth, frame
<1>10. CASE Fetch \notin {Op.BRTSC, Op.BRFSC}
  <2>1. DepthAfter(pc) = depth - n /\ frame + n <= depth
    BY <1>1, <1>2, <1>4, <1>10
  <2>2. Reaches(pc, pc', depth - n)
    BY <1>3, <1>10, <2>1
  <2> QED
    BY <1>2, <1>6, <1>7, <1>8, <1>10, <2>1, <2>2, Removes DEF RemovedTo, depth, frame
<1> QED
  BY <1>9, <1>10

LEMMA Branches ==
  ASSUME Ready, calls' = calls, Branch \/ ConditionalBranch \/ ShortCircuitBranch
  PROVE  Sound'
<1>1. sp \in Int /\ sp + 0 = sp
  BY ReadyFacts
<1>2. CASE Branch
  BY <1>1, <1>2, Jump DEF Branch, Execute, Jumps
<1>3. CASE /\ pc' = NextPc + WordArg /\ fp' = fp /\ stack' = stack
           /\ \/ sp' = sp + 1 /\ Fetch \in {Op.BRT, Op.BRF} /\ tos' = stack[sp]
              \/ sp' = sp /\ Fetch \in {Op.BRTSC, Op.BRFSC}
  <2>1. Jumps(0) \/ Jumps(1)
    BY <1>1, <1>3 DEF Jumps
  <2> QED
    BY <2>1, Jump
<1>4. CASE /\ pc' = NextPc /\ Fetch \in {Op.BRT, Op.BRF, Op.BRTSC, Op.BRFSC}
           /\ fp' = fp /\ stack' = stack /\ sp' = sp + 1 /\ tos' = stack[sp]
  <2>1. Takes(At(pc)) = 1 /\ Gives(At(pc)) = 0
    BY <1>4, ReadyFacts, Effects
  <2>2. sp + 1 - 1 = sp
    BY <1>1
  <2>3. Fetch \notin {Op.HALT, Op.BR, Op.RETURN, Op.RETURNZ, Op.LIT}
    BY <1>4, OpFacts
  <2> QED
    BY <1>4, <2>1, <2>2, <2>3, Advance DEF Advances
<1>5. CASE ConditionalBranch
  BY <1>3, <1>4, <1>5 DEF ConditionalBranch, Execute, Pop
<1>6. CASE ShortCircuitBranch
  BY <1>3, <1>4, <1>6 DEF ShortCircuitBranch, Execute, Pop
<1> QED
  BY <1>2, <1>5, <1>6

\* Instructions that give as many words as they take.
LEMMA Level ==
  ASSUME Ready, calls' = calls, Unary \/ Load \/ Native
  PROVE  Sound'
<1>0. sp \in Int /\ sp + 0 = sp
  BY ReadyFacts
<1>1. fp' = fp /\ stack' = stack /\ sp' = sp /\ pc' = NextPc
  BY DEF Unary, Load, Native
<1>2. Fetch \in UnaryOps \/ Fetch \in {Op.LOAD, Op.LOADB} \/ (Fetch = Op.NATIVE /\ tos' = tos)
  BY DEF Unary, Load, Native, Execute
<1>3. Fetch \notin {Op.HALT, Op.BR, Op.RETURN, Op.RETURNZ, Op.LIT}
  BY <1>2, OpFacts, OpSets
<1>4. CASE Fetch \in UnaryOps \/ Fetch \in {Op.LOAD, Op.LOADB}
  <2>1. Takes(At(pc)) = 1 /\ Gives(At(pc)) = 1
    BY <1>4, ReadyFacts, Effects
  <2>2. Takes(At(pc)) = Gives(At(pc)) + 0 /\ Gives(At(pc)) # 0 /\ Gives(At(pc)) \in Nat
    BY <2>1
  <2>3. Advances(0)
    BY <1>0, <1>1, <1>3, <2>2 DEF Advances
  <2> QED
    BY <2>2, <2>3, Advance
<1>5. CASE Fetch = Op.NATIVE /\ tos' = tos
  <2>1. Takes(At(pc)) = 0 /\ Gives(At(pc)) = 0
    BY <1>5, ReadyFacts, Effects
  <2> QED
    BY <1>0, <1>1, <1>3, <1>5, <2>1, Advance DEF Advances
<1> QED
  BY <1>2, <1>4, <1>5

\* Instructions that remove their operands.
LEMMA Removals ==
  ASSUME Ready, calls' = calls, Binary \/ Index \/ Drop
  PROVE  Sound'
<1>1. /\ fp' = fp /\ stack' = stack /\ sp' = sp + 1 /\ pc' = NextPc
      /\ Fetch \in BinaryOps \cup {Op.INDEX, Op.DROP}
      /\ Fetch = Op.DROP => tos' = stack[sp]
  BY OpFacts, OpSets DEF Binary, Index, Drop, Pop, Execute
<1>2. Takes(At(pc)) = Gives(At(pc)) + 1 /\ Gives(At(pc)) \in Nat
      /\ (Gives(At(pc)) = 0 => Fetch = Op.DROP)
  BY <1>1, ReadyFacts, Effects
<1>3. Fetch \notin {Op.HALT, Op.BR, Op.RETURN, Op.RETURNZ, Op.LIT}
  BY <1>1, OpFacts, OpSets
<1>4. sp + 1 - 1 = sp
  BY ReadyFacts
<1> QED
  BY <1>1, <1>2, <1>3, <1>4, Advance DEF Advances

LEMMA Stores ==
  ASSUME Ready, calls' = calls, StoreWord
  PROVE  Sound'
<1>1. /\ fp' = fp /\ stack' = stack /\ sp' = sp + 2 /\ pc' = NextPc
      /\ Fetch \in {Op.STORE, Op.STOREB} /\ tos' = stack[sp + 1]
  BY DEF StoreWord, Execute
<1>2. Takes(At(pc)) = Gives(At(pc)) + 2 /\ Gives(At(pc)) \in Nat
  BY <1>1, ReadyFacts, Effects
<1>3. Fetch \notin {Op.HALT, Op.BR, Op.RETURN, Op.RETURNZ, Op.LIT}
  BY <1>1, OpFacts
<1>4. sp + 2 - 1 = sp + 1
  BY ReadyFacts
<1> QED
  BY <1>1, <1>2, <1>3, <1>4, Advance DEF Advances

LEMMA Cleans ==
  ASSUME Ready, calls' = calls, Clean
  PROVE  Sound'
<1>1. fp' = fp /\ stack' = stack /\ sp' = sp + ByteArg /\ pc' = NextPc /\ Fetch = Op.CLEAN
  BY DEF Clean, Execute
<1>2. ByteArg = At(pc).arg /\ At(pc).arg \in Nat
  <2>1. pc \in Addresses \ Entries /\ At(pc).op = Op.CLEAN /\ At(pc).arg \in Int
    BY <1>1, ReadyFacts DEF Ready, Inside
  <2>2. At(pc).arg >= 0
    BY <2>1 DEF Ready, WellFormed
  <2>3. Op.CLEAN \in ByteOps
    BY OpFacts, OpSets
  <2> QED
    BY <1>1, <2>1, <2>2, <2>3, ReadyFacts
<1>3. Takes(At(pc)) = Gives(At(pc)) + ByteArg /\ Gives(At(pc)) = 1
  <2>1. Takes(At(pc)) = At(pc).arg + 1 /\ Gives(At(pc)) = 1
    BY <1>1, ReadyFacts, Effects
  <2> QED
    BY <1>2, <2>1
<1>4. Fetch \notin {Op.HALT, Op.BR, Op.RETURN, Op.RETURNZ, Op.LIT}
  BY <1>1, OpFacts
<1> QED
  BY <1>1, <1>2, <1>3, <1>4, Advance DEF Advances

LEMMA Prints ==
  ASSUME Ready, calls' = calls, PrintTrap
  PROVE  Sound'
<1>1. /\ fp' = fp /\ stack' = stack /\ pc' = NextPc /\ Fetch = Op.TRAP
      /\ ByteArg \in 1 .. 6
      /\ \/ ByteArg \in {1, 2, 3} /\ tos' = stack[sp] /\ sp' = sp + 1
         \/ ByteArg \notin {1, 2, 3} /\ tos' = tos /\ sp' = sp
  <2>1. Fetch = Op.TRAP /\ ByteArg \in 1 .. 6
    BY TrapFacts DEF PrintTrap, Execute
  <2>2. Popped = IF ByteArg \in {1, 2, 3} THEN 1 ELSE 0
    <3>1. Fetch \notin PopOps \cup {Op.LSET, Op.RETURN, Op.BRTSC, Op.BRFSC, Op.STORE, Op.STOREB, Op.CLEAN}
      BY <2>1, OpFacts, OpSets DEF PopOps
    <3> QED
      BY <2>1, <3>1, TrapFacts DEF Popped
  <2>3. CASE ByteArg \in {1, 2, 3}
    BY <2>1, <2>2, <2>3 DEF PrintTrap, Pop
  <2>4. CASE ByteArg \notin {1, 2, 3}
    BY <2>1, <2>2, <2>4 DEF PrintTrap
  <2> QED
    BY <2>1, <2>3, <2>4
<1>2. At(pc).op = Op.TRAP /\ At(pc).arg = ByteArg /\ sp \in Int
  BY <1>1, ReadyFacts, OpFacts, OpSets
<1>3. Fetch \notin {Op.HALT, Op.BR, Op.RETURN, Op.RETURNZ, Op.LIT}
  BY <1>1, OpFacts
<1>4. CASE ByteArg \in {1, 2, 3}
  <2>1. Takes(At(pc)) = 1 /\ Gives(At(pc)) = 0
    BY <1>2, <1>4, Effects
  <2>2. sp + 1 - 1 = sp
    BY <1>2
  <2> QED
    BY <1>1, <1>3, <1>4, <2>1, <2>2, Advance DEF Advances
<1>5. CASE ByteArg \notin {1, 2, 3}
  <2>1. Takes(At(pc)) = 0 /\ Gives(At(pc)) = 0
    BY <1>1, <1>2, <1>5, Effects
  <2>2. sp + 0 = sp
    BY <1>2
  <2> QED
    BY <1>1, <1>3, <1>5, <2>1, <2>2, Advance DEF Advances
<1> QED
  BY <1>4, <1>5

LEMMA Pushes ==
  ASSUME Ready, calls' = calls, Literal \/ LocalRef \/ Dup \/ GetCharTrap
  PROVE  Sound'
<1>1. /\ fp' = fp /\ sp' = sp - 1 /\ stack' = [stack EXCEPT ![sp - 1] = tos] /\ pc' = NextPc
      /\ Fetch \in PushOps \ {Op.RETURNZ} \/ (Fetch = Op.TRAP /\ ByteArg = 0)
      /\ InBounds /\ sp >= Reserved
      /\ Fetch = Op.LIT => tos' = WordArg
  BY OpFacts, TrapFacts DEF Literal, LocalRef, Dup, GetCharTrap, Execute, Push, PushOps
<1>2. /\ Fetch = At(pc).op /\ At(pc).depth \in Nat /\ sp \in Int
      /\ DepthAfter(pc) = At(pc).depth - Takes(At(pc)) + Gives(At(pc))
  BY ReadyFacts
<1>3. sp >= 1
  <2>1. CASE Fetch \in PushOps
    BY <1>1, <2>1, OpFacts DEF Reserved, PushOps
  <2>2. CASE Fetch = Op.TRAP /\ ByteArg = 0
    BY <1>1, <1>2, <2>2, TrapFacts DEF InBounds
  <2> QED
    BY <1>1, <2>1, <2>2
<1>4. Gives(At(pc)) = Takes(At(pc)) + 1 /\ Takes(At(pc)) \in {0, 1}
  <2>1. CASE Fetch \in {Op.LIT, Op.SLIT, Op.LREF}
    <3>1. Takes(At(pc)) = 0 /\ Gives(At(pc)) = 1
      BY <1>2, <2>1, Effects
    <3> QED
      BY <3>1
  <2>2. CASE Fetch = Op.DUP
    <3>1. Takes(At(pc)) = 1 /\ Gives(At(pc)) = 2
      BY <1>2, <2>2, Effects
    <3> QED
      BY <3>1
  <2>3. CASE Fetch = Op.TRAP /\ ByteArg = 0
    <3>1. At(pc).arg = 0
      BY <2>3, ReadyFacts, OpFacts, OpSets
    <3>2. Takes(At(pc)) = 0 /\ Gives(At(pc)) = 1
      BY <1>2, <2>3, <3>1, Effects, TrapFacts
    <3> QED
      BY <3>2
  <2> QED
    BY <1>1, <2>1, <2>2, <2>3 DEF PushOps
<1>5. DepthAfter(pc) = At(pc).depth + 1
  BY <1>2, <1>4
<1>6. Reaches(pc, pc', DepthAfter(pc))
  <2>1. Fetch \notin {Op.HALT, Op.BR, Op.RETURN, Op.RETURNZ}
    BY <1>1, OpFacts DEF PushOps
  <2> QED
    BY <1>1, <2>1, ReadyFacts
<1>7. At(pc).op = Op.LIT => tos' = At(pc).arg
  BY <1>1, <1>2, ReadyFacts, OpFacts, OpSets
<1>8. PushedTo(DepthAfter(pc))
  BY <1>1, <1>3, <1>5, <1>6, <1>7 DEF PushedTo, Ready
<1> QED
  BY <1>8, Pushed DEF Ready

LEMMA LocalSets ==
  ASSUME Ready, calls' = calls, LocalSet
  PROVE  Sound'
<1> DEFINE k == Len(calls)
           depth == At(pc).depth
           frame == FrameOf(pc)
           args == ArgsOf(pc)
           off == SignedByte(ByteArg)
<1>0. /\ WellFormed /\ Sound /\ Inside /\ shape' = shape
  BY DEF Ready
<1>1. /\ fp' = fp /\ pc' = NextPc /\ Fetch = Op.LSET
      /\ stack' = [stack EXCEPT ![fp + off] = tos] /\ tos' = stack'[sp] /\ sp' = sp + 1
  BY DEF LocalSet, Execute
<1>2. /\ k \in Nat /\ k >= 1 /\ pc \in Addresses
      /\ fp = Base(k) /\ sp = fp - depth /\ depth >= frame
      /\ fp \in Int /\ fp <= StackSize /\ depth \in Nat
      /\ frame \in Nat /\ frame >= 1 /\ sp \in 0 .. StackSize /\ args \in Nat
      /\ Slot(k) = fp - frame - 1
      /\ IF depth = frame THEN tos = calls[k].ret ELSE stack[Slot(k)] = calls[k].ret
  BY <1>0, Here
<1>3. /\ Reaches(pc, pc', DepthAfter(pc)) /\ DepthAfter(pc) = depth - 1 /\ depth >= frame + 1
  <2>1. Takes(At(pc)) = 1 /\ Gives(At(pc)) = 0
    BY <1>1, ReadyFacts, Effects
  <2>2. Reaches(pc, pc', DepthAfter(pc))
    BY <1>1, ReadyFacts, OpFacts
  <2> QED
    BY <2>1, <2>2, ReadyFacts
<1>4. off \in (-frame .. args - 1) \ {-1}
  <2>1. pc \in Addresses \ Entries /\ At(pc).op = Op.LSET
    BY <1>1, ReadyFacts DEF Ready, Inside
  <2>2. ByteArg = At(pc).arg
    BY <1>1, ReadyFacts, OpFacts, OpSets
  <2>3. Disciplined(pc)
    BY <1>0, <2>1, ShapeFacts
  <2> QED
    BY <2>1, <2>2, <2>3 DEF Disciplined
<1> HIDE DEF depth, frame, args, off
<1>5. DOMAIN stack = 0 .. StackSize - 1 /\ DOMAIN stack' = 0 .. StackSize - 1
  BY <1>0, <1>1 DEF Sound, Typed
<1>6. \A x \in 0 .. StackSize - 1 : x # fp + off => stack'[x] = stack[x]
  BY <1>1, <1>5
<1>7. /\ Slot(k) \in 0 .. StackSize - 1 /\ Slot(k) # fp + off
      /\ fp - 1 \in 0 .. StackSize - 1 /\ fp - 1 # fp + off
      /\ sp' \in 0 .. StackSize /\ sp' = fp - (depth - 1)
      /\ depth - 1 = frame => sp = Slot(k) /\ depth # frame
  <2> HIDE DEF k
  <2> QED
    BY <1>1, <1>2, <1>3, <1>4
<1>8. \A m \in 1 .. k - 1 : stack'[Slot(m)] = stack[Slot(m)] /\ stack'[Base(m) - 1] = stack[Base(m) - 1]
  <2> TAKE m \in 1 .. k - 1
  <2>1. /\ Base(k) + args <= Slot(m)
        /\ Slot(m) \in 0 .. StackSize - 1 /\ Base(m) - 1 \in 0 .. StackSize - 1
    BY <1>0, Positions DEF args
  <2>2. m \in 1 .. k
    BY <1>2
  <2>3. Slot(m) < Base(m) - 1 /\ Base(m) \in Int /\ Slot(m) \in Int
    BY <1>0, <2>2, Positions
  <2>4. fp + off # Slot(m) /\ fp + off # Base(m) - 1
    <3> HIDE DEF k
    <3> QED
      BY <1>2, <1>4, <2>1, <2>3
  <2> QED
    BY <1>6, <2>1, <2>4
<1>9. \A m \in 1 .. k : stack'[Base(m) - 1] = stack[Base(m) - 1]
  <2> TAKE m \in 1 .. k
  <2>1. m = k \/ m \in 1 .. k - 1
    BY <1>2
  <2>2. stack'[Base(k) - 1] = stack[Base(k) - 1]
    BY <1>2, <1>6, <1>7
  <2> QED
    BY <1>8, <2>1, <2>2
<1>10. stack'[Slot(k)] = stack[Slot(k)]
  BY <1>6, <1>7
<1>11. IF depth - 1 = frame THEN tos' = calls[k].ret ELSE stack'[Slot(k)] = calls[k].ret
  <2>1. depth # frame
    BY <1>2, <1>3
  <2> QED
    BY <1>1, <1>2, <1>7, <1>10, <2>1
<1>12. At(pc').op # Op.CALL
  <2>1. At(pc).op = Op.LSET
    BY <1>1, ReadyFacts
  <2>2. Op.LSET # Op.LIT
    BY OpFacts
  <2> QED
    BY <1>3, <2>1, <2>2, ReachesFacts
<1>13. MovedTo(depth - 1)
  BY <1>0, <1>1, <1>3, <1>5, <1>7, <1>8, <1>9, <1>11, <1>12 DEF MovedTo, frame
<1> QED
  BY <1>0, <1>13, Moved

\* A call is one more in progress, at the entry of a function.
CallTo ==
  /\ WellFormed /\ Sound /\ Inside /\ shape' = shape
  /\ pc' = tos /\ tos' = Following(pc) /\ sp' = sp /\ fp' = fp /\ stack' = stack
  /\ calls' = Append(calls, [ret |-> Following(pc), fp |-> fp, sp |-> sp])
  /\ Callable(tos, pc, At(pc).depth) /\ Reaches(pc, Following(pc), At(pc).depth)
  /\ At(pc).op = Op.CALL

LEMMA CallToCalls ==
  ASSUME CallTo, NEW CONSTANT k, k = Len(calls)
  PROVE  LET r == Following(pc)
         IN  /\ k \in Nat /\ k >= 1 /\ Len(calls)' = k + 1
             /\ calls'[k + 1] = [ret |-> r, fp |-> fp, sp |-> sp]
             /\ \A m \in 1 .. k : calls'[m] = calls[m] /\ Base(m)' = Base(m)
             /\ Base(k + 1)' = sp /\ Where(k + 1)' = tos /\ Where(k)' = r
             /\ \A m \in 1 .. k - 1 : Where(m)' = Where(m)
             /\ \A a : /\ At(a)' = At(a) /\ FrameOf(a)' = FrameOf(a) /\ ArgsOf(a)' = ArgsOf(a)
             /\ calls' \in Seq(CallRecord)
             /\ r \in Addresses \ Entries /\ tos \in Entries \ {shape.main}
             /\ At(r).entry = At(pc).entry /\ At(r).depth = At(pc).depth /\ At(r).op # Op.CALL
             /\ FrameOf(r) = FrameOf(pc) /\ ArgsOf(r) = ArgsOf(pc)
<1> DEFINE r == Following(pc)
           new == [ret |-> r, fp |-> fp, sp |-> sp]
<1>0. /\ WellFormed /\ Sound /\ Inside /\ shape' = shape
      /\ pc' = tos /\ calls' = Append(calls, new)
      /\ Callable(tos, pc, At(pc).depth) /\ Reaches(pc, r, At(pc).depth) /\ At(pc).op = Op.CALL
  BY DEF CallTo
<1>1. k \in Nat /\ k >= 1 /\ Where(k) = pc /\ fp \in Int /\ sp \in Int
  BY <1>0, Here
<1>2. calls \in Seq(CallRecord)
  BY <1>0 DEF Sound, Typed
<1>3. Op.CALL # Op.LIT
  BY OpFacts
<1>4. /\ r \in Addresses \ Entries
      /\ At(r).entry = At(pc).entry /\ At(r).depth = At(pc).depth /\ At(r).op # Op.CALL
      /\ FrameOf(r) = FrameOf(pc) /\ ArgsOf(r) = ArgsOf(pc)
  BY <1>0, <1>3, ReachesFacts
<1>5. r \in Int
  BY <1>0, <1>4, ShapeFacts
<1>6. new \in CallRecord
  BY <1>1, <1>5 DEF CallRecord
<1> HIDE DEF new
<1>7. /\ calls' \in Seq(CallRecord) /\ Len(calls)' = k + 1 /\ calls'[k + 1] = new
      /\ \A m \in 1 .. k : calls'[m] = calls[m]
  <2>1. Len(calls') = k + 1 /\ \A m \in 1 .. k + 1 : calls'[m] = IF m = k + 1 THEN new ELSE calls[m]
    BY <1>0, <1>2, <1>6, AppendProperties
  <2>2. calls' \in Seq(CallRecord)
    BY <1>0, <1>2, <1>6, AppendProperties
  <2> QED
    BY <1>1, <2>1, <2>2
<1>8. \A m \in 1 .. k : Base(m)' = Base(m)
  BY <1>7 DEF Base
<1>9. Base(k + 1)' = sp /\ calls'[k + 1].ret = r
  BY <1>7 DEF Base, new
<1>10. Where(k + 1)' = tos /\ Where(k)' = r
  BY <1>0, <1>1, <1>7, <1>9 DEF Where
<1>11. \A m \in 1 .. k - 1 : Where(m)' = Where(m)
  <2> TAKE m \in 1 .. k - 1
  <2>1. m + 1 \in 1 .. k /\ m # k /\ m # k + 1
    BY <1>1
  <2> QED
    BY <1>7, <2>1 DEF Where
<1>12. \A a : At(a)' = At(a) /\ FrameOf(a)' = FrameOf(a) /\ ArgsOf(a)' = ArgsOf(a)
  BY <1>0 DEF At, FrameOf, ArgsOf
<1>13. tos \in Entries \ {shape.main}
  BY <1>0 DEF Callable
<1> QED
  BY <1>1, <1>4, <1>7, <1>8, <1>9, <1>10, <1>11, <1>12, <1>13 DEF new

LEMMA CallSound ==
  ASSUME CallTo
  PROVE  Sound'
<1> DEFINE r == Following(pc)
           depth == At(pc).depth
<1> SUFFICES ASSUME NEW CONSTANT k, k = Len(calls)
             PROVE  Sound'
  OBVIOUS
<1>0. /\ WellFormed /\ Sound /\ Inside
      /\ pc' = tos /\ tos' = r /\ sp' = sp /\ fp' = fp /\ stack' = stack
      /\ shape' = shape
  BY DEF CallTo
<1>1. /\ k \in Nat /\ k >= 1 /\ Len(calls)' = k + 1
      /\ calls'[k + 1] = [ret |-> r, fp |-> fp, sp |-> sp]
      /\ \A m \in 1 .. k : calls'[m] = calls[m] /\ Base(m)' = Base(m)
      /\ Base(k + 1)' = sp /\ Where(k + 1)' = tos /\ Where(k)' = r
      /\ \A m \in 1 .. k - 1 : Where(m)' = Where(m)
      /\ \A a : /\ At(a)' = At(a) /\ FrameOf(a)' = FrameOf(a) /\ ArgsOf(a)' = ArgsOf(a)
      /\ calls' \in Seq(CallRecord)
      /\ r \in Addresses \ Entries /\ tos \in Entries \ {shape.main}
      /\ At(r).entry = At(pc).entry /\ At(r).depth = depth /\ At(r).op # Op.CALL
      /\ FrameOf(r) = FrameOf(pc) /\ ArgsOf(r) = ArgsOf(pc)
  BY CallToCalls
<1>2. /\ Where(k) = pc /\ fp = Base(k) /\ sp = fp - depth /\ depth >= FrameOf(pc)
      /\ fp \in Int /\ depth \in Nat /\ FrameOf(pc) \in Nat /\ sp \in 0 .. StackSize
      /\ Slot(k) = fp - FrameOf(pc) - 1
      /\ depth # FrameOf(pc) => stack[Slot(k)] = calls[k].ret
  BY <1>0, Here
<1>3. ArgsOf(tos) \in Nat /\ ArgsOf(tos) + FrameOf(pc) + 1 <= depth
  <2>1. ArgsOf(tos) \in Nat /\ ArgsOf(tos) = shape.functions[tos].args
    BY <1>0, <1>1, ShapeFacts
  <2> QED
    BY <2>1 DEF CallTo, Callable
<1>4. \A m \in 1 .. k :
        /\ At(Where(m)').entry = At(Where(m)).entry
        /\ FrameOf(Where(m)') = FrameOf(Where(m)) /\ ArgsOf(Where(m)') = ArgsOf(Where(m))
  <2> TAKE m \in 1 .. k
  <2>1. m = k \/ m \in 1 .. k - 1
    BY <1>1
  <2> QED
    BY <1>1, <1>2, <2>1
<1>5. Addresses' = Addresses /\ Entries' = Entries /\ Framed' = k /\ Framed = k
  BY <1>0, <1>1 DEF Addresses, Entries, Framed, Inside
<1>6. Typed'
  BY <1>0, <1>1 DEF Sound, Typed
<1>7. Located'
  <2> SUFFICES ASSUME NEW m \in 1 .. k + 1
               PROVE  /\ Where(m)' \in Addresses
                      /\ m < k + 1 => Where(m)' \notin Entries /\ At(Where(m)').op # Op.CALL
                      /\ At(Where(m)').entry = shape.main <=> m = 1
    BY <1>0, <1>1, <1>5 DEF Located
  <2>1. CASE m = k + 1
    <3>1. tos \in Addresses /\ At(tos).entry # shape.main
      BY <1>0, <1>1, ShapeFacts
    <3>2. m # 1 /\ ~(m < k + 1) /\ Where(m)' = tos
      BY <1>1, <2>1
    <3> QED
      BY <3>1, <3>2
  <2>2. CASE m = k
    <3>1. At(pc).entry = shape.main <=> k = 1
      <4>1. k \in 1 .. Len(calls)
        BY <1>1
      <4>2. At(Where(k)).entry = shape.main <=> k = 1
        BY <1>0, <4>1 DEF Sound, Located
      <4> QED
        BY <1>2, <4>2
    <3>2. Where(m)' = r
      BY <1>1, <2>2
    <3> QED
      BY <1>1, <2>2, <3>1, <3>2
  <2>3. CASE m \in 1 .. k - 1
    BY <1>0, <1>1, <2>3 DEF Sound, Located
  <2> QED
    BY <1>1, <2>1, <2>2, <2>3
<1>8. Linked'
  <2>1. Base(1)' = Base(1) /\ calls'[1] = calls[1]
    BY <1>1
  <2>2. ASSUME NEW m \in 2 .. k + 1
        PROVE  /\ calls'[m].fp = Base(m - 1)'
               /\ Base(m)' = Base(m - 1)' - At(calls'[m].ret).depth
               /\ ArgsOf(Where(m)') + FrameOf(calls'[m].ret) + 1 <= At(calls'[m].ret).depth
    <3>1. CASE m = k + 1
      <4>1. m - 1 = k /\ k \in 1 .. k
        BY <1>1, <3>1
      <4> QED
        BY <1>1, <1>2, <1>3, <3>1, <4>1
    <3>2. CASE m \in 2 .. k
      <4>1. m \in 1 .. k /\ m - 1 \in 1 .. k
        BY <1>1, <3>2
      <4>2. /\ calls[m].fp = Base(m - 1)
            /\ Base(m) = Base(m - 1) - At(calls[m].ret).depth
            /\ ArgsOf(Where(m)) + FrameOf(calls[m].ret) + 1 <= At(calls[m].ret).depth
        BY <1>0, <3>2 DEF Sound, Linked
      <4> QED
        BY <1>1, <1>4, <4>1, <4>2
    <3> QED
      BY <1>1, <3>1, <3>2
  <2>3. Base(1) = StackSize /\ calls[1].fp = StackSize /\ calls[1].ret \in Garbage
    BY <1>0 DEF Sound, Linked
  <2> QED
    BY <1>1, <2>1, <2>2, <2>3 DEF Linked
<1>9. Apart'
  <2> SUFFICES ASSUME NEW l \in 1 .. k + 1, NEW m \in 1 .. k + 1, l < m
               PROVE  Base(m)' + ArgsOf(Where(m)') <= Base(l)' - FrameOf(Where(l)') - 1
    BY <1>1 DEF Apart
  <2>0. l \in 1 .. k
    BY <1>1
  <2>1. CASE m \in 1 .. k
    BY <1>0, <1>1, <1>4, <2>0, <2>1 DEF Sound, Apart
  <2>2. CASE m = k + 1
    <3>1. Base(m)' = sp /\ Where(m)' = tos
      BY <1>1, <2>2
    <3>2. Base(l)' = Base(l) /\ FrameOf(Where(l)') = FrameOf(Where(l))
      BY <1>1, <1>4, <2>0
    <3> DEFINE args == ArgsOf(tos)
               frame == FrameOf(pc)
    <3> HIDE DEF depth, args, frame
    <3>3. sp \in Int /\ args \in Nat /\ frame \in Nat /\ sp + args <= fp - frame - 1
      <4>1. args \in Nat /\ frame \in Nat /\ args + frame + 1 <= depth
        BY <1>2, <1>3 DEF args, frame
      <4>2. fp \in Int /\ depth \in Nat /\ sp = fp - depth
        BY <1>2
      <4> QED
        BY <4>1, <4>2
    <3>4. CASE l = k
      BY <1>2, <3>1, <3>2, <3>3, <3>4 DEF args, frame
    <3>5. CASE l # k
      <4>1. k \in 1 .. k /\ l < k
        BY <1>1, <2>0, <3>5
      <4>2. Base(k) + ArgsOf(Where(k)) <= Base(l) - FrameOf(Where(l)) - 1
        BY <1>0, <2>0, <4>1 DEF Sound, Apart
      <4>3. ArgsOf(pc) \in Nat /\ Base(l) \in Int /\ FrameOf(Where(l)) \in Nat
        BY <1>0, <1>1, <1>2, <2>0, <4>1, Positions
      <4>4. fp + ArgsOf(pc) <= Base(l) - FrameOf(Where(l)) - 1
        BY <1>2, <4>2
      <4>5. sp <= fp /\ fp \in Int
        BY <1>2
      <4>6. sp + args <= Base(l) - FrameOf(Where(l)) - 1
        <5> DEFINE x == Base(l) - FrameOf(Where(l)) - 1
        <5>1. x \in Int /\ fp + ArgsOf(pc) <= x
          BY <4>3, <4>4
        <5> HIDE DEF x
        <5>2. sp + args <= x
          BY <3>3, <4>3, <4>5, <5>1
        <5> QED
          BY <5>2 DEF x
      <4> QED
        BY <3>1, <3>2, <4>6 DEF args
    <3> QED
      BY <3>4, <3>5
  <2> QED
    BY <1>1, <2>1, <2>2
<1>10. Saved'
  <2>1. \A m \in 1 .. k : stack[Base(m) - 1] = calls[m].fp
    BY <1>0, <1>5 DEF Sound, Saved
  <2> QED
    BY <1>0, <1>1, <1>5, <2>1 DEF Saved
<1>11. Returns'
  <2>1. \A m \in 1 .. k : stack[Slot(m)] = calls[m].ret
    <3> TAKE m \in 1 .. k
    <3>1. CASE m = k
      BY <1>2, <1>3, <3>1
    <3>2. CASE m # k
      BY <1>0, <1>5, <3>2 DEF Sound, Returns
    <3> QED
      BY <3>1, <3>2
  <2>2. \A m \in 1 .. k : Slot(m)' = Slot(m)
    BY <1>1, <1>4 DEF Slot
  <2>3. \A m \in 1 .. k : m # Len(calls)'
    BY <1>1
  <2> QED
    BY <1>0, <1>1, <1>5, <2>1, <2>2, <2>3 DEF Returns
<1>12. Registers'
  BY <1>0, <1>1, <1>5 DEF Registers, Inside, Base
<1>13. Calling'
  <2>1. At(tos).op = Op.FRAME
    BY <1>0, <1>1, ShapeFacts
  <2>2. Op.FRAME # Op.CALL
    BY OpFacts
  <2> QED
    BY <1>0, <1>1, <2>1, <2>2 DEF Calling
<1> QED
  BY <1>6, <1>7, <1>8, <1>9, <1>10, <1>11, <1>12, <1>13 DEF Sound

\* FRAME is the first instruction of a call.
FrameFor ==
  /\ WellFormed /\ Sound /\ ~Inside /\ shape' = shape /\ calls' = calls
  /\ sp >= FrameOf(pc) /\ pc' = Following(pc)
  /\ fp' = sp /\ sp' = sp - FrameOf(pc) /\ tos' = tos
  /\ stack' = [i \in DOMAIN stack |->
                 IF i = sp - 1 THEN fp ELSE IF i \in sp - FrameOf(pc) .. sp - 1 THEN 0 ELSE stack[i]]

LEMMA FrameSound ==
  ASSUME FrameFor
  PROVE  Sound'
<1> DEFINE frame == FrameOf(pc)
           args == ArgsOf(pc)
<1> SUFFICES ASSUME NEW CONSTANT k, k = Len(calls)
             PROVE  Sound'
  OBVIOUS
<1>0. /\ WellFormed /\ Sound /\ ~Inside
      /\ shape' = shape /\ calls' = calls /\ pc' = Following(pc)
      /\ sp >= frame /\ fp' = sp /\ sp' = sp - frame /\ tos' = tos
  BY DEF FrameFor
<1>1. /\ k \in Nat /\ k >= 1 /\ pc \in Addresses /\ Where(k) = pc /\ Len(calls)' = k
      /\ sp \in 0 .. StackSize
  BY <1>0, Positions
<1>2. pc \in Entries
  BY <1>0 DEF Inside
<1>3. /\ frame \in Nat /\ frame >= 1 /\ args \in Nat /\ At(pc).op = Op.FRAME
      /\ Reaches(pc, pc', frame)
  BY <1>0, <1>1, <1>2, ShapeFacts
<1>4. /\ pc' \in Addresses \ Entries /\ At(pc').entry = At(pc).entry /\ At(pc').depth = frame
      /\ FrameOf(pc') = frame /\ ArgsOf(pc') = args /\ At(pc').op # Op.CALL
  <2>1. Op.FRAME # Op.LIT
    BY OpFacts
  <2> QED
    BY <1>3, <2>1, ReachesFacts
<1>5. fp = calls[k].fp /\ sp = Base(k) /\ tos = calls[k].ret
  BY <1>0 DEF Sound, Registers
<1>6. /\ Addresses' = Addresses /\ Entries' = Entries
      /\ \A m \in 1 .. k : calls'[m] = calls[m] /\ Base(m)' = Base(m)
      /\ \A m \in 1 .. k - 1 : Where(m)' = Where(m)
      /\ Where(k)' = pc' /\ Framed' = k /\ Framed = k - 1
      /\ \A a : At(a)' = At(a) /\ FrameOf(a)' = FrameOf(a) /\ ArgsOf(a)' = ArgsOf(a)
  BY <1>0, <1>1, <1>2, <1>4 DEF Addresses, Entries, Base, Where, Framed, At, FrameOf, ArgsOf
<1>7. \A m \in 1 .. k :
        /\ At(Where(m)').entry = At(Where(m)).entry
        /\ FrameOf(Where(m)') = FrameOf(Where(m)) /\ ArgsOf(Where(m)') = ArgsOf(Where(m))
        /\ Slot(m)' = Slot(m)
  <2> TAKE m \in 1 .. k
  <2>1. m = k \/ m \in 1 .. k - 1
    BY <1>1
  <2>2. /\ At(Where(m)').entry = At(Where(m)).entry
        /\ FrameOf(Where(m)') = FrameOf(Where(m)) /\ ArgsOf(Where(m)') = ArgsOf(Where(m))
    BY <1>1, <1>4, <1>6, <2>1
  <2> QED
    BY <1>6, <2>2 DEF Slot
<1>8. /\ DOMAIN stack = 0 .. StackSize - 1
      /\ DOMAIN stack' = 0 .. StackSize - 1
      /\ \A x \in 0 .. StackSize - 1 : x >= sp => stack'[x] = stack[x]
      /\ stack'[sp - 1] = fp
  <2>1. DOMAIN stack = 0 .. StackSize - 1
    BY <1>0 DEF Sound, Typed
  <2>2. stack' = [i \in 0 .. StackSize - 1 |->
                    IF i = sp - 1 THEN fp ELSE IF i \in sp - frame .. sp - 1 THEN 0 ELSE stack[i]]
    BY <2>1 DEF FrameFor
  <2> HIDE DEF frame
  <2>3. sp - 1 \in 0 .. StackSize - 1
    BY <1>0, <1>1, <1>3
  <2>4. ASSUME NEW x \in 0 .. StackSize - 1, x >= sp
        PROVE  stack'[x] = stack[x]
    <3>1. x # sp - 1 /\ x \notin sp - frame .. sp - 1
      BY <1>1, <1>3, <2>4
    <3> QED
      BY <2>2, <3>1
  <2> QED
    BY <2>1, <2>2, <2>3, <2>4
<1>9. \A m \in 1 .. k - 1 : stack'[Slot(m)] = stack[Slot(m)] /\ stack'[Base(m) - 1] = stack[Base(m) - 1]
  <2> TAKE m \in 1 .. k - 1
  <2>1. /\ Base(k) + args <= Slot(m)
        /\ Slot(m) \in 0 .. StackSize - 1 /\ Base(m) - 1 \in 0 .. StackSize - 1
    BY <1>0, Positions
  <2>2. m \in 1 .. k
    BY <1>1
  <2>3. Slot(m) < Base(m) - 1 /\ Base(m) \in Int /\ Slot(m) \in Int
    BY <1>0, <2>2, Positions
  <2> HIDE DEF args, frame
  <2>4. Slot(m) >= sp /\ Base(m) - 1 >= sp
    <3>1. sp + args <= Slot(m) /\ sp \in Int /\ args \in Nat
      BY <1>1, <1>3, <1>5, <2>1
    <3>2. Slot(m) >= sp
      BY <2>3, <3>1
    <3> QED
      BY <2>3, <3>1, <3>2
  <2> QED
    BY <1>8, <2>1, <2>4
<1> HIDE DEF args, frame
<1>10. Typed'
  <2>1. sp' \in 0 .. StackSize
    BY <1>0, <1>1, <1>3
  <2> QED
    BY <1>0, <1>1, <1>8, <2>1 DEF Sound, Typed
<1>11. Located'
  <2> SUFFICES ASSUME NEW m \in 1 .. k
               PROVE  /\ Where(m)' \in Addresses
                      /\ m < k => Where(m)' \notin Entries /\ At(Where(m)').op # Op.CALL
                      /\ At(Where(m)').entry = shape.main <=> m = 1
    BY <1>0, <1>1, <1>6 DEF Located
  <2>1. /\ Where(m) \in Addresses
        /\ m < k => Where(m) \notin Entries /\ At(Where(m)).op # Op.CALL
        /\ At(Where(m)).entry = shape.main <=> m = 1
    BY <1>0 DEF Sound, Located
  <2>2. CASE m = k
    BY <1>1, <1>4, <1>6, <1>7, <2>1, <2>2
  <2>3. CASE m \in 1 .. k - 1
    BY <1>1, <1>6, <2>1, <2>3
  <2> QED
    BY <1>1, <2>2, <2>3
<1>12. Linked'
  <2>1. \A m \in 2 .. k :
          /\ calls'[m].fp = Base(m - 1)'
          /\ Base(m)' = Base(m - 1)' - At(calls'[m].ret).depth
          /\ ArgsOf(Where(m)') + FrameOf(calls'[m].ret) + 1 <= At(calls'[m].ret).depth
    <3> TAKE m \in 2 .. k
    <3>1. m \in 1 .. k /\ m - 1 \in 1 .. k
      BY <1>1
    <3>2. /\ calls[m].fp = Base(m - 1)
          /\ Base(m) = Base(m - 1) - At(calls[m].ret).depth
          /\ ArgsOf(Where(m)) + FrameOf(calls[m].ret) + 1 <= At(calls[m].ret).depth
      BY <1>0 DEF Sound, Linked
    <3> QED
      BY <1>6, <1>7, <3>1, <3>2
  <2>2. Base(1) = StackSize /\ calls[1].fp = StackSize /\ calls[1].ret \in Garbage
    BY <1>0 DEF Sound, Linked
  <2>3. Base(1)' = Base(1) /\ calls'[1] = calls[1]
    BY <1>1, <1>6
  <2> QED
    BY <1>1, <1>6, <2>1, <2>2, <2>3 DEF Linked
<1>13. Apart'
  BY <1>0, <1>1, <1>6, <1>7 DEF Sound, Apart
<1>14. Saved'
  <2>1. \A m \in 1 .. k - 1 : stack[Base(m) - 1] = calls[m].fp
    BY <1>0, <1>6 DEF Sound, Saved
  <2>2. stack'[Base(k) - 1] = calls[k].fp
    BY <1>5, <1>8
  <2>3. \A m \in 1 .. k : m = k \/ m \in 1 .. k - 1
    BY <1>1
  <2> QED
    BY <1>6, <1>9, <2>1, <2>2, <2>3 DEF Saved
<1>15. Returns'
  <2>1. \A m \in 1 .. k - 1 : stack[Slot(m)] = calls[m].ret /\ m # k
    BY <1>0, <1>1, <1>6 DEF Sound, Returns
  <2>2. \A m \in 1 .. k : m = k \/ m \in 1 .. k - 1
    BY <1>1
  <2>3. tos' = calls'[k].ret /\ At(pc').depth = FrameOf(pc')
    BY <1>0, <1>4, <1>5
  <2> QED
    BY <1>1, <1>6, <1>7, <1>9, <2>1, <2>2, <2>3 DEF Returns
<1>16. Registers'
  <2>1. Inside'
    BY <1>4, <1>6 DEF Inside
  <2>2. Base(k)' = fp' /\ sp' = fp' - At(pc').depth
    BY <1>0, <1>1, <1>4, <1>5, <1>6
  <2> QED
    BY <1>1, <1>6, <2>1, <2>2 DEF Registers
<1>17. Calling'
  BY <1>4, <1>6 DEF Calling
<1> QED
  BY <1>10, <1>11, <1>12, <1>13, <1>14, <1>15, <1>16, <1>17 DEF Sound

\* A function returns to its caller.
ReturnFrom ==
  /\ WellFormed /\ Sound /\ Inside /\ shape' = shape /\ calls' = Front(calls)
  /\ At(pc).entry # shape.main
  /\ \/ At(pc).depth = FrameOf(pc) + 1 /\ pc' = stack[sp] /\ stack' = stack
     \/ At(pc).depth = FrameOf(pc) /\ pc' = tos /\ stack' = [stack EXCEPT ![sp - 1] = tos]
  /\ sp' = fp /\ fp' = stack'[fp - 1]

LEMMA ReturnFacts ==
  ASSUME ReturnFrom, NEW CONSTANT k, k = Len(calls)
  PROVE  /\ k \in Nat /\ k >= 2 /\ Len(calls)' = k - 1
         /\ pc' = calls[k].ret /\ fp' = calls[k].fp /\ sp' = calls[k].sp
         /\ pc' = Where(k - 1) /\ fp' = Base(k - 1) /\ sp' = Base(k)
         /\ calls' \in Seq(CallRecord) /\ \A m \in 1 .. k - 1 : calls'[m] = calls[m]
         /\ DOMAIN stack' = 0 .. StackSize - 1
         /\ \A m \in 1 .. k - 1 : stack'[Slot(m)] = stack[Slot(m)] /\ stack'[Base(m) - 1] = stack[Base(m) - 1]
<1> DEFINE frame == FrameOf(pc)
           depth == At(pc).depth
           args == ArgsOf(pc)
<1>0. /\ WellFormed /\ Sound /\ Inside /\ shape' = shape /\ calls' = Front(calls)
      /\ At(pc).entry # shape.main
      /\ \/ depth = frame + 1 /\ pc' = stack[sp] /\ stack' = stack
         \/ depth = frame /\ pc' = tos /\ stack' = [stack EXCEPT ![sp - 1] = tos]
      /\ sp' = fp /\ fp' = stack'[fp - 1]
  BY DEF ReturnFrom
<1>1. /\ k \in Nat /\ k >= 1 /\ pc \in Addresses /\ Where(k) = pc
      /\ fp = Base(k) /\ sp = fp - depth
      /\ fp \in Int /\ depth \in Nat
      /\ frame \in Nat /\ frame >= 1 /\ args \in Nat
      /\ Slot(k) = fp - frame - 1
      /\ IF depth = frame THEN tos = calls[k].ret ELSE stack[Slot(k)] = calls[k].ret
  BY <1>0, Here
<1>2. k >= 2
  <2>1. k \in 1 .. Len(calls)
    BY <1>1
  <2>2. At(Where(k)).entry = shape.main <=> k = 1
    BY <1>0, <2>1 DEF Sound, Located
  <2> QED
    BY <1>0, <1>1, <2>2
<1>3. calls \in Seq(CallRecord) /\ calls # <<>> /\ DOMAIN stack = 0 .. StackSize - 1
  BY <1>0, <1>1 DEF Sound, Typed
<1>4. /\ calls' \in Seq(CallRecord) /\ Len(calls)' = k - 1
      /\ \A m \in 1 .. k - 1 : calls'[m] = calls[m]
  <2> DEFINE front == SubSeq(calls, 1, k - 1)
  <2>1. calls' = front
    BY <1>0 DEF Front
  <2>2. \A i \in 1 .. k - 1 : calls[i] \in CallRecord
    BY <1>1, <1>3
  <2>3. /\ front \in Seq(CallRecord)
        /\ Len(front) = IF 1 <= k - 1 THEN k - 1 - 1 + 1 ELSE 0
        /\ \A i \in 1 .. k - 1 - 1 + 1 : front[i] = calls[1 + i - 1]
    <3>1. 1 \in Int /\ k - 1 \in Int
      BY <1>1
    <3> QED
      BY <2>2, <3>1, SubSeqProperties
  <2> HIDE DEF front
  <2>4. Len(front) = k - 1 /\ \A i \in 1 .. k - 1 : front[i] = calls[i]
    BY <1>1, <1>2, <2>3
  <2> QED
    BY <2>1, <2>3, <2>4
<1> HIDE DEF frame, depth, args
<1>5. \A x \in 0 .. StackSize - 1 : x # Slot(k) => stack'[x] = stack[x]
  <2>1. CASE stack' = stack
    BY <2>1
  <2>2. CASE depth = frame /\ stack' = [stack EXCEPT ![sp - 1] = tos]
    <3>1. sp - 1 = Slot(k)
      BY <1>1, <2>2
    <3> QED
      BY <1>3, <2>2, <3>1
  <2> QED
    BY <1>0, <2>1, <2>2
<1>6. DOMAIN stack' = 0 .. StackSize - 1
  BY <1>0, <1>3
<1>7. \A m \in 1 .. k - 1 : stack'[Slot(m)] = stack[Slot(m)] /\ stack'[Base(m) - 1] = stack[Base(m) - 1]
  <2> TAKE m \in 1 .. k - 1
  <2>1. /\ Base(k) + args <= Slot(m)
        /\ Slot(m) \in 0 .. StackSize - 1 /\ Base(m) - 1 \in 0 .. StackSize - 1
    BY <1>0, Positions DEF args
  <2>2. m \in 1 .. k
    BY <1>1
  <2>3. Slot(m) < Base(m) - 1 /\ Base(m) \in Int /\ Slot(m) \in Int
    BY <1>0, <2>2, Positions
  <2>4. Slot(k) # Slot(m) /\ Slot(k) # Base(m) - 1
    <3>1. /\ fp + args <= Slot(m) /\ fp \in Int /\ args \in Nat /\ frame \in Nat
          /\ Slot(k) = fp - frame - 1
      BY <1>1, <2>1
    <3>2. Slot(k) \in Int /\ Slot(k) < Slot(m)
      BY <2>3, <3>1
    <3> QED
      BY <2>3, <3>2
  <2> QED
    BY <1>5, <2>1, <2>4
<1>8. pc' = calls[k].ret
  <2>1. CASE depth = frame + 1 /\ pc' = stack[sp]
    <3>1. sp = Slot(k) /\ depth # frame
      BY <1>1, <2>1
    <3> QED
      BY <1>1, <2>1, <3>1
  <2>2. CASE depth = frame /\ pc' = tos
    BY <1>1, <2>2
  <2> QED
    BY <1>0, <2>1, <2>2
<1>9. fp' = calls[k].fp
  <2>1. stack[Base(k) - 1] = calls[k].fp
    BY <1>0, <1>1 DEF Sound, Saved, Framed, Inside
  <2>2. /\ sp \in 0 .. StackSize /\ depth >= frame /\ fp <= StackSize
        /\ fp \in Int /\ sp = fp - depth /\ depth \in Nat
        /\ frame \in Nat /\ frame >= 1 /\ Slot(k) = fp - frame - 1
    BY <1>0, <1>1, Here DEF depth, frame
  <2>3. fp >= 1
    BY <2>2
  <2>4. fp - 1 \in 0 .. StackSize - 1 /\ fp - 1 # Slot(k)
    BY <2>2, <2>3
  <2> QED
    BY <1>0, <1>1, <1>5, <2>1, <2>4
<1>10. calls[k].fp = Base(k - 1) /\ calls[k].sp = Base(k) /\ calls[k].ret = Where(k - 1)
  <2>1. k \in 2 .. Len(calls) /\ k - 1 # Len(calls) /\ (k - 1) + 1 = k
    BY <1>1, <1>2
  <2> QED
    BY <1>0, <2>1 DEF Sound, Linked, Base, Where
<1> QED
  BY <1>0, <1>1, <1>2, <1>4, <1>6, <1>7, <1>8, <1>9, <1>10

LEMMA ReturnSound ==
  ASSUME ReturnFrom
  PROVE  Sound'
<1> SUFFICES ASSUME NEW CONSTANT k, k = Len(calls)
             PROVE  Sound'
  OBVIOUS
<1>0. /\ WellFormed /\ Sound /\ Inside /\ shape' = shape
  BY DEF ReturnFrom
<1>1. /\ k \in Nat /\ k >= 2 /\ Len(calls)' = k - 1
      /\ pc' = Where(k - 1) /\ fp' = Base(k - 1) /\ sp' = Base(k)
      /\ calls' \in Seq(CallRecord) /\ \A m \in 1 .. k - 1 : calls'[m] = calls[m]
      /\ DOMAIN stack' = 0 .. StackSize - 1
      /\ \A m \in 1 .. k - 1 : stack'[Slot(m)] = stack[Slot(m)] /\ stack'[Base(m) - 1] = stack[Base(m) - 1]
  BY ReturnFacts
<1>2. k - 1 \in 1 .. k /\ k - 1 \in Nat /\ k - 1 >= 1 /\ k \in 2 .. k
  BY <1>1
<1>3. /\ \A a : At(a)' = At(a) /\ FrameOf(a)' = FrameOf(a) /\ ArgsOf(a)' = ArgsOf(a)
      /\ Addresses' = Addresses /\ Entries' = Entries
  BY <1>0 DEF At, FrameOf, ArgsOf, Addresses, Entries
<1>4. \A m \in 1 .. k - 1 : Base(m)' = Base(m)
  BY <1>1 DEF Base
<1>5. \A m \in 1 .. k - 1 : Where(m)' = Where(m)
  <2> TAKE m \in 1 .. k - 1
  <2>1. CASE m = k - 1
    BY <1>1, <2>1 DEF Where
  <2>2. CASE m # k - 1
    <3>1. m + 1 \in 1 .. k - 1 /\ m # k
      BY <1>1, <2>2
    <3> QED
      BY <1>1, <2>2, <3>1 DEF Where
  <2> QED
    BY <2>1, <2>2
<1>6. \A m \in 1 .. k - 1 : Slot(m)' = Slot(m)
  BY <1>3, <1>4, <1>5 DEF Slot
<1>7. /\ pc' \in Addresses \ Entries /\ At(pc').op # Op.CALL
      /\ Inside' /\ Framed' = k - 1 /\ Framed = k
  <2>1. pc' \in Addresses \ Entries /\ At(pc').op # Op.CALL
    <3>1. k - 1 \in 1 .. Len(calls) /\ k - 1 < Len(calls)
      BY <1>1
    <3> QED
      BY <1>0, <1>1, <3>1 DEF Sound, Located
  <2> QED
    BY <1>0, <1>1, <1>3, <2>1 DEF Inside, Framed
<1>8. Typed'
  <2>1. Base(k) \in 0 .. StackSize
    <3>1. fp = Base(k) /\ fp <= StackSize /\ sp = fp - At(pc).depth /\ fp \in Int
      BY <1>0, Here
    <3>2. sp \in 0 .. StackSize /\ At(pc).depth \in Nat
      BY <1>0, Here
    <3> QED
      BY <3>1, <3>2
  <2> QED
    BY <1>1, <1>2, <2>1 DEF Typed
<1>9. Located'
  <2> SUFFICES ASSUME NEW m \in 1 .. k - 1
               PROVE  /\ Where(m)' \in Addresses
                      /\ m < k - 1 => Where(m)' \notin Entries /\ At(Where(m)').op # Op.CALL
                      /\ At(Where(m)').entry = shape.main <=> m = 1
    BY <1>0, <1>1, <1>3 DEF Located
  <2>1. m \in 1 .. k /\ m < k
    BY <1>1
  <2> QED
    BY <1>0, <1>5, <2>1 DEF Sound, Located
<1>10. Linked'
  <2>1. \A m \in 2 .. k - 1 :
          /\ calls'[m].fp = Base(m - 1)'
          /\ Base(m)' = Base(m - 1)' - At(calls'[m].ret).depth
          /\ ArgsOf(Where(m)') + FrameOf(calls'[m].ret) + 1 <= At(calls'[m].ret).depth
    <3> TAKE m \in 2 .. k - 1
    <3>1. m \in 1 .. k - 1 /\ m - 1 \in 1 .. k - 1 /\ m \in 2 .. k
      BY <1>1
    <3>2. /\ calls[m].fp = Base(m - 1)
          /\ Base(m) = Base(m - 1) - At(calls[m].ret).depth
          /\ ArgsOf(Where(m)) + FrameOf(calls[m].ret) + 1 <= At(calls[m].ret).depth
      BY <1>0, <3>1 DEF Sound, Linked
    <3> QED
      BY <1>1, <1>4, <1>5, <3>1, <3>2
  <2>2. Base(1) = StackSize /\ calls[1].fp = StackSize /\ calls[1].ret \in Garbage
    BY <1>0 DEF Sound, Linked
  <2>3. Base(1)' = Base(1) /\ calls'[1] = calls[1]
    BY <1>1, <1>4
  <2> QED
    BY <1>1, <1>3, <2>1, <2>2, <2>3 DEF Linked
<1>11. Apart'
  <2> SUFFICES ASSUME NEW l \in 1 .. k - 1, NEW m \in 1 .. k - 1, l < m
               PROVE  Base(m)' + ArgsOf(Where(m)') <= Base(l)' - FrameOf(Where(l)') - 1
    BY <1>1, <1>3 DEF Apart
  <2>1. l \in 1 .. k /\ m \in 1 .. k
    BY <1>1
  <2> QED
    BY <1>0, <1>4, <1>5, <2>1 DEF Sound, Apart
<1>12. Saved'
  <2>1. \A m \in 1 .. k - 1 : stack[Base(m) - 1] = calls[m].fp
    BY <1>0, <1>1, <1>7 DEF Sound, Saved
  <2> QED
    BY <1>1, <1>4, <1>7, <2>1 DEF Saved
<1>13. Returns'
  <2>1. \A m \in 1 .. k - 1 : stack[Slot(m)] = calls[m].ret
    BY <1>0, <1>1, <1>7 DEF Sound, Returns
  <2>2. \A m \in 1 .. k - 1 : stack'[Slot(m)'] = calls'[m].ret
    BY <1>1, <1>6, <2>1
  <2>3. At(pc').depth # FrameOf(pc')
    <3>1. /\ calls[k].ret = pc'
          /\ ArgsOf(Where(k)) + FrameOf(calls[k].ret) + 1 <= At(calls[k].ret).depth
      BY <1>0, <1>1, <1>2, ReturnFacts DEF Sound, Linked
    <3>2. FrameOf(pc') \in Nat
      BY <1>0, <1>7, ShapeFacts
    <3>3. ArgsOf(Where(k)) \in Nat
      BY <1>0, <1>1, Positions
    <3> QED
      BY <3>1, <3>2, <3>3
  <2> QED
    BY <1>1, <1>3, <1>7, <2>2, <2>3 DEF Returns
<1>14. Registers'
  <2>1. /\ calls[k].ret = pc' /\ Base(k) = Base(k - 1) - At(calls[k].ret).depth
    BY <1>0, <1>1, <1>2, ReturnFacts DEF Sound, Linked
  <2>2. k - 1 \in 1 .. k - 1
    BY <1>2
  <2>3. Base(k - 1)' = Base(k - 1)
    BY <1>4, <2>2
  <2> QED
    BY <1>1, <1>3, <1>7, <2>1, <2>3 DEF Registers
<1>15. Calling'
  BY <1>3, <1>7 DEF Calling
<1> QED
  BY <1>8, <1>9, <1>10, <1>11, <1>12, <1>13, <1>14, <1>15 DEF Sound

LEMMA Calls ==
  ASSUME Ready, trusted, Call, calls' = Traced
  PROVE  Sound'
<1>1. /\ Fetch = Op.CALL /\ Execute({Op.CALL}) /\ pc' = tos /\ tos' = NextPc
      /\ sp' = sp /\ fp' = fp /\ stack' = stack
  BY DEF Call, Execute
<1>2. calls' = Append(calls, [ret |-> NextPc, fp |-> fp, sp |-> sp])
  <2>1. ~Execute({Op.RETURN, Op.RETURNZ})
    BY <1>1, OpFacts DEF Execute
  <2> QED
    BY <1>1, <2>1 DEF Traced
<1>3. At(pc).op = Op.CALL /\ NextPc = Following(pc)
  BY <1>1, ReadyFacts
<1>4. Callable(tos, pc, At(pc).depth)
  BY <1>3 DEF Ready, Sound, Calling
<1>5. Reaches(pc, Following(pc), At(pc).depth)
  <2>1. Takes(At(pc)) = 1 /\ Gives(At(pc)) = 1
    BY <1>3, Effects
  <2>2. DepthAfter(pc) = At(pc).depth
    BY <2>1, ReadyFacts
  <2>3. Fetch \notin {Op.HALT, Op.BR, Op.RETURN, Op.RETURNZ}
    BY <1>1, OpFacts
  <2> QED
    BY <1>3, <2>2, <2>3, ReadyFacts
<1>6. CallTo
  BY <1>1, <1>2, <1>3, <1>4, <1>5 DEF CallTo, Ready
<1> QED
  BY <1>6, CallSound

\* What is known before a FRAME.
Entering ==
  Going /\ WellFormed /\ Intact /\ Sound /\ ~Inside /\ pc \in Addresses /\ shape' = shape

LEMMA EnteringFacts ==
  ASSUME Entering
  PROVE  Fetch = Op.FRAME /\ ByteArg = FrameOf(pc) /\ NextPc = Following(pc)
<1>1. pc \in Entries /\ WellFormed
  BY DEF Entering, Inside
<1>2. At(pc).op = Op.FRAME /\ At(pc).arg = FrameOf(pc)
  BY <1>1, ShapeFacts
<1>3. Op.FRAME \in ByteOps
  BY OpFacts, OpSets
<1> QED
  BY <1>2, <1>3, Decoded DEF Entering

LEMMA Frames ==
  ASSUME Entering, Frame, calls' = calls
  PROVE  Sound'
<1>1. Fetch = Op.FRAME /\ ByteArg = FrameOf(pc) /\ NextPc = Following(pc)
  BY EnteringFacts
<1>2. sp >= FrameOf(pc)
  BY <1>1 DEF Frame, Execute, Reserved
<1>3. FrameFor
  BY <1>1, <1>2 DEF FrameFor, Frame, Entering
<1> QED
  BY <1>3, FrameSound

LEMMA ReturnsFrom ==
  ASSUME Ready, trusted, Return, calls' = Traced
  PROVE  ReturnFrom
<1>1. Fetch \in {Op.RETURN, Op.RETURNZ} /\ Execute({Op.RETURN, Op.RETURNZ})
  BY DEF Return, Execute
<1>2. Fetch = At(pc).op /\ At(pc).depth \in Nat /\ FrameOf(pc) \in Nat
  BY ReadyFacts
<1>3. calls' = Front(calls)
  <2>1. ~Execute({Op.CALL})
    BY <1>1, OpFacts DEF Execute
  <2> QED
    BY <1>1, <2>1 DEF Traced
<1>4. At(pc).entry # shape.main /\ At(pc).depth - Takes(At(pc)) = FrameOf(pc)
  <2>1. Disciplined(pc)
    BY ShapeFacts DEF Ready, Inside
  <2> QED
    BY <1>1, <1>2, <2>1 DEF Disciplined
<1>5. CASE Fetch = Op.RETURN
  <2>1. Takes(At(pc)) = 1
    BY <1>2, <1>5, Effects
  <2>2. At(pc).depth = FrameOf(pc) + 1
    BY <1>2, <1>4, <2>1
  <2> QED
    BY <1>3, <1>4, <1>5, <2>2 DEF ReturnFrom, Return, Ready
<1>6. CASE Fetch = Op.RETURNZ
  <2>1. Takes(At(pc)) = 0
    BY <1>2, <1>6, Effects
  <2>2. At(pc).depth = FrameOf(pc)
    BY <1>2, <1>4, <2>1
  <2>3. Op.RETURNZ # Op.RETURN
    BY OpFacts
  <2> QED
    BY <1>3, <1>4, <1>6, <2>2, <2>3 DEF ReturnFrom, Return, Ready
<1> QED
  BY <1>1, <1>5, <1>6

LEMMA Halts ==
  ASSUME Ready, Halt
  PROVE  BalancedAtHalt'
<1>1. Fetch = Op.HALT /\ sp' = sp /\ fp' = fp /\ tos' = tos
  BY DEF Halt, Execute
<1>2. At(pc).op = Op.HALT /\ WellFormed /\ Sound /\ Inside
  BY <1>1, ReadyFacts DEF Ready
<1>3. At(pc).entry = shape.main /\ At(pc).depth = F_SIZE /\ At(pc).depth >= FrameOf(pc)
  <2>1. Disciplined(pc)
    BY <1>2, ShapeFacts DEF Ready, Inside
  <2> QED
    BY <1>2, <2>1, Here DEF Disciplined
<1>4. /\ Len(calls) \in Nat /\ Len(calls) >= 1 /\ Where(Len(calls)) = pc
      /\ fp = Base(Len(calls)) /\ sp = fp - F_SIZE /\ FrameOf(pc) \in Nat /\ FrameOf(pc) >= 1
      /\ At(pc).depth = FrameOf(pc) => tos = calls[Len(calls)].ret
  BY <1>2, <1>3, Here
<1>5. Len(calls) = 1
  <2>1. Len(calls) \in 1 .. Len(calls)
    BY <1>4
  <2> QED
    BY <1>2, <1>3, <1>4, <2>1 DEF Sound, Located
<1>6. At(pc).depth = FrameOf(pc)
  BY <1>3, <1>4 DEF F_SIZE
<1>7. Base(1) = StackSize /\ calls[1].ret \in Garbage
  BY <1>2 DEF Sound, Linked
<1> QED
  BY <1>1, <1>4, <1>5, <1>6, <1>7 DEF BalancedAtHalt
-----------------------------------------------------------------------------
(***************************************************************************)
(* The invariant is inductive.                                              *)
(***************************************************************************)

\* Only calls and returns change the calls in progress.
LEMMA SameCalls ==
  ASSUME calls' = Traced, Fetch \notin {Op.CALL, Op.RETURN, Op.RETURNZ}
  PROVE  calls' = calls
BY DEF Traced, Execute

LEMMA SameShape ==
  ASSUME WellFormed, shape' = shape
  PROVE  WellFormed'
<1>1. /\ \A a : /\ At(a)' = At(a) /\ FrameOf(a)' = FrameOf(a) /\ ArgsOf(a)' = ArgsOf(a)
              /\ Following(a)' = Following(a) /\ DepthAfter(a)' = DepthAfter(a)
      /\ Addresses' = Addresses /\ Entries' = Entries
  BY DEF At, FrameOf, ArgsOf, Addresses, Entries, Following, DepthAfter, Takes, Gives
<1>2. \A f, a, d : Callable(f, a, d)' <=> Callable(f, a, d)
  BY <1>1 DEF Callable
<1>3. \A a, b, d : Reaches(a, b, d)' <=> Reaches(a, b, d)
  BY <1>1, <1>2 DEF Reaches
<1>4. \A a : Disciplined(a) => Disciplined(a)'
  <2> TAKE a
  <2>1. /\ At(a)' = At(a) /\ FrameOf(a)' = FrameOf(a) /\ ArgsOf(a)' = ArgsOf(a)
        /\ Following(a)' = Following(a) /\ DepthAfter(a)' = DepthAfter(a)
    BY <1>1
  <2>2. Takes(At(a))' = Takes(At(a))
    BY <2>1 DEF Takes
  <2> QED
    BY <1>3, <2>1, <2>2 DEF Disciplined
<1> QED
  BY <1>1, <1>3, <1>4 DEF WellFormed

LEMMA MachineKeeps ==
  ASSUME Inv, MachineStep
  PROVE  Inv'
<1>0. /\ InterpreterNext /\ shape' = shape /\ calls' = Traced
      /\ trusted' = (trusted /\ (mem' = mem \/ Intact'))
  BY DEF MachineStep
<1>1. status = "running"
  BY <1>0 DEF InterpreterNext, Halt, Branch, ConditionalBranch, ShortCircuitBranch, Unary, Binary,
              Literal, Load, StoreWord, LocalRef, LocalSet, Index, Call, Clean, Frame, Return, Drop,
              Dup, Native, GetCharTrap, PrintTrap, Undefined, StackOverflow, RunWild, Execute
<1>2. CASE ~trusted
  BY <1>0, <1>2 DEF Inv, Going, BalancedAtHalt
<1>3. CASE trusted
  <2>1. Going /\ WellFormed /\ Intact /\ Sound /\ pc \in Addresses
    BY <1>1, <1>3, Positions DEF Inv, Going
  <2>2. CASE Halt
    <3>1. Inside
      <4>1. Fetch # Op.FRAME
        BY <2>2, OpFacts DEF Halt, Execute
      <4>2. ~Inside => Entering
        BY <1>0, <2>1 DEF Entering
      <4> QED
        BY <4>1, <4>2, EnteringFacts
    <3>2. BalancedAtHalt'
      BY <1>0, <2>1, <2>2, <3>1, Halts DEF Ready
    <3>3. ~Going'
      BY <2>2 DEF Halt, Going
    <3> QED
      BY <3>2, <3>3 DEF Inv
  <2>3. CASE Undefined \/ StackOverflow \/ RunWild
    BY <2>3 DEF Undefined, StackOverflow, RunWild, Inv, Going, BalancedAtHalt
  <2>4. CASE ~Halt /\ ~(Undefined \/ StackOverflow \/ RunWild)
    <3>1. status' = status
      BY <1>0, <2>4 DEF InterpreterNext, Branch, ConditionalBranch, ShortCircuitBranch, Unary, Binary,
              Literal, Load, StoreWord, LocalRef, LocalSet, Index, Call, Clean, Frame, Return, Drop,
              Dup, Native, GetCharTrap, PrintTrap
    <3>2. BalancedAtHalt'
      BY <1>1, <3>1 DEF BalancedAtHalt
    <3>3. WellFormed'
      BY <1>0, <2>1, SameShape
    <3>4. Going' => Intact'
      <4>1. mem' = mem => Intact'
        BY <1>0, <2>1 DEF Intact, Argument, Addresses, At
      <4> QED
        BY <1>0, <4>1 DEF Going
    <3>5. Sound'
      <4>1. CASE Inside
        <5>1. Ready
          BY <1>0, <2>1, <4>1 DEF Ready
        <5>2. Fetch # Op.FRAME
          <6>1. pc \in Addresses \ Entries
            BY <2>1, <4>1 DEF Inside
          <6> QED
            BY <2>1, <5>1, <6>1, ReadyFacts, ShapeFacts
        <5>3. CASE Call
          BY <1>0, <1>3, <5>1, <5>3, Calls
        <5>4. CASE Return
          BY <1>0, <1>3, <5>1, <5>4, ReturnsFrom, ReturnSound
        <5>5. CASE Branch \/ ConditionalBranch \/ ShortCircuitBranch \/ Unary \/ Load \/ Native
                   \/ Binary \/ Index \/ Drop \/ StoreWord \/ Clean \/ PrintTrap
                   \/ Literal \/ LocalRef \/ Dup \/ GetCharTrap \/ LocalSet
          <6>1. \/ Fetch \in BranchOps \cup UnaryOps \cup BinaryOps
                \/ Fetch \in {Op.LOAD, Op.LOADB, Op.NATIVE, Op.INDEX, Op.DROP, Op.STORE, Op.STOREB}
                \/ Fetch \in {Op.CLEAN, Op.TRAP, Op.LIT, Op.SLIT, Op.LREF, Op.DUP, Op.LSET}
            BY <5>5 DEF Branch, ConditionalBranch, ShortCircuitBranch, Unary, Load,
               Native, Binary, Index, Drop, StoreWord, Clean, PrintTrap, Literal, LocalRef, Dup,
               GetCharTrap, LocalSet, Execute, BranchOps
          <6>2. Fetch \notin {Op.CALL, Op.RETURN, Op.RETURNZ}
            BY <6>1, OpFacts, OpSets
          <6>3. calls' = calls
            BY <1>0, <6>2, SameCalls
          <6> QED
            BY <5>1, <5>5, <6>3, Branches, Level, Removals, Stores, Cleans, Prints, Pushes, LocalSets
        <5>6. ~Frame
          BY <5>2 DEF Frame, Execute
        <5> QED
          BY <1>0, <2>4, <5>3, <5>4, <5>5, <5>6 DEF InterpreterNext
      <4>2. CASE ~Inside
        <5>1. Entering
          BY <1>0, <2>1, <4>2 DEF Entering
        <5>2. Fetch = Op.FRAME
          BY <5>1, EnteringFacts
        <5>3. Frame
          BY <1>0, <2>4, <5>2, OpFacts, OpSets DEF InterpreterNext, Branch, ConditionalBranch,
             ShortCircuitBranch, Unary, Load, Native, Binary, Index, Drop, StoreWord, Clean,
             PrintTrap, Literal, LocalRef, Dup, GetCharTrap, LocalSet, Call, Return, Execute
        <5>4. calls' = calls
          BY <1>0, <5>2, SameCalls, OpFacts
        <5> QED
          BY <5>1, <5>3, <5>4, Frames
      <4> QED
        BY <4>1, <4>2
    <3> QED
      BY <3>2, <3>3, <3>4, <3>5 DEF Inv
  <2> QED
    BY <2>2, <2>3, <2>4
<1> QED
  BY <1>2, <1>3

\* The main program at its entry.
Started ==
  /\ WellFormed /\ pc = shape.main /\ sp = StackSize /\ fp = StackSize /\ tos \in Garbage
  /\ DOMAIN stack = 0 .. StackSize - 1
  /\ calls = <<[ret |-> tos, fp |-> StackSize, sp |-> StackSize]>>

LEMMA StartedSound ==
  ASSUME Started
  PROVE  Sound
<1>1. /\ WellFormed /\ pc = shape.main /\ pc \in Entries /\ pc \in Addresses /\ StackSize \in Int
      /\ At(pc).entry = pc /\ At(pc).op = Op.FRAME
  BY ShapeFacts DEF Started
<1>2. /\ Len(calls) = 1 /\ calls[1] = [ret |-> tos, fp |-> StackSize, sp |-> StackSize]
      /\ calls \in Seq(CallRecord)
  <2>1. [ret |-> tos, fp |-> StackSize, sp |-> StackSize] \in CallRecord
    BY DEF CallRecord, Started
  <2> QED
    BY <2>1 DEF Started
<1>3. Base(1) = StackSize /\ Where(1) = pc /\ Framed = 0 /\ ~Inside
  BY <1>1, <1>2 DEF Base, Where, Framed, Inside
<1>4. Typed
  BY <1>1, <1>2 DEF Typed, Started
<1>5. Located
  BY <1>1, <1>2, <1>3 DEF Located
<1>6. Linked
  BY <1>2, <1>3 DEF Linked, Started
<1>7. Apart
  BY <1>2 DEF Apart
<1>8. Saved /\ Returns
  BY <1>3 DEF Saved, Returns
<1>9. Registers
  BY <1>2, <1>3 DEF Registers, Started
<1>10. Calling
  <2>1. Op.FRAME # Op.CALL
    BY OpFacts
  <2> QED
    BY <1>1, <2>1 DEF Calling
<1> QED
  BY <1>4, <1>5, <1>6, <1>7, <1>8, <1>9, <1>10 DEF Sound

LEMMA StartKeeps ==
  ASSUME NEW image, NEW newShape, StartMachine(image, newShape)
  PROVE  Inv'
<1>1. BalancedAtHalt'
  BY DEF StartMachine, StartInterpreter, BalancedAtHalt
<1>2. ASSUME Going'
      PROVE  (WellFormed /\ Intact /\ Sound)'
  <2>1. (WellFormed /\ Intact)'
    BY <1>2 DEF Going, StartMachine
  <2>2. Started'
    BY <2>1 DEF Started, StartMachine, StartInterpreter
  <2>3. Started' => Sound'
    BY StartedSound, PTL
  <2> QED
    BY <2>1, <2>2, <2>3
<1> QED
  BY <1>1, <1>2 DEF Inv

\* What the properties ask for follows from the invariant.
LEMMA FramesFromSound ==
  ASSUME WellFormed, Sound
  PROVE  /\ pc \in Addresses
         /\ fp = IF Framed = 0 THEN StackSize ELSE calls[Framed].sp
         /\ \A m \in 1 .. Framed : stack[calls[m].sp - 1] = calls[m].fp
         /\ \A m \in 2 .. Len(calls) : calls[m].fp = calls[m - 1].sp /\ calls[m].sp < calls[m].fp
<1>1. Len(calls) \in Nat /\ Len(calls) >= 1 /\ pc \in Addresses
  BY Positions
<1>2. fp = IF Framed = 0 THEN StackSize ELSE calls[Framed].sp
  <2>1. CASE Inside
    BY <1>1, <2>1 DEF Framed, Inside, Sound, Registers, Base
  <2>2. CASE ~Inside
    <3>1. fp = calls[Len(calls)].fp /\ Framed = Len(calls) - 1
      BY <2>2 DEF Framed, Inside, Sound, Registers
    <3>2. CASE Len(calls) = 1
      BY <3>1, <3>2 DEF Sound, Linked
    <3>3. CASE Len(calls) # 1
      <4> SUFFICES ASSUME NEW k, k = Len(calls)
                   PROVE  fp = calls[k - 1].sp /\ Framed = k - 1 /\ k - 1 # 0
        OBVIOUS
      <4>1. k \in 2 .. k /\ k - 1 # 0
        BY <1>1, <3>3
      <4> QED
        BY <3>1, <4>1 DEF Sound, Linked, Base
    <3> QED
      BY <3>2, <3>3
  <2> QED
    BY <2>1, <2>2
<1>3. \A m \in 1 .. Framed : stack[calls[m].sp - 1] = calls[m].fp
  BY DEF Sound, Saved, Base
<1>4. ASSUME NEW m \in 2 .. Len(calls)
      PROVE  calls[m].fp = calls[m - 1].sp /\ calls[m].sp < calls[m].fp
  <2>1. /\ calls[m].fp = Base(m - 1) /\ Base(m) = Base(m - 1) - At(calls[m].ret).depth
        /\ ArgsOf(Where(m)) + FrameOf(calls[m].ret) + 1 <= At(calls[m].ret).depth
    BY DEF Sound, Linked
  <2>2. m \in 1 .. Len(calls) /\ m - 1 \in 1 .. Len(calls) /\ m - 1 # Len(calls) /\ m - 1 + 1 = m
    BY <1>1
  <2>3. calls[m].ret = Where(m - 1)
    BY <2>2 DEF Where
  <2>4. /\ FrameOf(calls[m].ret) \in Nat /\ ArgsOf(Where(m)) \in Nat /\ Base(m - 1) \in Int
        /\ At(calls[m].ret).depth \in Nat
    BY <2>2, <2>3, Positions, ShapeFacts
  <2>5. Base(m) < Base(m - 1)
    BY <2>1, <2>4
  <2> QED
    BY <2>1, <2>5 DEF Base
<1> QED
  BY <1>1, <1>2, <1>3, <1>4

LEMMA PoppedFacts ==
  /\ Fetch \in BinaryOps \cup {Op.INDEX, Op.BRT, Op.BRF, Op.DROP, Op.LSET, Op.RETURN} => Popped = 1
  /\ Fetch \in {Op.BRTSC, Op.BRFSC} => Popped \in {0, 1}
  /\ Fetch \in {Op.STORE, Op.STOREB} => Popped = 2
  /\ Fetch = Op.CLEAN => Popped = ByteArg
  /\ Fetch = Op.TRAP => Popped = IF ByteArg \in {1, 2, 3} THEN 1 ELSE 0
  /\ \/ Fetch \in BinaryOps \cup {Op.INDEX, Op.BRT, Op.BRF, Op.DROP, Op.LSET, Op.RETURN}
     \/ Fetch \in {Op.BRTSC, Op.BRFSC, Op.STORE, Op.STOREB, Op.CLEAN, Op.TRAP}
     \/ Popped = 0
  BY OpFacts, OpSets, TrapFacts DEF Popped, PopOps

LEMMA PoppedTaken ==
  ASSUME WellFormed, Intact, pc \in Addresses \ Entries
  PROVE  Popped \in Int /\ Popped <= Takes(At(pc))
<1>1. Fetch = At(pc).op
  BY Decoded
<1>2. Fetch \in {Op.CLEAN, Op.TRAP} => ByteArg = At(pc).arg
  BY Decoded, OpFacts, OpSets
<1>3. Takes(At(pc)) \in Nat /\ At(pc).arg \in Int
  BY TakesFacts, ShapeFacts
<1>4. CASE Fetch \in BinaryOps \cup {Op.INDEX, Op.BRT, Op.BRF, Op.DROP, Op.LSET, Op.RETURN}
  <2>1. CASE Fetch \in BinaryOps \cup {Op.INDEX}
    <3>1. Takes(At(pc)) = 2 /\ Popped = 1
      BY <1>1, <2>1, Effects, PoppedFacts
    <3> QED
      BY <3>1
  <2>2. CASE Fetch \in {Op.BRT, Op.BRF, Op.DROP, Op.LSET, Op.RETURN}
    <3>1. Takes(At(pc)) = 1 /\ Popped = 1
      BY <1>1, <2>2, Effects, PoppedFacts
    <3> QED
      BY <3>1
  <2> QED
    BY <1>4, <2>1, <2>2
<1>5. CASE Fetch \in {Op.BRTSC, Op.BRFSC}
  <2>1. Takes(At(pc)) = 1 /\ Popped \in {0, 1}
    BY <1>1, <1>5, Effects, PoppedFacts
  <2> QED
    BY <2>1
<1>6. CASE Fetch \in {Op.STORE, Op.STOREB}
  <2>1. Takes(At(pc)) = 2 /\ Popped = 2
    BY <1>1, <1>6, Effects, PoppedFacts
  <2> QED
    BY <2>1
<1>7. CASE Fetch = Op.CLEAN
  <2>1. Takes(At(pc)) = At(pc).arg + 1 /\ Popped = At(pc).arg
    BY <1>1, <1>2, <1>7, Effects, PoppedFacts
  <2> QED
    BY <1>3, <2>1
<1>8. CASE Fetch = Op.TRAP
  <2>1. At(pc).arg \in 1 .. 3 => Takes(At(pc)) = 1
    BY <1>1, <1>8, Effects
  <2>2. Popped = IF At(pc).arg \in {1, 2, 3} THEN 1 ELSE 0
    BY <1>2, <1>8, PoppedFacts
  <2> QED
    BY <1>3, <2>1, <2>2
<1> QED
  BY <1>3, <1>4, <1>5, <1>6, <1>7, <1>8, PoppedFacts

LEMMA StaysFromSound ==
  ASSUME WellFormed, Intact, Sound, Inside
  PROVE  /\ sp + Popped <= fp - FrameOf(pc)
         /\ Fetch \in {Op.LREF, Op.LSET} =>
              fp + SignedByte(ByteArg) \in fp - FrameOf(pc) .. fp + ArgsOf(pc) - 1
         /\ Len(calls) > 1 => fp + ArgsOf(pc) < Last(calls).fp - FrameOf(Last(calls).ret)
<1>1. /\ Len(calls) \in Nat /\ Len(calls) >= 1 /\ pc \in Addresses \ Entries /\ Where(Len(calls)) = pc
      /\ fp = Base(Len(calls)) /\ sp = fp - At(pc).depth
      /\ fp \in Int /\ At(pc).depth \in Nat /\ FrameOf(pc) \in Nat /\ ArgsOf(pc) \in Nat
  BY Here DEF Inside
<1>2. sp + Popped <= fp - FrameOf(pc)
  <2> DEFINE takes == Takes(At(pc))
             depth == At(pc).depth
             frame == FrameOf(pc)
  <2>1. takes \in Nat /\ depth >= frame + takes
    BY <1>1, TakesFacts
  <2>2. Popped \in Int /\ Popped <= takes
    BY <1>1, PoppedTaken
  <2>3. sp = fp - depth /\ fp \in Int /\ depth \in Nat /\ frame \in Nat
    BY <1>1
  <2> HIDE DEF takes, depth, frame
  <2>4. sp + Popped <= fp - frame
    BY <2>1, <2>2, <2>3
  <2> QED
    BY <2>4 DEF frame
<1>3. Fetch \in {Op.LREF, Op.LSET} =>
        fp + SignedByte(ByteArg) \in fp - FrameOf(pc) .. fp + ArgsOf(pc) - 1
  <2> SUFFICES ASSUME Fetch \in {Op.LREF, Op.LSET}
               PROVE  fp + SignedByte(ByteArg) \in fp - FrameOf(pc) .. fp + ArgsOf(pc) - 1
    OBVIOUS
  <2>1. Fetch = At(pc).op /\ ByteArg = At(pc).arg
    BY <1>1, Decoded, OpFacts, OpSets
  <2>2. Disciplined(pc)
    BY <1>1, ShapeFacts
  <2>3. SignedByte(ByteArg) \in -FrameOf(pc) .. ArgsOf(pc) - 1
    BY <2>1, <2>2 DEF Disciplined
  <2> QED
    BY <1>1, <2>3
<1>4. ASSUME Len(calls) > 1
      PROVE  fp + ArgsOf(pc) < Last(calls).fp - FrameOf(Last(calls).ret)
  <2> SUFFICES ASSUME NEW k, k = Len(calls)
               PROVE  fp + ArgsOf(pc) < calls[k].fp - FrameOf(calls[k].ret)
    BY DEF Last
  <2>0. k \in Nat /\ k >= 2
    BY <1>1, <1>4
  <2>1. k \in 2 .. k /\ k - 1 \in 1 .. k /\ k \in 1 .. k /\ k - 1 < k /\ k - 1 # k /\ (k - 1) + 1 = k
    BY <2>0
  <2>2. calls[k].fp = Base(k - 1)
    BY <2>1 DEF Sound, Linked
  <2>3. calls[k].ret = Where(k - 1)
    BY <2>1 DEF Where
  <2>4. Base(k) + ArgsOf(Where(k)) <= Base(k - 1) - FrameOf(Where(k - 1)) - 1
    BY <2>1 DEF Sound, Apart
  <2>5. Base(k - 1) \in Int /\ FrameOf(Where(k - 1)) \in Nat
    BY <2>1, Positions
  <2>6. fp + ArgsOf(pc) <= Base(k - 1) - FrameOf(Where(k - 1)) - 1
    BY <1>1, <2>4
  <2> QED
    BY <1>1, <2>2, <2>3, <2>5, <2>6
<1> QED
  BY <1>2, <1>3, <1>4

LEMMA ReturnGoesBack ==
  ASSUME Inv, MachineStep, Going, Execute({Op.RETURN, Op.RETURNZ})
  PROVE  /\ Len(calls) > 1
         /\ pc' = Last(calls).ret /\ fp' = Last(calls).fp /\ sp' = Last(calls).sp
<1>1. /\ WellFormed /\ Intact /\ Sound /\ pc \in Addresses /\ trusted
  BY Positions DEF Inv, Going
<1>2. InterpreterNext /\ shape' = shape /\ calls' = Traced
  BY DEF MachineStep
<1>3. Fetch \in {Op.RETURN, Op.RETURNZ} /\ InBounds /\ sp >= Reserved
  BY DEF Execute
<1>4. Inside
  <2>1. ~Inside => Entering
    BY <1>1, <1>2 DEF Entering
  <2> QED
    BY <1>3, <2>1, EnteringFacts, OpFacts
<1>5. Ready
  BY <1>1, <1>2, <1>4 DEF Ready
<1>6. Reserved \in {0, 1} /\ sp \in Int
  <2>1. Fetch # Op.FRAME
    BY <1>3, OpFacts
  <2> QED
    BY <1>5, <2>1, ReadyFacts DEF Reserved
<1>7. Return
  <2>1. ~Undefined
    <3>1. Fetch \in AllOps
      BY <1>3 DEF AllOps, Op
    <3>2. Fetch # Op.TRAP
      BY <1>3, OpFacts
    <3> QED
      BY <3>1, <3>2 DEF Undefined
  <2>2. ~StackOverflow /\ ~RunWild
    BY <1>3, <1>6 DEF StackOverflow, RunWild
  <2>3. Fetch \notin BranchOps \cup UnaryOps \cup BinaryOps
    BY <1>3, OpFacts, OpSets
  <2>4. Fetch \notin {Op.HALT, Op.LIT, Op.SLIT, Op.LOAD, Op.LOADB, Op.STORE, Op.STOREB, Op.LREF, Op.LSET,
                      Op.INDEX, Op.CALL, Op.FRAME, Op.CLEAN, Op.DROP, Op.DUP, Op.NATIVE, Op.TRAP}
    BY <1>3, OpFacts
  <2> QED
    BY <1>2, <2>1, <2>2, <2>3, <2>4 DEF InterpreterNext, Halt, Branch, ConditionalBranch,
       ShortCircuitBranch, Unary, Load, Native, Binary, Index, Drop, StoreWord, Clean, PrintTrap,
       Literal, LocalRef, Dup, GetCharTrap, LocalSet, Call, Frame, Execute, BranchOps
<1>8. ReturnFrom
  BY <1>1, <1>2, <1>5, <1>7, ReturnsFrom
<1> SUFFICES ASSUME NEW CONSTANT k, k = Len(calls)
             PROVE  /\ Len(calls) > 1
                    /\ pc' = Last(calls).ret /\ fp' = Last(calls).fp /\ sp' = Last(calls).sp
  OBVIOUS
<1>9. /\ k \in Nat /\ k >= 2
      /\ pc' = calls[k].ret /\ fp' = calls[k].fp /\ sp' = calls[k].sp
  BY <1>8, ReturnFacts
<1> QED
  BY <1>9 DEF Last

LEMMA Stutter ==
  ASSUME Inv, UNCHANGED mvars
  PROVE  Inv'
<1>1. /\ shape' = shape /\ pc' = pc /\ calls' = calls /\ stack' = stack /\ mem' = mem
      /\ sp' = sp /\ fp' = fp /\ tos' = tos /\ status' = status /\ trusted' = trusted
  BY DEF mvars
<1>2. BalancedAtHalt' /\ Going' = Going
  BY <1>1 DEF Inv, BalancedAtHalt, Going
<1>3. /\ \A a : At(a)' = At(a) /\ FrameOf(a)' = FrameOf(a) /\ ArgsOf(a)' = ArgsOf(a)
      /\ Addresses' = Addresses /\ Entries' = Entries /\ Framed' = Framed /\ Inside' = Inside
      /\ \A m : Base(m)' = Base(m) /\ Where(m)' = Where(m)
  BY <1>1 DEF At, FrameOf, ArgsOf, Addresses, Entries, Framed, Inside, Base, Where
<1>4. \A m : Slot(m)' = Slot(m)
  BY <1>3 DEF Slot
<1>5. \A f, a, d : Callable(f, a, d)' <=> Callable(f, a, d)
  BY <1>1, <1>3 DEF Callable
<1>6. CASE Going
  <2>1. WellFormed /\ Intact /\ Sound
    BY <1>6 DEF Inv
  <2>2. WellFormed'
    BY <1>1, <2>1, SameShape
  <2>3. Intact'
    BY <1>1, <1>3, <2>1 DEF Intact, Argument
  <2>4. Typed' /\ Located' /\ Linked' /\ Apart'
    BY <1>1, <1>3, <2>1 DEF Sound, Typed, Located, Linked, Apart
  <2>5. Saved' /\ Returns'
    BY <1>1, <1>3, <1>4, <2>1 DEF Sound, Saved, Returns
  <2>6. Registers' /\ Calling'
    BY <1>1, <1>3, <1>5, <2>1 DEF Sound, Registers, Calling
  <2> QED
    BY <1>2, <2>2, <2>3, <2>4, <2>5, <2>6 DEF Inv, Sound
<1> QED
  BY <1>2, <1>6 DEF Inv
-----------------------------------------------------------------------------
\* Trusted code of any shape, on a stack of any size: the frames and return
\* addresses of the calls in progress are as the shape has them.
THEOREM MachineInvariant == MachineSpec => []Inv
<1>1. MachineIdle => Inv
  BY DEF MachineIdle, InterpreterIdle, Inv, Going, BalancedAtHalt
<1>2. Inv /\ [MachineNext]_mvars => Inv'
  <2> SUFFICES ASSUME Inv, [MachineNext]_mvars
               PROVE  Inv'
    OBVIOUS
  <2>1. CASE MachineStep
    BY <2>1, MachineKeeps
  <2>2. CASE \E image \in Images : \E newShape : StartMachine(image, newShape)
    BY <2>2, StartKeeps
  <2>3. CASE UNCHANGED mvars
    BY <2>3, Stutter
  <2> QED
    BY <2>1, <2>2, <2>3 DEF MachineNext
<1> QED
  BY <1>1, <1>2, PTL DEF MachineSpec

\* Control stays at the instructions of the code (PcOnBoundary): no branch, call or
\* return of Execute leads into the middle of one or out of it.
THEOREM ControlOnBoundary == MachineSpec => []PcOnBoundary
<1>1. Inv => PcOnBoundary
  BY FramesFromSound DEF Inv, PcOnBoundary
<1> QED
  BY <1>1, MachineInvariant, PTL

\* Each frame keeps its caller's frame pointer until RETURN takes it (FrameChainIntact).
THEOREM FramesKept == MachineSpec => []FrameChainIntact
<1>1. Inv => FrameChainIntact
  BY FramesFromSound DEF Inv, FrameChainIntact
<1> QED
  BY <1>1, MachineInvariant, PTL

\* Nothing is popped that is not the function's own, and locals and arguments
\* are its own (StaysInFrame), which vmint.c never checks.
THEOREM OperandsOwn == MachineSpec => []StaysInFrame
<1>1. Inv => StaysInFrame
  BY StaysFromSound DEF Inv, StaysInFrame, Inside
<1> QED
  BY <1>1, MachineInvariant, PTL

\* The stack is empty but for the main function's frame at OP_HALT (BalancedAtHalt).
THEOREM EmptyAtHalt == MachineSpec => []BalancedAtHalt
<1>1. Inv => BalancedAtHalt
  BY DEF Inv
<1> QED
  BY <1>1, MachineInvariant, PTL

\* Every RETURN and RETURNZ goes back to the instruction after its CALL, with the
\* caller's frame pointer and operands (ReturnsToCaller).
THEOREM ReturnsGoBack == MachineSpec => ReturnsToCaller
<1> DEFINE Back == Going /\ Execute({Op.RETURN, Op.RETURNZ}) =>
                     /\ Len(calls) > 1
                     /\ pc' = Last(calls).ret /\ fp' = Last(calls).fp /\ sp' = Last(calls).sp
<1>1. Inv /\ [MachineNext]_mvars => [Back]_mvars
  <2> SUFFICES ASSUME Inv, MachineNext, Going, Execute({Op.RETURN, Op.RETURNZ})
               PROVE  /\ Len(calls) > 1
                      /\ pc' = Last(calls).ret /\ fp' = Last(calls).fp /\ sp' = Last(calls).sp
    OBVIOUS
  <2>1. MachineStep
    BY DEF MachineNext, Going
  <2> QED
    BY <2>1, ReturnGoesBack
<1> QED
  BY <1>1, MachineInvariant, PTL DEF MachineSpec, ReturnsToCaller
-----------------------------------------------------------------------------
(***************************************************************************)
(* The machine's words, whatever code it executes.                          *)
(***************************************************************************)
Stack == [0 .. StackSize - 1 -> VMVALUE]

LEMMA ByteFacts == \A b \in Byte : b \in Nat /\ b <= 255
<1>1. PICK n \in Nat : n = 255
  OBVIOUS
<1>2. Byte = 0 .. n
  BY <1>1 DEF Byte
<1>3. \A b \in 0 .. n : b \in Nat /\ b <= n
  OBVIOUS
<1> QED
  BY <1>1, <1>2, <1>3

\* A byte is a word, with a sign or without.
LEMMA WordFacts ==
  /\ AddressSpace \in Nat /\ AddressSpace > 255 /\ StackSize < AddressSpace
  /\ VMVALUE \subseteq Int
  /\ \A b \in Byte : b \in VMVALUE /\ SignedByte(b) \in VMVALUE
  /\ 0 .. StackSize \subseteq VMVALUE
<1>1. PICK h \in Nat : h = AddressSpace /\ h > 255
  <2>1. PICK k \in Nat : W - 2 = k /\ W - 1 = k + 1 /\ W = (k + 1) + 1
    BY WordsAssumption
  <2>2. PICK n \in Nat \ {0} : Capacity[W] = 256 * (256 * n)
    <3>1. PICK n \in Nat \ {0} : n = Capacity[k]
      BY CapacityFacts
    <3>2. Capacity[k + 1] = 256 * n
      BY <3>1, CapacityFacts
    <3>3. k + 1 \in Nat
      OBVIOUS
    <3>4. Capacity[(k + 1) + 1] = 256 * (256 * n)
      BY <3>2, <3>3, CapacityFacts
    <3> QED BY <2>1, <3>4
  <2>3. Modulus = 65536 * n
    BY <2>2 DEF Modulus
  <2> QED BY <2>3, ModulusFacts
<1>2. StackSize < h
  BY <1>1, WordsAssumption
<1>3. \A b \in Byte : /\ b \in Nat /\ b <= 255
                       /\ SignedByte(b) \in Int /\ -128 <= SignedByte(b) /\ SignedByte(b) <= 127
  BY ByteFacts DEF SignedByte
<1>4. \A x \in Int : x \in VMVALUE <=> -h <= x /\ x < h
  BY <1>1 DEF VMVALUE
<1>5. \A b \in Byte : b \in VMVALUE /\ SignedByte(b) \in VMVALUE
  <2> TAKE b \in Byte
  <2>1. PICK x \in Int : x = SignedByte(b) /\ -128 <= x /\ x <= 127
    BY <1>3
  <2>2. b \in VMVALUE /\ x \in VMVALUE
    BY <1>1, <1>3, <1>4, <2>1
  <2> QED BY <2>1, <2>2
<1>6. 0 .. StackSize \subseteq VMVALUE
  BY <1>1, <1>2, <1>4
<1> QED
  BY <1>1, <1>2, <1>5, <1>6 DEF VMVALUE

LEMMA MemFacts ==
  ASSUME mem \in Images
  PROVE  /\ Len(mem) \in Nat /\ \A i \in 1 .. Len(mem) : mem[i] \in Byte
         /\ 0 .. Len(mem) \subseteq VMVALUE
<1>1. mem \in Seq(Byte) /\ Len(mem) \in Nat /\ Len(mem) < AddressSpace
  BY DEF Images
<1>2. PICK h \in Nat : h = AddressSpace /\ h >= 128
  BY ModulusFacts
<1>3. 0 .. Len(mem) \subseteq VMVALUE
  BY <1>1, <1>2 DEF VMVALUE
<1> QED
  BY <1>1, <1>3

\* The bytes at an address of the image are a word, in either order.
LEMMA WordRead ==
  ASSUME mem \in Images, NEW a \in 0 .. Len(mem) - W
  PROVE  CodeWordValue(Bytes(mem, a, W)) \in VMVALUE /\ DataWordValue(Bytes(mem, a, W)) \in VMVALUE
<1>1. mem \in Seq(Byte) /\ Len(mem) \in Nat /\ a \in Nat /\ a + W <= Len(mem)
  BY DEF Images
<1> DEFINE bytes == Bytes(mem, a, W)
<1>2. bytes = [i \in 1 .. W |-> mem[a + i]]
  BY <1>1, BytesFacts
<1>3. \A i \in 1 .. W : mem[a + i] \in Int
  <2> TAKE i \in 1 .. W
  <2>1. PICK j \in 1 .. Len(mem) : j = a + i
    BY <1>1
  <2>2. mem[j] \in Byte
    BY MemFacts
  <2>3. mem[j] \in Int
    BY <2>2, ByteFacts
  <2> QED BY <2>1, <2>3
<1>4. Len(bytes) = W
  BY <1>2
<1>5. \A i \in 1 .. W : bytes[i] \in Int
  BY <1>2, <1>3
<1> HIDE DEF bytes
<1>6. \A i \in 1 .. W : Reverse(bytes)[i] \in Int
  <2>1. \A i \in 1 .. W : Reverse(bytes)[i] = bytes[(W - i) + 1] /\ (W - i) + 1 \in 1 .. W
    BY <1>4 DEF Reverse
  <2> QED BY <1>5, <2>1
<1>7. CodeWordValue(bytes) \in VMVALUE
  BY <1>5, ReadIsWord
<1>8. CodeWordValue(Reverse(bytes)) \in VMVALUE
  BY <1>6, ReadIsWord
<1> QED
  BY <1>7, <1>8 DEF bytes, DataWordValue

\* The operands of an instruction that is in bounds.
LEMMA InstructionFacts ==
  ASSUME MachineTypeOK, InBounds
  PROVE  /\ pc \in 0 .. Len(mem) - 1 /\ NextPc \in VMVALUE
         /\ Fetch \in ByteOps => ByteArg \in Byte
         /\ Fetch \in WordOps => WordArg \in VMVALUE
<1>1. mem \in Images /\ Len(mem) \in Nat
  BY MemFacts DEF MachineTypeOK
<1>2. pc \in 0 .. Len(mem) - 1 /\ NextPc <= Len(mem)
  BY DEF InBounds
<1>3. NextPc = pc + (1 + IF Fetch \in WordOps THEN W ELSE IF Fetch \in ByteOps THEN 1 ELSE 0)
  BY DEF NextPc, InstructionLength
<1>4. NextPc \in 0 .. Len(mem)
  BY <1>1, <1>2, <1>3
<1>5. Fetch \in ByteOps => ByteArg \in Byte
  <2> SUFFICES ASSUME Fetch \in ByteOps PROVE ByteArg \in Byte
    OBVIOUS
  <2>1. Fetch \notin WordOps
    BY OpSets
  <2>2. pc + 2 \in 1 .. Len(mem)
    BY <1>1, <1>2, <1>3, <2>1
  <2> QED BY <1>1, <2>2, MemFacts DEF ByteArg
<1>6. Fetch \in WordOps => WordArg \in VMVALUE
  <2> SUFFICES ASSUME Fetch \in WordOps PROVE WordArg \in VMVALUE
    OBVIOUS
  <2>1. pc + 1 \in 0 .. Len(mem) - W
    BY <1>1, <1>2, <1>3
  <2> QED BY <1>1, <2>1, WordRead DEF WordArg
<1>7. NextPc \in VMVALUE
  BY <1>1, <1>4, MemFacts
<1> QED
  BY <1>2, <1>5, <1>6, <1>7

\* The words that an instruction takes off the stack are on it.
LEMMA PoppedWords ==
  ASSUME MachineTypeOK, InBounds
  PROVE  /\ Popped = 1 => stack[sp] \in VMVALUE /\ sp + 1 \in 0 .. StackSize
         /\ Popped = 2 => stack[sp] \in VMVALUE /\ stack[sp + 1] \in VMVALUE /\ sp + 2 \in 0 .. StackSize
<1>1. sp \in 0 .. StackSize /\ stack \in [0 .. StackSize - 1 -> VMVALUE]
  BY DEF MachineTypeOK
<1>2. sp + Popped <= StackSize
  BY DEF InBounds
<1>3. Popped = 1 => sp \in 0 .. StackSize - 1
  BY <1>1, <1>2
<1>4. Popped = 2 => sp \in 0 .. StackSize - 1 /\ sp + 1 \in 0 .. StackSize - 1
  BY <1>1, <1>2
<1> QED
  BY <1>1, <1>3, <1>4

\* Bytes stored in the image leave an image.
LEMMA StoredImage ==
  ASSUME mem \in Images, NEW a \in Nat, NEW w \in Seq(Byte), NEW n \in Nat, Len(w) = n, a + n <= Len(mem)
  PROVE  Overwrite(mem, a, w) \in Images
<1>1. mem \in Seq(Byte) /\ Len(mem) < AddressSpace
  BY DEF Images
<1> QED
  BY <1>1, OverwriteFacts DEF Images

LEMMA DataWordType ==
  ASSUME NEW v \in Int
  PROVE  DataWord(v) \in Seq(Byte) /\ Len(DataWord(v)) = W
<1> DEFINE w == CodeWord(v)
<1>1. w \in Seq(Byte) /\ Len(w) = W
  BY CodeWordType
<1> HIDE DEF w
<1>2. Reverse(w) = [i \in 1 .. W |-> w[(W - i) + 1]]
  BY <1>1 DEF Reverse
<1>3. \A i \in 1 .. W : w[(W - i) + 1] \in Byte
  <2>1. \A i \in 1 .. W : (W - i) + 1 \in 1 .. Len(w)
    BY <1>1
  <2> QED BY <1>1, <2>1
<1>4. Reverse(w) \in [1 .. W -> Byte]
  BY <1>2, <1>3
<1>5. Reverse(w) \in Seq(Byte) /\ Len(Reverse(w)) = W
  BY <1>4
<1> QED
  BY <1>5 DEF DataWord, w

LEMMA QuietTyped ==
  ASSUME MachineTypeOK, Halt \/ Branch \/ Native \/ Undefined \/ StackOverflow \/ RunWild
  PROVE  MachineTypeOK'
  BY DEF MachineTypeOK, Halt, Branch, Native, Undefined, StackOverflow, RunWild

\* A word pushed where there is room.
LEMMA PushTyped ==
  ASSUME MachineTypeOK, sp > 0, NEW v \in VMVALUE
  PROVE  sp - 1 \in 0 .. StackSize /\ [stack EXCEPT ![sp - 1] = v] \in Stack
<1>1. sp \in 0 .. StackSize /\ stack \in Stack
  BY DEF MachineTypeOK, Stack
<1>2. sp - 1 \in 0 .. StackSize - 1
  BY <1>1
<1> QED
  BY <1>1, <1>2 DEF Stack

LEMMA PopTyped ==
  ASSUME MachineTypeOK, InBounds, Popped = 1, Pop, mem' = mem, fp' = fp, status' = status, tos' \in VMVALUE
  PROVE  MachineTypeOK'
<1>1. sp' \in 0 .. StackSize /\ stack' = stack
  BY PoppedWords DEF Pop
<1> QED
  BY <1>1 DEF MachineTypeOK

LEMMA BranchTyped ==
  ASSUME MachineTypeOK, ConditionalBranch \/ ShortCircuitBranch
  PROVE  MachineTypeOK'
<1>1. InBounds
  BY DEF ConditionalBranch, ShortCircuitBranch, Execute
<1>2. CASE ConditionalBranch
  <2>1. Popped = 1
    BY <1>2, PoppedFacts DEF ConditionalBranch, Execute
  <2> QED BY <1>1, <1>2, <2>1, PoppedWords, PopTyped DEF ConditionalBranch
<1>3. CASE ShortCircuitBranch
  <2>1. CASE (Fetch = Op.BRTSC) <=> (tos # 0)
    BY <1>3, <2>1 DEF ShortCircuitBranch, MachineTypeOK
  <2>2. CASE ~((Fetch = Op.BRTSC) <=> (tos # 0))
    <3>1. Popped = 1
      BY <1>3, <2>2, OpFacts, OpSets DEF ShortCircuitBranch, Execute, Popped, PopOps
    <3> QED BY <1>1, <1>3, <2>2, <3>1, PoppedWords, PopTyped DEF ShortCircuitBranch
  <2> QED BY <2>1, <2>2
<1> QED
  BY <1>2, <1>3

LEMMA OperatorTyped ==
  ASSUME MachineTypeOK, Unary \/ Binary \/ Index \/ Drop
  PROVE  MachineTypeOK'
<1>1. InBounds /\ tos \in VMVALUE /\ 0 \in VMVALUE
  BY WordFacts DEF MachineTypeOK, Unary, Binary, Index, Drop, Execute
<1>2. CASE Unary
  <2>1. tos' \in VMVALUE
    BY <1>1, <1>2, UnaryIsWord DEF Unary, Execute
  <2> QED BY <1>2, <2>1 DEF Unary, MachineTypeOK
<1>3. CASE Binary
  <2>1. Fetch \in BinaryOps /\ Popped = 1
    BY <1>3, PoppedFacts DEF Binary, Execute
  <2>2. stack[sp] \in VMVALUE
    BY <1>1, <2>1, PoppedWords
  <2>3. ZeroDivisor \/ Defined(Fetch, stack[sp], tos)
    BY <1>1, <2>1 DEF InBounds
  <2>4. tos' \in VMVALUE
    BY <1>1, <1>3, <2>1, <2>2, <2>3, BinaryIsWord DEF Binary
  <2> QED BY <1>1, <1>3, <2>1, <2>4, PopTyped DEF Binary
<1>4. CASE Index
  <2>1. Popped = 1
    BY <1>4, PoppedFacts DEF Index, Execute
  <2>2. stack[sp] \in Int /\ tos \in Int
    BY <1>1, <2>1, PoppedWords, WordFacts
  <2>3. stack[sp] + tos * W \in Int
    BY <2>2
  <2>4. tos' \in VMVALUE
    BY <1>4, <2>3, WrapIsWord DEF Index
  <2> QED BY <1>1, <1>4, <2>1, <2>4, PopTyped DEF Index
<1>5. CASE Drop
  <2>1. Popped = 1
    BY <1>5, PoppedFacts DEF Drop, Execute
  <2> QED BY <1>1, <1>5, <2>1, PoppedWords, PopTyped DEF Drop
<1> QED
  BY <1>2, <1>3, <1>4, <1>5

LEMMA PushingTyped ==
  ASSUME MachineTypeOK, Literal \/ LocalRef \/ Dup \/ GetCharTrap
  PROVE  MachineTypeOK'
<1>1. InBounds /\ tos \in VMVALUE /\ fp \in VMVALUE /\ sp \in 0 .. StackSize
  BY DEF MachineTypeOK, Literal, LocalRef, Dup, GetCharTrap, Execute
<1>2. sp > 0
  <2>1. CASE Literal \/ LocalRef \/ Dup
    <3>1. Reserved = 1 /\ sp >= Reserved
      BY <2>1, OpFacts DEF Literal, LocalRef, Dup, Execute, Reserved, PushOps
    <3> QED BY <1>1, <3>1
  <2>2. CASE GetCharTrap
    BY <1>1, <2>2 DEF GetCharTrap, Execute, InBounds
  <2> QED BY <2>1, <2>2
<1>3. sp - 1 \in 0 .. StackSize /\ [stack EXCEPT ![sp - 1] = tos] \in Stack
  BY <1>1, <1>2, PushTyped
<1>4. sp' = sp - 1 /\ stack' = [stack EXCEPT ![sp - 1] = tos] /\ mem' = mem /\ fp' = fp /\ status' = status
  BY DEF Literal, LocalRef, Dup, GetCharTrap, Push
<1>5. tos' \in VMVALUE
  <2>1. CASE Literal
    <3>1. Fetch = Op.LIT => WordArg \in VMVALUE
      BY <1>1, InstructionFacts, OpFacts, OpSets
    <3>2. Fetch = Op.SLIT => SignedByte(ByteArg) \in VMVALUE
      BY <1>1, InstructionFacts, OpFacts, OpSets, WordFacts
    <3> QED BY <2>1, <3>1, <3>2 DEF Literal, Execute
  <2>2. CASE LocalRef
    <3>1. fp + SignedByte(ByteArg) \in 0 .. StackSize - 1
      BY <1>1, <2>2 DEF LocalRef, Execute, InBounds
    <3>2. tos' = stack'[fp + SignedByte(ByteArg)]
      BY <2>2 DEF LocalRef
    <3> QED BY <1>3, <1>4, <3>1, <3>2 DEF Stack
  <2>3. CASE Dup
    BY <1>1, <2>3 DEF Dup
  <2>4. CASE GetCharTrap
    BY <2>4, WordsAssumption DEF GetCharTrap
  <2> QED BY <2>1, <2>2, <2>3, <2>4
<1> QED
  BY <1>1, <1>3, <1>4, <1>5 DEF MachineTypeOK, Stack

LEMMA MemoryTyped ==
  ASSUME MachineTypeOK, Load \/ StoreWord
  PROVE  MachineTypeOK'
<1>1. InBounds /\ mem \in Images
  BY DEF MachineTypeOK, Load, StoreWord, Execute
<1>2. CASE Load
  <2>1. Fetch \in {Op.LOAD, Op.LOADB} /\ Op.LOAD # Op.LOADB
    BY <1>2, OpFacts DEF Load, Execute
  <2>2. CASE Fetch = Op.LOAD
    <3>1. tos \in 0 .. Len(mem) - W
      BY <1>1, <2>2 DEF InBounds
    <3>2. tos' \in VMVALUE
      BY <1>1, <1>2, <2>2, <3>1, WordRead DEF Load
    <3> QED BY <1>2, <3>2 DEF Load, MachineTypeOK
  <2>3. CASE Fetch = Op.LOADB
    <3>1. tos \in 0 .. Len(mem) - 1
      BY <1>1, <2>3 DEF InBounds
    <3>2. tos + 1 \in 1 .. Len(mem)
      BY <1>1, <3>1, MemFacts
    <3>3. tos' \in VMVALUE
      BY <1>1, <1>2, <2>1, <2>3, <3>2, MemFacts, WordFacts DEF Load
    <3> QED BY <1>2, <3>3 DEF Load, MachineTypeOK
  <2> QED BY <2>1, <2>2, <2>3
<1>3. CASE StoreWord
  <2>1. Fetch \in {Op.STORE, Op.STOREB} /\ Op.STORE # Op.STOREB /\ Popped = 2
    BY <1>3, OpFacts, PoppedFacts DEF StoreWord, Execute
  <2>2. /\ stack[sp] \in VMVALUE /\ stack[sp + 1] \in VMVALUE /\ sp + 2 \in 0 .. StackSize
        /\ stack[sp] \in Int
    BY <1>1, <2>1, PoppedWords, WordFacts
  <2>3. mem' \in Images
    <3>1. CASE Fetch = Op.STORE
      <4>1. tos \in Nat /\ tos + W <= Len(mem)
        <5>1. tos \in 0 .. Len(mem) - W
          BY <1>1, <3>1 DEF InBounds
        <5> QED BY <1>1, <5>1, MemFacts
      <4>2. mem' = Overwrite(mem, tos, DataWord(stack[sp]))
        BY <1>3, <3>1 DEF StoreWord
      <4> QED BY <1>1, <2>2, <4>1, <4>2, DataWordType, StoredImage
    <3>2. CASE Fetch = Op.STOREB
      <4>1. tos \in Nat /\ tos + 1 <= Len(mem)
        <5>1. tos \in 0 .. Len(mem) - 1
          BY <1>1, <3>2 DEF InBounds
        <5> QED BY <1>1, <5>1, MemFacts
      <4>2. mem' = Overwrite(mem, tos, <<stack[sp] % 256>>)
        BY <1>3, <2>1, <3>2 DEF StoreWord
      <4>3. (stack[sp] % 256) \in Byte
        BY <2>2 DEF Byte
      <4>4. <<stack[sp] % 256>> \in Seq(Byte) /\ Len(<<stack[sp] % 256>>) = 1
        BY <4>3
      <4> QED BY <1>1, <4>1, <4>2, <4>4, StoredImage
    <3> QED BY <2>1, <3>1, <3>2
  <2> QED BY <1>3, <2>2, <2>3 DEF StoreWord, MachineTypeOK
<1> QED
  BY <1>2, <1>3

LEMMA LocalSetTyped ==
  ASSUME MachineTypeOK, LocalSet
  PROVE  MachineTypeOK'
<1>1. InBounds /\ tos \in VMVALUE /\ stack \in Stack /\ Fetch = Op.LSET
  BY DEF MachineTypeOK, LocalSet, Execute, Stack
<1>2. fp + SignedByte(ByteArg) \in 0 .. StackSize - 1
  BY <1>1 DEF InBounds
<1>3. stack' \in Stack
  BY <1>1, <1>2 DEF LocalSet, Stack
<1>4. sp \in 0 .. StackSize - 1 /\ sp + 1 \in 0 .. StackSize
  <2>1. Popped = 1 /\ sp \in 0 .. StackSize /\ sp + Popped <= StackSize
    BY <1>1, PoppedFacts DEF InBounds, MachineTypeOK
  <2> QED BY <2>1
<1>5. tos' \in VMVALUE
  BY <1>3, <1>4 DEF LocalSet, Stack
<1> QED
  BY <1>3, <1>4, <1>5 DEF LocalSet, MachineTypeOK, Stack

LEMMA CallTyped ==
  ASSUME MachineTypeOK, Call
  PROVE  MachineTypeOK'
<1>1. NextPc \in VMVALUE
  BY InstructionFacts DEF Call, Execute
<1> QED
  BY <1>1 DEF Call, MachineTypeOK

LEMMA FrameTyped ==
  ASSUME MachineTypeOK, Frame
  PROVE  MachineTypeOK'
<1>1. /\ InBounds /\ sp \in 0 .. StackSize /\ stack \in Stack /\ fp \in VMVALUE /\ Fetch = Op.FRAME
      /\ 0 \in VMVALUE /\ sp \in VMVALUE
  BY WordFacts DEF MachineTypeOK, Frame, Execute, Stack
<1>2. ByteArg \in Nat /\ sp >= ByteArg
  <2>1. ByteArg \in Byte
    BY <1>1, InstructionFacts, OpFacts, OpSets
  <2>2. Reserved = ByteArg /\ sp >= Reserved
    BY <1>1 DEF Frame, Execute, Reserved
  <2> QED BY <2>1, <2>2 DEF Byte
<1>3. sp - ByteArg \in 0 .. StackSize
  BY <1>1, <1>2
<1>4. stack' \in Stack
  <2>1. stack' = [i \in 0 .. StackSize - 1 |->
                    IF i = sp - 1 THEN fp ELSE IF i \in sp - ByteArg .. sp - 1 THEN 0 ELSE stack[i]]
    BY <1>1 DEF Frame, Stack
  <2>2. \A i \in 0 .. StackSize - 1 : stack[i] \in VMVALUE
    BY <1>1 DEF Stack
  <2> QED BY <1>1, <2>1, <2>2 DEF Stack
<1> QED
  BY <1>1, <1>3, <1>4 DEF Frame, MachineTypeOK, Stack

LEMMA ReturnTyped ==
  ASSUME MachineTypeOK, Return
  PROVE  MachineTypeOK'
<1>1. InBounds /\ tos \in VMVALUE /\ stack \in Stack /\ 0 \in VMVALUE /\ fp \in 1 .. StackSize
  <2>1. Fetch \in {Op.RETURN, Op.RETURNZ} /\ InBounds
    BY DEF Return, Execute
  <2>2. fp \in 1 .. StackSize
    BY <2>1 DEF InBounds
  <2> QED BY <2>1, <2>2, WordFacts DEF MachineTypeOK, Stack
<1>2. stack' \in Stack /\ tos' \in VMVALUE
  <2>1. CASE Fetch = Op.RETURN
    BY <1>1, <2>1 DEF Return
  <2>2. CASE Fetch # Op.RETURN
    <3>1. Fetch = Op.RETURNZ /\ sp >= Reserved
      BY <2>2 DEF Return, Execute
    <3>2. Reserved = 1
      BY <3>1, OpFacts DEF Reserved, PushOps
    <3>3. sp > 0
      BY <3>1, <3>2 DEF MachineTypeOK
    <3>4. [stack EXCEPT ![sp - 1] = tos] \in Stack
      BY <1>1, <3>3, PushTyped
    <3> QED BY <1>1, <2>2, <3>4 DEF Return
  <2> QED BY <2>1, <2>2
<1>3. fp - 1 \in 0 .. StackSize - 1
  BY <1>1
<1>4. fp' \in VMVALUE
  BY <1>2, <1>3 DEF Return, Stack
<1>5. sp' \in 0 .. StackSize
  BY <1>1 DEF Return
<1> QED
  BY <1>2, <1>4, <1>5 DEF Return, MachineTypeOK, Stack

LEMMA CleanTyped ==
  ASSUME MachineTypeOK, Clean
  PROVE  MachineTypeOK'
<1>1. InBounds /\ Fetch = Op.CLEAN /\ sp \in 0 .. StackSize
  BY DEF MachineTypeOK, Clean, Execute
<1>2. ByteArg \in Nat
  <2>1. ByteArg \in Byte
    BY <1>1, InstructionFacts, OpFacts, OpSets
  <2> QED BY <2>1, ByteFacts
<1>3. sp + ByteArg <= StackSize
  BY <1>1, PoppedFacts DEF InBounds
<1>4. sp + ByteArg \in 0 .. StackSize
  BY <1>1, <1>2, <1>3
<1> QED
  BY <1>4 DEF Clean, MachineTypeOK

LEMMA PrintTyped ==
  ASSUME MachineTypeOK, PrintTrap
  PROVE  MachineTypeOK'
<1>1. InBounds
  BY DEF PrintTrap, Execute
<1>2. CASE Popped = 1
  BY <1>1, <1>2, PoppedWords, PopTyped DEF PrintTrap
<1>3. CASE Popped # 1
  BY <1>3 DEF PrintTrap, MachineTypeOK
<1> QED
  BY <1>2, <1>3

LEMMA StartTyped ==
  ASSUME NEW image \in Images, NEW newShape, StartMachine(image, newShape)
  PROVE  MachineTypeOK'
<1>1. PICK junk \in Garbage : tos' = junk /\ stack' = [i \in 0 .. StackSize - 1 |-> junk]
  BY DEF StartMachine, StartInterpreter
<1>2. junk \in VMVALUE /\ StackSize \in VMVALUE /\ StackSize \in 0 .. StackSize
  BY WordsAssumption, WordFacts
<1> QED
  BY <1>1, <1>2 DEF StartMachine, StartInterpreter, MachineTypeOK

\* Whatever bytes are executed, the registers and the stack hold words and memory holds
\* bytes (MachineTypeOK): no operator of vmint.c computes a value wider than a VMVALUE,
\* and no instruction that was found in bounds leads sp off the stack.
THEOREM MachineTypes == MachineSpec => []MachineTypeOK
<1>1. MachineIdle => MachineTypeOK
  <2> SUFFICES ASSUME MachineIdle PROVE MachineTypeOK
    OBVIOUS
  <2>1. <<>> \in Images
    BY WordFacts DEF Images
  <2>2. 0 \in VMVALUE /\ StackSize \in VMVALUE /\ StackSize \in 0 .. StackSize
    BY WordFacts
  <2> QED
    BY <2>1, <2>2 DEF MachineIdle, InterpreterIdle, MachineTypeOK
<1>2. MachineTypeOK /\ [MachineNext]_mvars => MachineTypeOK'
  <2> SUFFICES ASSUME MachineTypeOK, [MachineNext]_mvars
               PROVE  MachineTypeOK'
    OBVIOUS
  <2>1. CASE InterpreterNext
    BY <2>1, QuietTyped, BranchTyped, OperatorTyped, PushingTyped, MemoryTyped, LocalSetTyped,
       CallTyped, FrameTyped, ReturnTyped, CleanTyped, PrintTyped DEF InterpreterNext
  <2>2. CASE \E image \in Images : \E newShape : StartMachine(image, newShape)
    BY <2>2, StartTyped
  <2>3. CASE UNCHANGED mvars
    BY <2>3 DEF mvars, MachineTypeOK
  <2> QED
    BY <2>1, <2>2, <2>3 DEF MachineNext, MachineStep
<1> QED
  BY <1>1, <1>2, PTL DEF MachineSpec
=============================================================================
