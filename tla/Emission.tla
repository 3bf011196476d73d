------------------------------- MODULE Emission -------------------------------
(***************************************************************************)
(* The workspace as the compiler changes it, one operation at a time: what   *)
(* any statement handler does, and the generation of any function, is a      *)
(* sequence of these steps.                                                  *)
(***************************************************************************)
EXTENDS References
-----------------------------------------------------------------------------
Init == g = EmptyWorkspace

Code(b)    == g' = PutByte(g, b)
Word(w)    == g' = PutWord(g, w)
Data(w)    == g' = PutData(g, w)
Text(text) == g' = PutBytes(g, text)

\* A symbol that is used before it is defined, and one that DIM defines.
Declare(name, class, type) == g' = AddSymbol(g, NewSymbol(name, class, 0, type))
Define(name, class, a, type) == g' = MarkPlaced(AddSymbol(g, NewSymbol(name, class, a, type)))
Classify(s, class, type)   == g' = SetClass(g, s, class, type)

Refer(s)               == g' = CodeSymbolRef(g, s)
Place(s, a)            == g' = PlaceSymbol(g, s, a)
Branch(op, chn)        == g' = PutBranch(g, op, chn)
BranchBack(op, target) == g' = PutBranchBack(g, op, target)
Land(chn)              == g' = FixupHere(g, chn)

\* What touches neither memory nor symbols.
Note(funs, pv, gen) == g' = [g EXCEPT !.funs = funs, !.pv = pv, !.gen = gen]

Emit ==
  \/ \E b \in Int : Code(b)
  \/ \E w \in Int : Word(w) \/ Data(w)
  \/ \E text \in Seq(Byte) : Text(text)
  \/ \E name, class, type : Declare(name, class, type)
  \/ \E name, class, type : \E a \in 0 .. CodeAddr(g) : Define(name, class, a, type)
  \/ \E s \in Symbols : \/ \E class, type : Classify(s, class, type)
                        \/ Refer(s)
                        \/ \E a \in 0 .. CodeAddr(g) : Place(s, a)
  \/ \E op \in Int : \/ \E chn \in Pending \cup {0} : Branch(op, chn)
                     \/ \E target \in 0 .. CodeAddr(g) : BranchBack(op, target)
  \/ \E chn \in Pending : Land(chn)
  \/ \E funs, pv, gen : Note(funs, pv, gen)

\* Memory is smaller than what a word can address: so is the address after it.
Next == Emit /\ Len(g'.mem) < AddressSpace

Spec == Init /\ [][Next]_g
=============================================================================
