------------------------------- MODULE MCSource -------------------------------
(***************************************************************************)
(* Constructors for the source programs of the model-checking modules: the  *)
(* statements that Grammar reads.                                           *)
(***************************************************************************)
EXTENDS Arith

Num(v)        == [k |-> "num", val |-> v]
Id(x)         == [k |-> "id", name |-> x]
Str(text)     == [k |-> "str", text |-> text]
Un(op, e)     == [k |-> "un", op |-> op, e |-> e]
Bin(op, l, r) == [k |-> "bin", op |-> op, l |-> l, r |-> r]
AnyOf(es)       == [k |-> "or", es |-> es]
AllOf(es)       == [k |-> "and", es |-> es]
Fn(f, args)   == [k |-> "call", fcn |-> Id(f), args |-> args]
Idx(a, i)     == [k |-> "idx", array |-> Id(a), index |-> i]

Line(kind)           == [k |-> kind]
LetLine(l, r)        == [k |-> "let", lvalue |-> l, rvalue |-> r]
CallLine(e)          == [k |-> "call", expr |-> e]
TestLine(kind, e)    == [k |-> kind, test |-> e]
IfThenLine(e, s)     == [k |-> "ifline", test |-> e, then |-> s]
ForLine(x, a, b, st) == [k |-> "for", var |-> x, start |-> a, end |-> b, step |-> st]
NextLine(x)          == [k |-> "next", var |-> x]
ReturnLine(es)       == [k |-> "return", expr |-> es]
IntItem(e)           == [k |-> "int", expr |-> e]
TabItem              == [k |-> "tab"]
JoinItem             == [k |-> "join"]
PrintItemsLine(dev, items) == [k |-> "print", dev |-> dev, items |-> items]
PrintLine(e)         == PrintItemsLine(<<>>, <<IntItem(e)>>)
DefLine(f, xs) == [k |-> "function", name |-> f, args |-> xs]
Decl(x, init) == [name |-> x, array |-> FALSE, size |-> <<>>, given |-> init # <<>>, init |-> init]
ArrayDecl(x, size, init) ==
  [name |-> x, array |-> TRUE, size |-> size, given |-> init # <<>>, init |-> init]
DimLine(x, init)     == [k |-> "dim", decls |-> <<Decl(x, init)>>]
ArrayLine(x, n, init) == [k |-> "dim", decls |-> <<ArrayDecl(x, <<Num(n)>>, init)>>]
DimsLine(decls)      == [k |-> "dim", decls |-> decls]
Instr(op)            == [op |-> op, arg |-> <<>>]
InstrOf(op, v)       == [op |-> op, arg |-> <<Num(v)>>]
AsmLine(code)        == [k |-> "asm", code |-> code]
=============================================================================
