------------------------------ MODULE SourceNames ------------------------------
(***************************************************************************)
(* The blocks and the names of a program, read off its statements alone:    *)
(* which lines a block owns, which names a line uses, and which of them the  *)
(* program stands behind.                                                    *)
(***************************************************************************)
EXTENDS Integers, FiniteSets, SequencesExt

Openers == {"if", "for", "do", "dowhile", "dountil", "function"}
Closers == {"endif", "next", "loop", "loopwhile", "loopuntil", "endfunction"}

Depth(src, i, j) ==
  Cardinality({n \in i .. j : src[n].k \in Openers})
    - Cardinality({n \in i .. j : src[n].k \in Closers})

\* The line that closes the block line i opens, or one past the last line.
Match(src, i) ==
  Min({j \in i .. Len(src) : Depth(src, i, j) = 0} \cup {Len(src) + 1})

\* The FUNCTION line of the function that line i is in, if there is one.
Enclosing(src, i)  == {f \in 1 .. i : src[f].k = "function" /\ Match(src, f) > i}
InFunction(src, i) == Enclosing(src, i) # {}
-----------------------------------------------------------------------------
\* An expression and the parts of it, but for the name of a function that is called.
RECURSIVE Within(_)
Within(e) ==
  {e} \cup UNION {Within(part) : part \in
    CASE e.k = "un"            -> {e.e}
      [] e.k = "bin"           -> {e.l, e.r}
      [] e.k \in {"or", "and"} -> Range(e.es)
      [] e.k = "call"          -> Range(e.args)
      [] e.k = "idx"           -> {e.array, e.index}
      [] OTHER                 -> {}}

ExpressionsOf(s) ==
  {s[part] : part \in {"lvalue", "rvalue", "test", "start", "end"} \cap DOMAIN s}
    \cup CASE s.k = "call"   -> {s.expr}
           [] s.k = "return" -> Range(s.expr)
           [] s.k = "for"    -> Range(s.step)
           [] s.k = "print"  -> Range(s.dev) \cup {item.expr : item \in {i \in Range(s.items) : i.k = "int"}}
           [] s.k = "dim"    -> UNION {Range(decl.init) : decl \in Range(s.decls)}
           [] OTHER          -> {}
PartsOf(s, kind) == {e \in UNION {Within(x) : x \in ExpressionsOf(s)} : e.k = kind}

DeclaredBy(s) == IF s.k = "dim" THEN {decl.name : decl \in Range(s.decls)} ELSE {}

\* The arguments of the function that line i is in, and its local variables so far.
OwnNames(src, i) ==
  UNION {Range(src[f].args) \cup UNION {DeclaredBy(src[n]) : n \in f .. i} : f \in Enclosing(src, i)}

\* What line i calls, and the variables of the whole program that it reads or assigns to.
CalledBy(src, i)   == {e.fcn.name : e \in PartsOf(src[i], "call")}
AccessedBy(src, i) == {e.name : e \in PartsOf(src[i], "id")} \ OwnNames(src, i)
-----------------------------------------------------------------------------
\* What a program stands behind: the functions it defines to the end, and the
\* variables that its lines up to last declare or assign to.  A variable that only
\* counts a loop is given a value, but by FOR.
Functions(src) == {src[f].name : f \in {i \in DOMAIN src : src[i].k = "function" /\ Match(src, i) <= Len(src)}}
GivenBy(src, i) ==
  CASE src[i].k = "let" -> IF src[i].lvalue.k = "id" THEN {src[i].lvalue.name} \ OwnNames(src, i) ELSE {}
    [] src[i].k = "dim" -> IF InFunction(src, i) THEN {} ELSE DeclaredBy(src[i])
    [] OTHER            -> {}
Variables(src, last) == UNION {GivenBy(src, i) : i \in 1 .. last}
Counters(src, last)  == {src[i].var : i \in {n \in 1 .. last : src[n].k = "for"}}
Provided(src) == Functions(src) \cup Variables(src, Len(src))

\* The last line of the function that line i is in, or of the program.
UnitEnd(src, i) == Min({Match(src, f) : f \in Enclosing(src, i)} \cup {Len(src)})

\* Every function that is called is defined somewhere, every variable given a value
\* before the end of the function it is used in; a name is a function or a variable, and
\* it is declared once, before it is used.
WellNamed(src) ==
  /\ \A i \in DOMAIN src :
       /\ CalledBy(src, i) \subseteq Functions(src) \ OwnNames(src, i)
       /\ AccessedBy(src, i) \subseteq Variables(src, UnitEnd(src, i)) \cup Counters(src, UnitEnd(src, i))
  /\ Functions(src) \cap (Variables(src, Len(src)) \cup Counters(src, Len(src))) = {}
  /\ \A j \in DOMAIN src : src[j].k = "dim" =>
       \A i \in 1 .. j - 1 : GivenBy(src, j) \cap (AccessedBy(src, i) \cup GivenBy(src, i)) = {}
=============================================================================
