---------------------------- MODULE BasicSemantics ----------------------------
(***************************************************************************)
(* What a program means, read off its statements alone: a big-step          *)
(* evaluator that knows nothing of parse trees, code or a stack.  A block    *)
(* statement owns the lines up to the one that closes it.  st carries        *)
(*   vars, arrs   global variables and arrays by name (absent: 0)            *)
(*   frame        arguments and locals of the function being executed        *)
(*   nested       a function is being executed                               *)
(*   ctl          "run", "return", "end" (an END statement), "fuel" (given   *)
(*                up), or "error" (the language gives no meaning)            *)
(*   val, out     the last value; the values printed                         *)
(***************************************************************************)
EXTENDS Arith, Characters, SourceNames

Lookup(f, x) == IF x \in DOMAIN f THEN f[x] ELSE 0
Bind(f, x, v) == (x :> v) @@ f

\* The ELSE IF and ELSE lines of the IF at line i, and its END IF, in order.
Arms(src, i) ==
  LET last == Match(src, i)
  IN  SetToSortSeq({j \in i + 1 .. last - 1 :
                      src[j].k \in {"elseif", "else"} /\ Depth(src, i, j) = 1} \cup {last},
                   <)

FunctionLine(src, name) ==
  SelectInSeq(src, LAMBDA s : s.k = "function" /\ s.name = name)

Assign(st, x, v) ==
  IF st.nested /\ x \in DOMAIN st.frame THEN [st EXCEPT !.frame[x] = v]
  ELSE [st EXCEPT !.vars = Bind(@, x, v)]

Running(st) == st.ctl = "run"
Stop(st, ctl) == IF Running(st) THEN [st EXCEPT !.ctl = ctl] ELSE st
Give(st, v) == [st EXCEPT !.val = v]
Burn(st) == IF st.fuel = 0 THEN Stop(st, "fuel") ELSE [st EXCEPT !.fuel = @ - 1]

RECURSIVE Eval(_, _)
RECURSIVE Exec(_, _, _)

\* Operands are evaluated left to right, actual arguments right to left.
EvalBinary(st, e) ==
  LET l == Eval(st, e.l)
      r == Eval(l, e.r)
  IN  IF e.op \in {"DIV", "REM"} /\ r.val = 0 THEN Give(r, 0)
      ELSE IF ~Defined(Op[e.op], l.val, r.val) THEN Stop(r, "error")
      ELSE Give(r, BinaryOp(Op[e.op], l.val, r.val))

EvalLogical(st, es, decides(_)) ==
  FoldLeft(LAMBDA acc, e : IF decides(acc.val) THEN acc ELSE Eval(acc, e),
           Eval(st, Head(es)), Tail(es))

EvalArray(st, e) ==
  LET i == Eval(st, e.index)
      a == IF e.array.name \in DOMAIN st.arrs THEN st.arrs[e.array.name] ELSE <<>>
  IN  IF i.val \in 0 .. Len(a) - 1 THEN Give(i, a[i.val + 1]) ELSE Stop(i, "error")

\* The state after the last of es was evaluated first, and their values.
RECURSIVE EvalActuals(_, _)
EvalActuals(st, es) ==
  IF es = <<>> THEN [st |-> st, vals |-> <<>>]
  ELSE LET rest == EvalActuals(st, Tail(es))
           d    == Eval(rest.st, Head(es))
       IN  [st |-> d, vals |-> <<d.val>> \o rest.vals]

EvalCall(st, e) ==
  LET f     == FunctionLine(st.src, e.fcn.name)
      actuals == EvalActuals(st, e.args)
      names == st.src[f].args
      in    == [Burn(actuals.st) EXCEPT
                  !.frame = [x \in Range(names) |-> actuals.vals[SelectInSeq(names, LAMBDA n : n = x)]],
                  !.nested = TRUE]
      back(d) == [d EXCEPT !.frame = st.frame, !.nested = st.nested,
                           !.val = IF d.ctl = "return" THEN @ ELSE 0,
                           !.ctl = IF @ = "return" THEN "run" ELSE @]
  IN  IF f = 0 \/ Len(names) # Len(e.args) THEN Stop(st, "error")
      ELSE back(Exec(in, f + 1, Match(st.src, f) - 1))

Eval(st, e) ==
  CASE ~Running(st)   -> st
    [] Running(st) /\ e.k = "num"  -> Give(st, Wrap(e.val))
    [] Running(st) /\ e.k = "str"  -> Stop(st, "error")     \* a string is no number
    [] Running(st) /\ e.k = "id"   ->
         IF st.nested /\ e.name \in DOMAIN st.frame THEN Give(st, st.frame[e.name])
         ELSE IF e.name \in DOMAIN st.arrs THEN Stop(st, "error")
         ELSE Give(st, Lookup(st.vars, e.name))
    [] Running(st) /\ e.k = "un"   -> LET d == Eval(st, e.e) IN Give(d, UnaryOp(Op[e.op], d.val))
    [] Running(st) /\ e.k = "bin"  -> EvalBinary(st, e)
    [] Running(st) /\ e.k = "or"   -> EvalLogical(st, e.es, LAMBDA v : v # 0)
    [] Running(st) /\ e.k = "and"  -> EvalLogical(st, e.es, LAMBDA v : v = 0)
    [] Running(st) /\ e.k = "idx"  -> EvalArray(st, e)
    [] Running(st) /\ e.k = "call" -> EvalCall(st, e)
-----------------------------------------------------------------------------
AssignElement(st, x, v) ==              \* the index is the last value
  IF x \in DOMAIN st.arrs /\ st.val \in 0 .. Len(st.arrs[x]) - 1
  THEN [st EXCEPT !.arrs[x][st.val + 1] = v] ELSE Stop(st, "error")
AssignTo(st, e) ==
  IF e.k = "id" THEN Assign(st, e.name, st.val)
  ELSE AssignElement(Eval(st, e.index), e.array.name, st.val)
ExecLet(st, s) == AssignTo(Eval(st, s.rvalue), s.lvalue)

\* Runs the first arm whose test holds: arms is what is left of Arms(src, i).
RECURSIVE ExecIf(_, _, _)
ExecArm(st, i, arms) ==
  CASE ~Running(st) -> st
    [] Running(st) /\ st.val # 0 -> Exec(st, i + 1, Head(arms) - 1)
    [] Running(st) /\ st.val = 0 /\ Len(arms) = 1 -> st
    [] Running(st) /\ st.val = 0 /\ Len(arms) > 1 -> ExecIf(st, Head(arms), Tail(arms))
ExecIf(st, i, arms) ==
  ExecArm(IF st.src[i].k = "else" THEN Give(st, 1) ELSE Eval(st, st.src[i].test), i, arms)

Always(st) == Give(st, 1)
Until(st, e) == LET d == Eval(st, e) IN Give(d, Bool(d.val = 0))
Var(s) == [k |-> "id", name |-> s.var]

\* The test at the head of the loop that statement s opens gives 0 to leave.
LoopHead(st, s) ==
  CASE s.k = "dowhile" -> Eval(st, s.test)
    [] s.k = "dountil" -> Until(st, s.test)
    [] s.k = "do"      -> Always(st)
    [] s.k = "for"     -> Eval(st, [k |-> "bin", op |-> "LE", l |-> Var(s), r |-> s.end])

\* What happens where statement z closes it: the same for its value.
LoopFoot(st, s, z) ==
  CASE z.k = "loopwhile" -> Eval(st, z.test)
    [] z.k = "loopuntil" -> Until(st, z.test)
    [] z.k = "loop"      -> Always(st)
    [] z.k = "next"      ->
         LET step == IF s.step = <<>> THEN [k |-> "num", val |-> 1] ELSE s.step[1]
             d    == Eval(st, [k |-> "bin", op |-> "ADD", l |-> Var(s), r |-> step])
         IN  Always(Assign(d, s.var, d.val))

\* The loop of lines i .. last from its head, its body, its foot and its end.
RECURSIVE Repeat(_, _, _)
AfterFoot(st, i, last) == IF Running(st) /\ st.val # 0 THEN Repeat(st, i, last) ELSE st
AfterBody(st, i, last) ==
  IF Running(st) THEN AfterFoot(LoopFoot(st, st.src[i], st.src[last]), i, last) ELSE st
AfterHead(st, i, last) ==
  IF Running(st) /\ st.val # 0 THEN AfterBody(Exec(Burn(st), i + 1, last - 1), i, last) ELSE st
Repeat(st, i, last) == AfterHead(LoopHead(st, st.src[i]), i, last)

ExecLoop(st, i, last) ==
  LET s     == st.src[i]
      first == Eval(st, s.start)
  IN  Repeat(IF s.k = "for" THEN Assign(first, s.var, first.val) ELSE st, i, last)

\* PRINT to any channel: the items in order, and a new line unless the last item
\* is a comma or a semicolon.
Out(st, what) == [st EXCEPT !.out = Append(@, what)]
PrintedItem(st, item) ==
  CASE item.k = "tab"  -> Out(st, <<Trap.PrintTab>>)
    [] item.k = "join" -> st
    [] item.k = "str"  -> Out(st, <<Trap.PrintStr, Codes(item.text)>>)
    [] item.k = "int"  -> LET d == Eval(st, item.expr) IN Out(d, <<Trap.PrintInt, d.val>>)
LineDone(items) == items # <<>> /\ Last(items).k \in {"tab", "join"}
ExecPrint(st, s) ==
  LET d == FoldLeft(PrintedItem, st, s.items)
  IN  IF LineDone(s.items) THEN d ELSE Out(d, <<Trap.PrintNL>>)

\* A local without an initializer is 0 when the function is entered.
ExecLocal(st, decl) ==
  LET d == IF decl.given THEN Eval(st, decl.init[1])
           ELSE Give(st, IF decl.name \in DOMAIN st.frame THEN st.frame[decl.name] ELSE 0)
  IN  [d EXCEPT !.frame = Bind(@, decl.name, d.val)]

\* The lines lo .. hi at the level of their block.
Exec(st, lo, hi) ==
  LET s    == st.src[lo]
      last == Match(st.src, lo)
      skip(d) == Exec(d, last + 1, hi)
      then(d) == Exec(d, lo + 1, hi)
  IN  IF ~Running(st) \/ lo > hi THEN st ELSE
      CASE s.k = "let"      -> then(ExecLet(st, s))
        [] s.k = "call"     -> then(Eval(st, s.expr))
        [] s.k = "print"    -> then(ExecPrint(st, s))
        [] s.k = "if"       -> skip(ExecIf(st, lo, Arms(st.src, lo)))
        [] s.k \in {"for", "do", "dowhile", "dountil"} -> skip(ExecLoop(st, lo, last))
        [] s.k = "function" -> skip(st)
        [] s.k = "return"   ->
             Stop(IF s.expr = <<>> THEN Give(st, 0) ELSE Eval(st, s.expr[1]),
                  IF st.nested THEN "return" ELSE "error")
        [] s.k = "end"      -> Stop(st, "end")
        [] s.k = "asm"      -> Stop(st, "error")
        [] s.k = "dim" /\ st.nested -> then(FoldLeft(ExecLocal, st, s.decls))
        [] OTHER            -> then(st)

\* A DIM outside every function takes effect before the program starts.
GlobalDims(src) == {i \in 1 .. Len(src) : src[i].k = "dim" /\ ~InFunction(src, i)}

\* The language does not say what the rest of an array holds whose initializers
\* are fewer than its elements.
Declare(st, decl) ==
  LET size    == IF decl.size = <<>> THEN 0 ELSE Eval(st, decl.size[1]).val
      value(i) == IF decl.given THEN Eval(st, decl.init[i]).val ELSE 0
  IN  CASE ~decl.array -> [st EXCEPT !.vars = Bind(@, decl.name, value(1))]
        [] decl.array /\ decl.given /\ Len(decl.init) # size -> Stop(st, "error")
        [] OTHER -> [st EXCEPT !.arrs = Bind(@, decl.name, [i \in 1 .. size |-> value(i)])]

Reference(src, fuel) ==
  LET empty == [x \in {} |-> 0]
      st0   == [src |-> src, vars |-> empty, arrs |-> empty, frame |-> empty, nested |-> FALSE,
                ctl |-> "run", val |-> 0, out |-> <<>>, fuel |-> fuel]
      dims  == FoldLeft(LAMBDA st, i : FoldLeft(Declare, st, src[i].decls), st0,
                        SetToSortSeq(GlobalDims(src), <))
      result(st) == [ctl |-> IF st.ctl = "end" THEN "run" ELSE st.ctl,
                     vars |-> st.vars, arrs |-> st.arrs, out |-> st.out]
      sound == Depth(src, 1, Len(src)) = 0 /\ WellNamed(src)
  IN  result(IF sound THEN Exec(dims, 1, Len(src)) ELSE Stop(dims, "error"))
=============================================================================
