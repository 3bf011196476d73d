------------------------------ MODULE Workspace ------------------------------
(***************************************************************************)
(* The workspace record g of the code generator (generate.c), and the        *)
(* operations by which the compiler changes it:                              *)
(*   mem     the low memory from codeBuf up to nextLow, as bytes             *)
(*   syms    the global symbol table, in order; a symbol is named by its     *)
(*           index                                                           *)
(*   funs    the functions[] table: entry point and length of what was       *)
(*           generated                                                       *)
(*   pv      the PVAL of the last expression coded                           *)
(*   gen     "ok", "fatal" once GenerateFatal has printed (and returned), or *)
(*           "crash" once a GEN_NULL handler has been called                 *)
(*   refs    history: what each word of code that was put as a reference     *)
(*           refers to, <<"symbol", s>> or <<"branch", the first word of the *)
(*           branches that go to the same place>>                            *)
(*   landed  history: where those branches go, by the first word             *)
(***************************************************************************)
EXTENDS Image

NoPV == [fcn |-> "null", val |-> 0]
EmptyWorkspace ==
  [mem |-> <<>>, syms |-> <<>>, funs |-> <<>>, pv |-> NoPV, gen |-> "ok",
   refs |-> <<>>, landed |-> <<>>]

PutByte(g, b)      == [g EXCEPT !.mem = Append(@, b % 256)]
PutWord(g, w)      == [g EXCEPT !.mem = @ \o CodeWord(w)]
PutData(g, w)      == [g EXCEPT !.mem = @ \o DataWord(w)]
PutBytes(g, bytes) == [g EXCEPT !.mem = @ \o bytes]
CodeAddr(g)        == Len(g.mem)
Fatal(g)           == [g EXCEPT !.gen = "fatal"]

NewSymbol(name, class, value, type) ==
  [name |-> name, class |-> class, placed |-> FALSE, value |-> value, type |-> type]
AddSymbol(g, sym) == [g EXCEPT !.syms = Append(@, sym)]
MarkPlaced(g)     == [g EXCEPT !.syms[Len(g.syms)].placed = TRUE]
SetClass(g, s, class, type) == [g EXCEPT !.syms[s].class = class, !.syms[s].type = type]

RdWord(mem, a)    == CodeWordValue(Bytes(mem, a, W))
WrWord(mem, a, w) == Overwrite(mem, a, CodeWord(w))

PatchedMutant(mem, chn, words) ==   \* writes over the opcode before the word
  LET after[n \in 0 .. Len(mem)] ==
        IF n = 0 THEN [mem |-> mem, chn |-> chn]
        ELSE LET x == after[n - 1]
             IN  IF x.chn = 0 THEN x
                 ELSE [mem |-> WrWord(x.mem, x.chn - 1, words[x.chn]), chn |-> RdWord(x.mem, x.chn)]
  IN  after[CHOOSE n \in 0 .. Len(mem) : after[n].chn = 0].mem

\* A chain of forward references is threaded through the words to be patched;
\* address 0 ends it.  words says what is written at each of them.  A chain has
\* no more words than the memory has bytes.
Patched(mem, chn, words) ==
  LET after[n \in 0 .. Len(mem)] ==
        IF n = 0 THEN [mem |-> mem, chn |-> chn]
        ELSE LET x == after[n - 1]
             IN  IF x.chn = 0 THEN x
                 ELSE [mem |-> WrWord(x.mem, x.chn, words[x.chn]), chn |-> RdWord(x.mem, x.chn)]
  IN  after[CHOOSE n \in 0 .. Len(mem) : after[n].chn = 0].mem

Fixup(g, chn, val) == [g EXCEPT !.mem = Patched(@, chn, [a \in Nat |-> val])]
FixupBranchMutant(g, chn, val) ==   \* counts from the word, not from its end
  [g EXCEPT !.mem = Patched(@, chn, [a \in Nat |-> val - a])]
FixupBranch(g, chn, val) == [g EXCEPT !.mem = Patched(@, chn, [a \in Nat |-> val - (a + W)])]

\* The function with one argument's value added.
Noted(f, a, v) == [x \in DOMAIN f \cup {a} |-> IF x = a THEN v ELSE f[x]]

Referring(g, a, to) == [g EXCEPT !.refs = Noted(@, a, to)]

FixupHere(g, chn) ==
  [FixupBranch(g, chn, CodeAddr(g)) EXCEPT !.landed = Noted(@, g.refs[chn][2], CodeAddr(g))]

\* op followed by a word that continues the chain chn; the word is at
\* CodeAddr(g) + 1.
PutBranch(g, op, chn) ==
  Referring(PutWord(PutByte(g, op), chn), CodeAddr(g) + 1,
            IF chn = 0 THEN <<"branch", CodeAddr(g) + 1>> ELSE g.refs[chn])
LoopBranch(g, op, word, target) ==
  Referring([PutWord(PutByte(g, op), word) EXCEPT !.landed = Noted(@, CodeAddr(g) + 1, target)],
            CodeAddr(g) + 1, <<"branch", CodeAddr(g) + 1>>)
PutBranchBackMutant(g, op, target) ==   \* forgets the opcode byte
  LoopBranch(g, op, target - CodeAddr(g) - W, target)
PutBranchBack(g, op, target) ==
  LoopBranch(g, op, target - CodeAddr(g) - 1 - W, target)

PlaceSymbol(g, s, a) ==
  IF g.syms[s].placed THEN Fatal(g)
  ELSE [Fixup(g, g.syms[s].value, a) EXCEPT !.syms[s].placed = TRUE, !.syms[s].value = a]

CodeSymbolRefMutant(g, s) ==   \* the symbol does not get the new head of its chain
  Referring(PutWord(PutByte(g, Op.LIT), g.syms[s].value), CodeAddr(g) + 1, <<"symbol", s>>)

\* LIT of the symbol's address, or of the head of its chain, which becomes this
\* reference.
CodeSymbolRef(g, s) ==
  LET ref == Referring(PutWord(PutByte(g, Op.LIT), g.syms[s].value), CodeAddr(g) + 1, <<"symbol", s>>)
  IN  IF g.syms[s].placed THEN ref ELSE [ref EXCEPT !.syms[s].value = CodeAddr(g) + 1]
=============================================================================
