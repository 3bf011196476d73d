------------------------------ MODULE References ------------------------------
(***************************************************************************)
(* The references in the code of a program that is being compiled, in the    *)
(* workspace g of the parse context.  Where a reference goes is seldom known *)
(* when it is put; until it is, references to one place are chained through  *)
(* the code itself.                                                         *)
(***************************************************************************)
EXTENDS Workspace

VARIABLE c          \* the parse context, of which only the workspace matters here

g == c.g

Sites   == DOMAIN g.refs
Symbols == DOMAIN g.syms

\* The words that refer to the same place, and the one of them before a.
Chain(to)   == {a \in Sites : g.refs[a] = to}
Latest(S)   == Max(S \cup {0})
Previous(a) == Latest({b \in Chain(g.refs[a]) : b < a})

\* Whether it is known where a reference goes, and what its word is to be then:
\* an address for a symbol, a distance for a branch.
Resolved(a) ==
  IF g.refs[a][1] = "symbol" THEN g.syms[g.refs[a][2]].placed ELSE g.refs[a][2] \in DOMAIN g.landed
Target(a) ==
  IF g.refs[a][1] = "symbol" THEN g.syms[g.refs[a][2]].value ELSE g.landed[g.refs[a][2]] - (a + W)

\* The last words of the branches that are still open: local variables of the
\* functions that generate statements and conditions.
Open    == {a \in Sites : g.refs[a] = <<"branch", a>> /\ ~Resolved(a)}
Pending == {Latest(Chain(<<"branch", a>>)) : a \in Open}
-----------------------------------------------------------------------------
\* Every word that refers to a symbol holds its address once it is placed; until
\* then these words, and no others, are its chain: the symbol has the last of
\* them, each has the one before it, and the first has 0.
ReferencesSound ==
  /\ \A a \in Sites : g.refs[a][1] = "symbol" =>
       RdWord(g.mem, a) = IF Resolved(a) THEN Target(a) ELSE Previous(a)
  /\ \A s \in Symbols : ~g.syms[s].placed => g.syms[s].value = Latest(Chain(<<"symbol", s>>))

\* Every branch whose end has been reached has the distance to it, as the machine
\* will add it to the address of what follows; one that is open is in the chain
\* of those that end with it.
BranchesSound ==
  \A a \in Sites : g.refs[a][1] = "branch" =>
    RdWord(g.mem, a) = IF Resolved(a) THEN Target(a) ELSE Previous(a)

\* What is in memory stays as it was put, but for a word of a reference when it
\* becomes known where it goes: no fixup writes anywhere else, or twice.
PatchedOnce ==
  [][/\ Len(g'.mem) >= Len(g.mem)
     /\ \A i \in 1 .. Len(g.mem) :
          g'.mem[i] # g.mem[i] =>
            \E a \in Sites : i \in a + 1 .. a + W /\ ~Resolved(a) /\ Resolved(a)']_g
=============================================================================
