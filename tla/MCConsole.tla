------------------------------- MODULE MCConsole -------------------------------
(***************************************************************************)
(* Up to three lines, with numbers below, between, equal to and above those  *)
(* RENUM and LOAD give, typed with and without leading zeros, spaces and     *)
(* indentation; commands in any case, with a name and without, and one word  *)
(* longer than the token, which loses its end; a file with an indented line, *)
(* an empty one, an over-long one and a last line without its newline.       *)
(***************************************************************************)
EXTENDS Console

MCTyped ==
  {"5 X\n", "  105\tX\n", "0110  X\n", "110\n", "5  \n", "\n", "110X\n",
   "new\n", "List x\n", "RENUM\n", "run\n", "cat\n", "renumb\n",
   "SAVE\n", "load f.bas\n", "LOAD\n", "NEW f\n"}
MCNumbers == {5, 100, 105, 110, 120, 130}
MCTexts == {"X\n", " X\n", "2\n", "\n", "XXXXXXXXXXXXX", "X"}
MCDisk == "f.bas" :> " X\n\nXXXXXXXXXXXXX2\nX"
=============================================================================
