----------------------------- MODULE MCEditBuffer -----------------------------
(***************************************************************************)
(* Room for two to four lines.  Lines of one character take four cells and   *)
(* longer ones six, so replacing one grows and shrinks the buffer; the file  *)
(* has an empty line, an over-long one, which LOAD splits, a last one that  *)
(* is not terminated, and one that does not fit before one that does; the    *)
(* console enters numbers below, between and equal to those LOAD and RENUM   *)
(* give.                                                                     *)
(***************************************************************************)
EXTENDS EditBuffer

a == 97
MCChars == {a}
MCTyped == {<<a>>, <<a, NL>>}
MCNumbers == {5, 110}
MCNames == {"f", "g"}
MCDisk == "f" :> <<NL, a, a, a, a, NL, a>>
=============================================================================
