------------------------------ MODULE Characters ------------------------------
(***************************************************************************)
(* Characters as strings of length one, their codes and classes (ctype.h    *)
(* and string.h as the scanner, the editor and the string table use them).  *)
(***************************************************************************)
EXTENDS Integers, Sequences, SequencesExt

Chars(text) == [i \in 1 .. Len(text) |-> SubSeq(text, i, i)]

UpToUnderscore == " !\"#$%&'()*+,-./0123456789:;<=>?@ABCDEFGHIJKLMNOPQRSTUVWXYZ[\\]^_"
FromBrace == "{|}~"
UpperCase == "ABCDEFGHIJKLMNOPQRSTUVWXYZ"
LowerCase == "abcdefghijklmnopqrstuvwxyz"

Upper == Range(Chars(UpperCase))
Lower == Range(Chars(LowerCase))
Digits == Range(Chars("0123456789"))
HexDigits == Range(Chars("0123456789abcdefABCDEF"))
Spaces == {" ", "\t", "\n", "\r"}

Place(text, ch) == SelectInSeq(Chars(text), LAMBDA x : x = ch)

\* The code of a character: ASCII.
Code(ch) ==
  CASE ch = "\t" -> 9 [] ch = "\n" -> 10 [] ch = "\r" -> 13
    [] ch \in Lower -> 96 + Place(LowerCase, ch)
    [] ch \in Range(Chars(FromBrace)) -> 122 + Place(FromBrace, ch)
    [] OTHER -> 31 + Place(UpToUnderscore, ch)
Codes(text) == [i \in 1 .. Len(text) |-> Code(SubSeq(text, i, i))]

ToUpper(ch) == IF ch \in Lower THEN SubSeq(UpperCase, Place(LowerCase, ch), Place(LowerCase, ch)) ELSE ch

\* The text as strcasecmp compares it.
Folded(text) == FoldLeft(LAMBDA acc, ch : acc \o ToUpper(ch), "", Chars(text))
=============================================================================
