-------------------------------- MODULE MCReader --------------------------------
(***************************************************************************)
(* Reader with lines that say anything: two files of two lines and one line  *)
(* that may include each other and themselves, and one that is not there.   *)
(***************************************************************************)
EXTENDS Reader, TLC

MCPrograms     == {"empty", "short", "long"}
MCEdits(p)     == MCPrograms
MCMainLines(p) == CASE p = "empty" -> 0 [] p = "short" -> 1 [] p = "long" -> 3
MCNames        == {"a", "b", "gone"}
MCReadable     == {"a", "b"}
MCFileLines    == "a" :> 2 @@ "b" :> 1 @@ "gone" :> 0
=============================================================================
