----------------------------- MODULE MCDead10ccFix -----------------------------
(* Two files and three descriptors: one more than the files, for a leak and for the end of the table. *)
EXTENDS Dead10ccFix

CONSTANTS f1, f2

Pair(k1, k2) == [f \in Files |-> IF f = f1 THEN k1 ELSE k2]
MCFileKinds == {Pair("plain", "plain"), Pair("database", "unlinked"), Pair("plain", "other")}
=============================================================================
