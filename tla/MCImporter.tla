----------------------------- MODULE MCImporter -----------------------------
(* Instances of Importer for TLC: messages that share a keyword.            *)
EXTENDS Importer

MCWordsOf == [m \in Msgs |-> IF m = 2 THEN {1, 2} ELSE {2}]
=============================================================================
