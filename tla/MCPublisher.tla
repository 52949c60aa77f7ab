---------------------------- MODULE MCPublisher ----------------------------
(* Versions 1 and 2 of MCContentOf differ in their metadata only.         *)
EXTENDS Publisher

CONSTANTS blog, wiki
MCContentOf == <<1, 1, 2>>
MCTrees == [n \in Names |-> IF n = blog THEN {1, 2, 3} ELSE {2}]
MCAllTrees == [n \in Names |-> Versions]
=============================================================================
