---------------------------- MODULE MCGraphCache ----------------------------
(* Instances of GraphCache for TLC. *)
EXTENDS GraphCache, TLC

CONSTANTS config, bundle, p1, p2

(* The entry's first text imports the other module, its second does not. *)
SomeImports == [t \in Texts |-> IF t = 1 THEN {bundle} ELSE {}]
Symmetric == Permutations(Procs)
=============================================================================
