---------------------------- MODULE MCRepository ----------------------------
(* Instances of Repository: two backups of a file and of a split file that *)
(* has the same content as one of its blocks.                              *)
EXTENDS Repository, TLC

CONSTANTS x, y, l

MCBlocks == (l :> {x, y})
MCSource == [b \in Backups |-> {x, l}]

(* Processes of the same kind are interchangeable.                         *)
Symmetry == Permutations(Backups) \cup Permutations(GCs)
=============================================================================
