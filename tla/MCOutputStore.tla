--------------------------- MODULE MCOutputStore ---------------------------
(* Model-checking instance of OutputStore. *)
EXTENDS OutputStore, TLC

(* Streams are only compared for equality. *)
Symmetry == Permutations(Streams)
=============================================================================
