--------------------------- MODULE MCOutputScreen ---------------------------
(* Model-checking instance of OutputScreen. *)
EXTENDS OutputScreen, TLC

(* Streams are only compared for equality. *)
Symmetry == Permutations(Streams)
=============================================================================
