------------------------------ MODULE MCIoFiles ------------------------------
(* Four blocks for FILEs and four handles: one beyond the standard ones,    *)
(* and more when those have been collected.                                 *)
EXTENDS IoFiles, TLC

MCModes == {<<"r">>, <<"w", "b", "+">>}
Symmetry == Permutations(Blocks) \union Permutations(Hands)
=============================================================================
