----------------------------- MODULE MCGlueHeap -----------------------------
(* Model-checking instance of GlueHeap. *)
EXTENDS GlueHeap, TLC

(* Handles, addresses and callers are only compared for equality. *)
Symmetry == Permutations(Handles) \union Permutations(Addresses)
              \union Permutations(Blocks)
=============================================================================
